---------------------------- MODULE StrategyHost ----------------------------
(***************************************************************************)
(* The Python strategy host (python/strategy_host.py), the Zig supervisor   *)
(* that starts it, feeds it and reads it (strategy_host_lifecycle.zig), the *)
(* gateway that checks its intents (strategy_host_gateway.zig) and the part *)
(* of the TradingShard that opens and closes the host's authority.          *)
(*                                                                          *)
(* The journal is a sequence of facts; the strategy wants one intent for    *)
(* every fact that is TRUE and its private state is a function of the facts *)
(* it has applied, so a state is a cursor and the next intent number.       *)
(* Two processes run concurrently, joined by two pipes: the host, one step  *)
(* per frame it reads, and the owner, which makes all Zig steps.            *)
(***************************************************************************)
EXTENDS Integers, Sequences, FiniteSets, HostState

CONSTANTS
    Modes,          \* --mode values the owner may start a host with
    MaxFacts,       \* bound: facts in the journal
    MaxSessions,    \* bound: host generations
    MaxBatch,       \* bound: facts in one input batch
    TradeBatches,   \* --trade-batches and --benchmark-batches
    MaxRequests,    \* bound: checkpoint requests per session
    MaxFaults       \* bound: deadlines missed, batches refused, stale outputs

ASSUME HostAssumption ==
    /\ Modes \subseteq Mode /\ TradeBatches \in Nat \ {0}
    /\ {MaxFacts, MaxSessions, MaxBatch, MaxRequests, MaxFaults} \subseteq Nat

VARIABLES
    facts,      \* the journal: whether the strategy wants an intent for the fact
    host,       \* the Python process
    toHost,     \* frames on the child's stdin
    toZig,      \* frames on the child's stdout
    sup,        \* HostSupervisor and ManagedHost
    gateway,    \* Gateway
    shard,      \* host_activation_* of the TradingShard and the intents it knows
    proposed,   \* intents the gateway accepted, not yet applied by the shard
    faults,     \* bound: faults so far
    outputs,    \* history: intents the hosts wrote
    admitted    \* history: intents the shard admitted

vars == <<facts, host, toHost, toZig, sup, gateway, shard, proposed, faults, outputs, admitted>>
zigVars == <<facts, sup, gateway, shard, proposed, faults, admitted>>

Emits(first, last) == {n \in first .. last : n \in DOMAIN facts /\ facts[n]}
\* next_intent_sequence of a strategy that has applied the facts up to the cursor.
NumberAfter(cursor) == 1 + Cardinality(Emits(1, cursor))
Earliest(S) == CHOOSE n \in S : \A m \in S : n <= m
Last(s) == s[Len(s)]

-----------------------------------------------------------------------------
(* The Python process.  A frame that is out of sequence, of another session *)
(* or of an unexpected type raises an exception: the process dies without a *)
(* word, except where RecoveryNeeded is raised.                             *)

\* A process started with --mode and --activation-identity; every mode that
\* has no barrier of its own begins at intent number 1.
Process(mode, identity, pc) ==
    [mode |-> mode, gen |-> 0, pc |-> pc, code |-> 0, act |-> identity, zseq |-> 1, hseq |-> 1,
     cursor |-> 0, next |-> 1, barrier |-> 0, left |-> TradeBatches, request |-> 0]

Head1 == Head(toHost)
InOrder(type) == Head1.type = type /\ Head1.gen = host.gen /\ Head1.seq = host.zseq
Consume == toHost' = Tail(toHost)
Write(type, body) ==
    toZig' = Append(toZig, [type |-> type, gen |-> host.gen, seq |-> host.hseq, body |-> body])
Dies == host' = [host EXCEPT !.pc = "dead", !.code = 1] /\ UNCHANGED <<toZig, outputs>>

\* main's except clause: a last frame and exit code 24.
RequireRecovery ==
    /\ Write("recovery_required", None)
    /\ host' = [host EXCEPT !.pc = "dead", !.code = 24]
    /\ UNCHANGED outputs

\* What each mode waits for once the host has said hello.
AfterHello(mode) ==
    CASE mode \in {"normal", "hostile-capability"} -> "closing"
      [] mode = "hang" -> "hung"
      [] mode = "trade" -> "direct"
      [] mode = "benchmark" -> "inputs"
      [] OTHER -> "begin"

Hello(plan) == [type |-> "hello", gen |-> plan.gen, seq |-> 1, body |-> None]
ReadPlan ==
    /\ host.pc = "plan" /\ toHost # <<>> /\ Consume
    /\ toZig' = Append(toZig, Hello(Head1))
    /\ host' = [host EXCEPT !.gen = Head1.gen,
                            !.pc = IF host.mode = "crash" THEN "dead" ELSE "greeted",
                            !.code = IF host.mode = "crash" THEN 23 ELSE 0]
    /\ UNCHANGED outputs

\* The only heartbeat the host ever sends.
SendHeartbeat ==
    /\ host.pc = "greeted"
    /\ toZig' = Append(toZig, [type |-> "heartbeat", gen |-> host.gen, seq |-> 2, body |-> None])
    /\ host' = [host EXCEPT !.pc = AfterHello(host.mode), !.hseq = 3, !.zseq = 2]
    /\ UNCHANGED <<toHost, outputs>>

\* The state digest tells states apart by cursor and next intent number.
Recovered(h) == [cursor |-> h.cursor, next |-> h.next]
ReportRecovered(h, pc) ==
    /\ Write("recovered", Recovered(h))
    /\ host' = [h EXCEPT !.pc = pc, !.hseq = @ + 1]
    /\ UNCHANGED outputs

\* recovery_once and portable_once: the checkpoint becomes the state.
Loaded(b) == [host EXCEPT !.zseq = @ + 1, !.barrier = b.barrier, !.cursor = b.cursor, !.next = b.next]
ReadBeginRecovery ==
    /\ host.pc = "begin" /\ host.mode # "portable" /\ toHost # <<>> /\ Consume
    /\ IF InOrder("begin_recovery")
       THEN host' = [Loaded(Head1.body) EXCEPT !.pc = "replay"] /\ UNCHANGED <<toZig, outputs>>
       ELSE Dies

\* The portable host has no replay: the checkpoint must be at the barrier.
ReadPortableRecovery ==
    /\ host.pc = "begin" /\ host.mode = "portable" /\ toHost # <<>> /\ Consume
    /\ IF InOrder("begin_recovery") /\ Head1.body.barrier = Head1.body.cursor
       THEN ReportRecovered(Loaded(Head1.body), "serving")
       ELSE Dies

\* apply_replay_batch: every fact moves the state and the intent number; the
\* numbers are handed out only when output is allowed.
ApplyReplayUncounted(h, b) ==
    [h EXCEPT !.zseq = @ + 1, !.cursor = b.last,
              !.next = @ + (IF h.pc = "live" THEN Cardinality(Emits(b.first, b.last)) ELSE 0)]
ApplyReplay(h, b) ==
    [h EXCEPT !.zseq = @ + 1, !.cursor = b.last, !.next = @ + Cardinality(Emits(b.first, b.last))]
\* read_input and validate_batch_schema return, or RecoveryNeeded is raised: the
\* registry, the event types and their versions, and the lengths, counts, order
\* and padding of every depth snapshot in the batch.
KnownSchema == Head1.body.holds # "garbage"
Readable == InOrder("input") /\ KnownSchema
\* apply_replay_batch raises ValueError for anything else, and the host dies.
Applies == Head1.body.first = host.cursor + 1 /\ Head1.body.holds = "events"

ReplayDone == host.pc = "replay" /\ host.cursor >= host.barrier
FinishReplayUnchecked ==
    ReplayDone /\ ReportRecovered(host, "activation") /\ UNCHANGED toHost
FinishReplay ==
    /\ ReplayDone /\ UNCHANGED toHost
    /\ IF host.cursor # host.barrier THEN Dies ELSE ReportRecovered(host, "activation")

\* The recovery loop and the catch-up loop: state without output.
ReplaySilently(barrier, done) ==
    LET moved == ApplyReplay(host, Head1.body) IN
    IF ~Readable THEN RequireRecovery
    ELSE IF ~Applies THEN Dies
    ELSE /\ host' = [moved EXCEPT !.pc = IF moved.cursor >= barrier THEN done ELSE @]
         /\ UNCHANGED <<toZig, outputs>>

Replay ==
    /\ host.pc = "replay" /\ ~ReplayDone /\ toHost # <<>> /\ Consume
    /\ ReplaySilently(host.barrier, "replay")

ReadActivationLive ==
    /\ host.pc = "activation" /\ toHost # <<>> /\ Consume
    /\ IF InOrder("activate") /\ Head1.body.id = host.act
       THEN /\ host' = [host EXCEPT !.zseq = @ + 1, !.barrier = Head1.body.barrier, !.pc = "live"]
            /\ UNCHANGED <<toZig, outputs>>
       ELSE Dies
ReadActivation ==
    /\ host.pc = "activation" /\ toHost # <<>> /\ Consume
    /\ LET a == Head1.body IN
       IF InOrder("activate") /\ a.id = host.act /\ a.barrier >= host.cursor /\ a.state = Recovered(host)
       THEN /\ host' = [host EXCEPT !.zseq = @ + 1, !.barrier = a.barrier,
                                    !.pc = IF host.cursor >= a.barrier THEN "live" ELSE "catchup"]
            /\ UNCHANGED <<toZig, outputs>>
       ELSE Dies

CatchUp ==
    /\ host.pc = "catchup" /\ toHost # <<>> /\ Consume
    /\ ReplaySilently(host.barrier, "live")

\* output_frame, publish_intent.
Intent(number, b) == [gen |-> host.gen, act |-> host.act, number |-> number,
                      batch |-> b.batch, cursor |-> b.last]
Published(o, event) == [gen |-> o.gen, number |-> o.number, event |-> event, barrier |-> host.barrier]

\* The live loop: the first intent of the first batch that has one, then
\* shutdown.  A host started to show a faulty strategy reports the fault, and
\* counts the frame, before it looks into the batch.
Faulted ==
    IF host.mode = "strategy-fault"
    THEN <<[type |-> "faulted", gen |-> host.gen, seq |-> host.hseq, body |-> None]>> ELSE <<>>
Frame(type, seq, body) == <<[type |-> type, gen |-> host.gen, seq |-> seq, body |-> body]>>
AnswerLive(seq) ==
    LET b == Head1.body  wanted == Emits(b.first, b.last)
        moved == ApplyReplay(host, b)
        o == Intent(host.next, b)
    IN  IF wanted = {}
        THEN /\ toZig' = toZig \o Faulted /\ host' = [moved EXCEPT !.hseq = seq] /\ UNCHANGED outputs
        ELSE /\ toZig' = toZig \o Faulted \o Frame("output", seq, o)
             /\ host' = [moved EXCEPT !.hseq = seq + 1, !.pc = "closing"]
             /\ outputs' = outputs \cup {Published(o, Earliest(wanted))}
RefuseLive(seq) ==
    /\ UNCHANGED outputs
    /\ IF KnownSchema
       THEN /\ toZig' = toZig \o Faulted /\ host' = [host EXCEPT !.pc = "dead", !.code = 1]
       ELSE /\ toZig' = toZig \o Faulted \o Frame("recovery_required", seq, None)
            /\ host' = [host EXCEPT !.pc = "dead", !.code = 24]
Counted == host.hseq + Len(Faulted)
LiveInputCountedLate ==
    IF KnownSchema /\ Applies THEN AnswerLive(Counted) ELSE RefuseLive(host.hseq)
LiveInput == IF KnownSchema /\ Applies THEN AnswerLive(Counted) ELSE RefuseLive(Counted)

Live ==
    /\ host.pc = "live" /\ toHost # <<>> /\ Consume
    /\ IF InOrder("input") THEN LiveInput ELSE RequireRecovery

\* await_direct_activation.
ReadDirectActivation ==
    /\ host.pc = "direct" /\ toHost # <<>> /\ Consume
    /\ IF InOrder("activate") /\ Head1.body.id = host.act
       THEN host' = [host EXCEPT !.zseq = @ + 1, !.pc = "inputs"] /\ UNCHANGED <<toZig, outputs>>
       ELSE Dies

\* trade_once and benchmark_once: one answer per batch, whatever it holds.
AnswerWith(type) ==
    /\ Write(type, Intent(host.next, Head1.body))
    /\ host' = [host EXCEPT !.zseq = @ + 1, !.hseq = @ + 1, !.next = @ + 1, !.left = @ - 1,
                            !.pc = IF host.left = 1 THEN "closing" ELSE @]
    /\ UNCHANGED outputs
AnswerTradeForever ==
    /\ host.pc = "inputs" /\ host.mode = "trade" /\ toHost # <<>> /\ Consume
    /\ IF ~Readable THEN RequireRecovery
       ELSE /\ Write("output", Intent(host.next, Head1.body))
            /\ host' = [host EXCEPT !.zseq = @ + 1, !.hseq = @ + 1, !.next = @ + 1, !.left = @ - 1,
                                    !.pc = IF host.left = 0 THEN "closing" ELSE @]
            /\ UNCHANGED outputs
AnswerTrade ==
    /\ host.pc = "inputs" /\ host.mode = "trade" /\ toHost # <<>> /\ Consume
    /\ IF Readable THEN AnswerWith("output") ELSE RequireRecovery
AnswerBenchmark ==
    /\ host.pc = "inputs" /\ host.mode = "benchmark" /\ toHost # <<>> /\ Consume
    /\ IF Readable THEN AnswerWith("benchmark") ELSE RequireRecovery

\* portable_once: checkpoints of exactly the cursor the owner names.
Checkpoint(request) == [id |-> request, state |-> Recovered(host)]
Serve ==
    /\ host.pc = "serving" /\ toHost # <<>> /\ Consume
    /\ IF InOrder("request_checkpoint") /\ Head1.body.id > host.request
             /\ Head1.body.cursor = host.cursor
       THEN /\ Write("checkpoint", Checkpoint(Head1.body.id))
            /\ host' = [host EXCEPT !.zseq = @ + 1, !.hseq = @ + 1, !.request = Head1.body.id]
            /\ UNCHANGED outputs
       ELSE IF InOrder("shutdown")
       THEN Write("shutdown_ack", None) /\ host' = [host EXCEPT !.pc = "dead"] /\ UNCHANGED outputs
       ELSE Dies

\* The end of main.
ReadShutdown ==
    /\ host.pc = "closing" /\ toHost # <<>> /\ Consume
    /\ IF InOrder("shutdown")
       THEN Write("shutdown_ack", None) /\ host' = [host EXCEPT !.pc = "dead"] /\ UNCHANGED outputs
       ELSE Dies

HostStep ==
    /\ \/ ReadPlan \/ SendHeartbeat \/ ReadBeginRecovery \/ ReadPortableRecovery
       \/ Replay \/ FinishReplay \/ ReadActivation \/ CatchUp \/ Live
       \/ ReadDirectActivation \/ AnswerTrade \/ AnswerBenchmark \/ Serve \/ ReadShutdown
    /\ UNCHANGED zigVars

-----------------------------------------------------------------------------
(* The supervisor.                                                         *)

Alive == host.pc \notin {"none", "dead"}
Serving == {"ready_for_recovery", "recovering", "recovered", "active"}
Send(type, body) ==
    toHost' = Append(toHost, [type |-> type, gen |-> sup.gen, seq |-> sup.next_zig, body |-> body])
Grow(wanted) == Len(facts) < MaxFacts /\ facts' = Append(facts, wanted)

\* Any other fact of the journal.
Commit == \E wanted \in BOOLEAN : Grow(wanted) /\ UNCHANGED
              <<host, toHost, toZig, sup, gateway, shard, proposed, faults, outputs, admitted>>

\* Gateway.beginRecovery: local output closes, the identity is not used again.
Closed(g) ==
    [g EXCEPT !.enabled = FALSE, !.fact = 0,
              !.floor = IF g.enabled /\ g.act > @ THEN g.act ELSE @]
Revoked(s) == [s EXCEPT !.act = 0, !.barrier = 0, !.fact = 0, !.gen = 0]
\* nextHostActivationIdentity, or the identity the strategy was activated under.
NextIdentity == IF shard.seen THEN shard.epoch + 1 ELSE shard.epoch

\* Gateway.beginSession, ManagedHost.start and sendPlan.  A live activation is
\* revoked by a fact of its own before the new session takes the configuration.
StartSession(mode, barrier) ==
    LET floor == IF shard.act # 0 THEN shard.act ELSE 0
        gen == sup.gen + 1
    IN
    /\ ~Alive /\ sup.state \in {"stopped", "failed"} /\ gen <= MaxSessions
    /\ IF shard.act # 0
       THEN Grow(FALSE) /\ shard' = Revoked(shard)
       ELSE UNCHANGED <<facts, shard>>
    /\ gateway' = [Closed(gateway) EXCEPT !.gen = gen, !.act = NextIdentity, !.barrier = barrier,
                                          !.floor = IF floor > @ THEN floor ELSE @,
                                          !.published = <<>>]
    /\ sup' = [state |-> "starting", gen |-> gen, next_host |-> 1, next_zig |-> 2,
               recovered |-> None, fault |-> FALSE, base |-> 0, barrier |-> 0,
               request |-> 0, last_request |-> 0, expected |-> None]
    /\ host' = Process(mode, NextIdentity, "plan")
    /\ toHost' = <<[type |-> "session_plan", gen |-> gen, seq |-> 1, body |-> None]>>
    /\ toZig' = <<>>
    /\ UNCHANGED <<proposed, faults, outputs, admitted>>

\* ManagedHost.beginRecovery with a checkpoint of the store: the state the
\* strategy had at some fact no later than the barrier.
BeginRecovery(cursor, barrier) ==
    /\ host.mode \in {"recovery", "strategy-fault", "portable"}
    /\ sup.state = "ready_for_recovery"
    /\ cursor <= barrier /\ barrier <= gateway.barrier
    /\ Send("begin_recovery", [barrier |-> barrier, cursor |-> cursor, next |-> NumberAfter(cursor)])
    /\ sup' = [sup EXCEPT !.state = "recovering", !.next_zig = @ + 1,
                          !.base = cursor, !.barrier = barrier]
    /\ UNCHANGED <<facts, host, toZig, gateway, shard, proposed, faults, outputs, admitted>>

\* Gateway.encodeBatch, ManagedHost.sendInput and recordPublished: batches are
\* contiguous.  A batch may hold what this host cannot read or apply.
NextFirst == IF gateway.published = <<>> THEN sup.base + 1 ELSE Last(gateway.published) + 1
MayFeed ==
    \/ sup.state = "recovering" /\ NextFirst <= sup.barrier
    \/ sup.state = "active"
    \/ sup.state = "ready_for_recovery" /\ host.mode = "benchmark"
SendInput(last, holds) ==
    LET batch == Len(gateway.published) + 1 IN
    /\ MayFeed /\ last \in NextFirst .. Len(facts) /\ last < NextFirst + MaxBatch
    /\ holds = "events" \/ faults < MaxFaults
    /\ faults' = IF holds = "events" THEN faults ELSE faults + 1
    /\ Send("input", [batch |-> batch, first |-> NextFirst, last |-> last, holds |-> holds])
    /\ sup' = [sup EXCEPT !.next_zig = @ + 1]
    /\ gateway' = [gateway EXCEPT !.published = Append(@, last)]
    /\ UNCHANGED <<facts, host, toZig, shard, proposed, outputs, admitted>>

\* The shard's host_activated: authority is a fact of the journal.
CommitActivation ==
    /\ shard.act = 0 /\ gateway.act = NextIdentity /\ gateway.act # 0
    /\ \/ sup.state = "recovered" /\ host.mode # "portable"
       \/ sup.state = "ready_for_recovery" /\ host.mode = "trade"
    /\ Grow(FALSE)
    /\ shard' = [shard EXCEPT !.seen = TRUE, !.epoch = gateway.act, !.act = gateway.act,
                              !.barrier = gateway.barrier, !.gen = gateway.gen,
                              !.fact = Len(facts) + 1]
    /\ UNCHANGED <<host, toHost, toZig, sup, gateway, proposed, faults, outputs, admitted>>

\* Gateway.activate: only what the host has been sent may be answered.
OpenGateway ==
    /\ ~gateway.enabled /\ shard.act # 0 /\ shard.act = gateway.act /\ shard.gen = gateway.gen
    /\ gateway.act > gateway.floor /\ gateway.published # <<>>
    /\ Last(gateway.published) >= shard.fact /\ Last(gateway.published) >= shard.barrier
    /\ gateway' = [gateway EXCEPT !.enabled = TRUE, !.fact = shard.fact]
    /\ UNCHANGED <<facts, host, toHost, toZig, sup, shard, proposed, faults, outputs, admitted>>

\* ManagedHost.activate.
SendActivation ==
    /\ sup.state = "recovered" \/ (sup.state = "ready_for_recovery" /\ host.mode = "trade")
    /\ shard.act # 0 /\ shard.act = gateway.act
    /\ Send("activate", [id |-> gateway.act, barrier |-> gateway.barrier,
                         state |-> IF sup.recovered = None THEN [cursor |-> 0, next |-> 1]
                                   ELSE sup.recovered])
    /\ sup' = [sup EXCEPT !.state = "active", !.next_zig = @ + 1,
                          !.base = IF host.mode = "trade" THEN gateway.barrier ELSE @]
    /\ UNCHANGED <<facts, host, toZig, gateway, shard, proposed, faults, outputs, admitted>>

\* ManagedHost.requestCheckpoint.
RequestCheckpoint ==
    /\ sup.state \in {"recovered", "active"} /\ sup.request = 0 /\ host.mode = "portable"
    /\ sup.last_request < MaxRequests
    /\ Send("request_checkpoint", [id |-> sup.last_request + 1, cursor |-> sup.recovered.cursor])
    /\ sup' = [sup EXCEPT !.next_zig = @ + 1, !.request = sup.last_request + 1,
                          !.last_request = @ + 1, !.expected = sup.recovered]
    /\ UNCHANGED <<facts, host, toZig, gateway, shard, proposed, faults, outputs, admitted>>

\* beginShutdown and encodeShutdownFrame.
Shutdown ==
    /\ sup.state \in {"ready_for_recovery", "recovered", "active"}
    /\ Send("shutdown", None)
    /\ sup' = [sup EXCEPT !.state = "stopping", !.next_zig = @ + 1]
    /\ UNCHANGED <<facts, host, toZig, gateway, shard, proposed, faults, outputs, admitted>>

\* acceptHostFrame: the states in which a frame is accepted, and what follows.
AcceptedIn(type) ==
    CASE type = "hello" -> {"starting"}
      [] type = "recovered" -> {"recovering"}
      [] type = "faulted" -> {"active"}
      [] type = "shutdown_ack" -> {"stopping"}
      [] OTHER -> Serving
Next2State(type) ==
    CASE type = "hello" -> "ready_for_recovery"
      [] type = "recovered" -> "recovered"
      [] type = "shutdown_ack" -> "stopped"
      [] type = "recovery_required" -> "failed"
      [] OTHER -> sup.state
Failed == [sup EXCEPT !.state = "failed"]

Control == {"hello", "heartbeat", "recovered", "faulted", "recovery_required", "shutdown_ack"}
Heard == toZig # <<>> /\ sup.state # "failed"
Head2 == Head(toZig)
Expected == Head2.gen = sup.gen /\ Head2.seq = sup.next_host

ReceiveControl ==
    /\ Heard /\ Head2.type \in Control /\ toZig' = Tail(toZig)
    /\ IF Expected /\ sup.state \in AcceptedIn(Head2.type)
       THEN \E mine \in (IF Head2.type = "faulted" THEN BOOLEAN ELSE {sup.fault}) :
              sup' = [sup EXCEPT !.state = Next2State(Head2.type), !.next_host = @ + 1,
                                 !.fault = mine,
                                 !.recovered = IF Head2.type = "recovered" THEN Head2.body ELSE @]
       ELSE sup' = Failed
    /\ UNCHANGED <<facts, host, toHost, gateway, shard, proposed, faults, outputs, admitted>>

\* Gateway.ingest: parse and the table of identities already seen.
AuthorityLost(g) == g.enabled /\ (shard.act # g.act \/ shard.fact # g.fact)
Parses(g, o) ==
    /\ g.enabled /\ o.gen = g.gen /\ o.act = g.act
    /\ o.batch \in DOMAIN g.published /\ o.cursor = g.published[o.batch]
    /\ o.cursor > g.barrier /\ o.cursor > g.fact

\* ManagedHost.receiveOutput and Gateway.ingest.  An output older than the
\* freshness limit is refused.
ReceiveOutput(fresh) ==
    LET o == Head2.body
        g == IF AuthorityLost(gateway) THEN Closed(gateway) ELSE gateway
        accepted == fresh /\ Parses(g, o) /\ o.number \notin g.seen
    IN
    /\ Heard /\ Head2.type \in {"output", "benchmark"} /\ toZig' = Tail(toZig)
    /\ IF Expected /\ o.batch <= Len(gateway.published)
       THEN /\ sup' = [sup EXCEPT !.next_host = @ + 1]
            /\ gateway' = [g EXCEPT !.seen = IF accepted THEN @ \cup {o.number} ELSE @]
            /\ proposed' = IF accepted THEN Append(proposed, o) ELSE proposed
       ELSE sup' = Failed /\ UNCHANGED <<gateway, proposed>>
    /\ fresh \/ faults < MaxFaults
    /\ faults' = IF fresh THEN faults ELSE faults + 1
    /\ UNCHANGED <<facts, host, toHost, shard, outputs, admitted>>

\* ManagedHost.receiveCheckpoint.
ReceiveCheckpoint ==
    /\ Heard /\ Head2.type = "checkpoint" /\ toZig' = Tail(toZig)
    /\ sup' = IF Expected /\ sup.request # 0 /\ Head2.body.id = sup.request
                    /\ Head2.body.state = sup.expected /\ sup.state \in Serving
              THEN [sup EXCEPT !.next_host = @ + 1, !.request = 0]
              ELSE Failed
    /\ UNCHANGED <<facts, host, toHost, gateway, shard, proposed, faults, outputs, admitted>>

\* submitOrderIntent: the shard checks the intent against its own authority.
AuthorityAssumed(o) == o.act = shard.epoch
AuthorityCovers(o) ==
    shard.act # 0 /\ o.cursor > shard.barrier /\ o.cursor > shard.fact /\ o.act = shard.act
Admit ==
    LET o == Head(proposed) IN
    /\ proposed # <<>> /\ proposed' = Tail(proposed)
    /\ IF o.number \in shard.known
       THEN UNCHANGED <<facts, shard, admitted>>
       ELSE /\ Grow(FALSE)
            /\ shard' = [shard EXCEPT !.known = @ \cup {o.number}]
            /\ admitted' = IF AuthorityCovers(o)
                           THEN Append(admitted, [epoch |-> o.act, cursor |-> o.cursor,
                                                  fact |-> Len(facts) + 1])
                           ELSE admitted
    /\ UNCHANGED <<host, toHost, toZig, sup, gateway, faults, outputs>>

\* revokeHostAuthority after a failure of the host or a fault of this strategy.
Revoke ==
    /\ shard.act # 0 /\ (sup.state = "failed" \/ sup.fault)
    /\ Grow(FALSE)
    /\ gateway' = Closed(gateway) /\ shard' = Revoked(shard)
    /\ UNCHANGED <<host, toHost, toZig, sup, proposed, faults, outputs, admitted>>

\* HostSupervisor.poll: the startup, heartbeat or shutdown deadline has passed.
MissDeadlineRunning ==
    /\ sup.state \in Serving \cup {"starting"} /\ sup' = Failed
    /\ UNCHANGED <<facts, host, toHost, toZig, gateway, shard, proposed, faults, outputs, admitted>>
MissDeadline ==
    /\ sup.state \in Serving \cup {"starting", "stopping"} /\ sup' = Failed
    /\ UNCHANGED <<facts, host, toHost, toZig, gateway, shard, proposed, faults, outputs, admitted>>

\* processExited, once the pipe is read to its end.
NoticeExit ==
    /\ host.pc = "dead" /\ toZig = <<>> /\ sup.state \notin {"failed", "stopped"}
    /\ sup' = Failed
    /\ UNCHANGED <<facts, host, toHost, toZig, gateway, shard, proposed, faults, outputs, admitted>>

\* ManagedHost.deinit.
Kill ==
    /\ sup.state = "failed" /\ Alive
    /\ host' = [host EXCEPT !.pc = "dead", !.code = 137] /\ toHost' = <<>> /\ toZig' = <<>>
    /\ UNCHANGED <<facts, sup, gateway, shard, proposed, faults, outputs, admitted>>

Receive == ReceiveControl \/ (\E fresh \in BOOLEAN : ReceiveOutput(fresh)) \/ ReceiveCheckpoint
ZigStep ==
    \/ Commit
    \/ \E mode \in Modes, barrier \in 0 .. Len(facts) + 1 : StartSession(mode, barrier)
    \/ \E cursor, barrier \in 0 .. Len(facts) : BeginRecovery(cursor, barrier)
    \/ \E last \in 1 .. Len(facts), holds \in Content : SendInput(last, holds)
    \/ CommitActivation \/ OpenGateway \/ SendActivation \/ RequestCheckpoint \/ Shutdown
    \/ Receive \/ Admit \/ Revoke \/ MissDeadline \/ NoticeExit \/ Kill

Init ==
    /\ facts = <<>> /\ toHost = <<>> /\ toZig = <<>> /\ proposed = <<>> /\ faults = 0
    /\ outputs = {} /\ admitted = <<>>
    /\ host = Process("normal", 0, "none")
    /\ sup = [state |-> "stopped", gen |-> 0, next_host |-> 1, next_zig |-> 1, recovered |-> None,
              fault |-> FALSE, base |-> 0, barrier |-> 0, request |-> 0, last_request |-> 0,
              expected |-> None]
    /\ gateway = [enabled |-> FALSE, gen |-> 0, act |-> 0, barrier |-> 0, floor |-> 0, fact |-> 0,
                  published |-> <<>>, seen |-> {}]
    /\ shard = [seen |-> FALSE, epoch |-> 1, act |-> 0, barrier |-> 0, gen |-> 0, fact |-> 0,
                known |-> {}]

Next == HostStep \/ ZigStep
Spec == Init /\ [][Next]_vars

\* The host runs, the owner polls, reads and reaps; what it sends is its choice.
Fairness == WF_vars(HostStep) /\ WF_vars(Receive) /\ WF_vars(MissDeadline)
            /\ WF_vars(NoticeExit) /\ WF_vars(Kill)
FairSpec == Spec /\ Fairness

-----------------------------------------------------------------------------
(* Properties.                                                             *)

HostRecord ==
    [mode : Mode, gen : Nat, pc : Place, code : Nat, act : Nat, zseq : Nat, hseq : Nat,
     cursor : Nat, next : Nat \ {0}, barrier : Nat, left : Nat, request : Nat]
SupRecord ==
    [state : State, gen : Nat, next_host : Nat, next_zig : Nat,
     recovered : StateReport \cup {None}, fault : BOOLEAN, base : Nat, barrier : Nat,
     request : Nat, last_request : Nat, expected : StateReport \cup {None}]
GatewayRecord ==
    [enabled : BOOLEAN, gen : Nat, act : Nat, barrier : Nat, floor : Nat, fact : Nat,
     published : Seq(Nat), seen : SUBSET Nat]
ShardRecord ==
    [seen : BOOLEAN, epoch : Nat \ {0}, act : Nat, barrier : Nat, gen : Nat, fact : Nat,
     known : SUBSET Nat]
Outputs == [gen : Nat, number : Nat, event : Nat, barrier : Nat]

TypeOK ==
    /\ facts \in Seq(BOOLEAN) /\ toHost \in Seq(ZigFrame) /\ toZig \in Seq(HostFrame)
    /\ host \in HostRecord /\ sup \in SupRecord /\ gateway \in GatewayRecord /\ shard \in ShardRecord
    /\ proposed \in Seq(IntentBody) /\ faults \in Nat
    /\ outputs \subseteq Outputs
    /\ admitted \in Seq([epoch : Nat, cursor : Nat, fact : Nat])

\* A host numbers its intents as one that never crashed would: whatever the
\* checkpoint, the barriers and the batches, an intent for a fact carries the
\* number of that fact among all that want one (apply_replay_batch counts what
\* it suppresses), so two generations never give one number to two facts.
ContinuousNumbering == \A o \in outputs : o.number = NumberAfter(o.event - 1)

\* No recovery output answers a fact at or before the activation barrier.
QuietUntilActivated == \A o \in outputs : o.event > o.barrier

\* What the owner is told before it grants authority is the state at exactly
\* the barrier it asked for, even when the batches it sent cross the barrier.
RecoveredAtBarrier ==
    sup.recovered # None =>
        sup.recovered.cursor = sup.barrier /\ sup.recovered.next = NumberAfter(sup.barrier)

\* The two ends agree on every control sequence and no frame is lost between
\* them as long as the supervisor has not given up: it takes every frame a host
\* wrote, up to the last one of a host that died with a word or without.
InStep ==
    sup.state # "failed" =>
        /\ \A i \in DOMAIN toZig : toZig[i].seq = sup.next_host + i - 1
        /\ host.pc \notin {"none", "plan", "greeted", "dead"} =>
              /\ host.hseq = sup.next_host + Len(toZig)
              /\ sup.next_zig = host.zseq + Len(toHost)

\* A host that hangs is reaped, also when it was asked to stop.
HungIsReaped == host.pc = "hung" ~> host.pc = "dead"

\* The first intent of a host is the one a host that never crashed would make
\* first after the activation barrier.
FirstIntentContinues == \A o \in outputs : o.number = NumberAfter(o.barrier)

\* Authority as the shard promises it.
Authority == INSTANCE HostAuthority WITH
    log <- Len(facts), opened <- shard.fact, epoch <- IF shard.seen THEN shard.epoch ELSE 0
ImplementsAuthority == Authority!Spec
=============================================================================

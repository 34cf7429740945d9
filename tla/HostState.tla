----------------------------- MODULE HostState -----------------------------
(***************************************************************************)
(* The values the two ends of the strategy host exchange: the modes of the *)
(* process, the control frames and the states of the supervisor.           *)
(***************************************************************************)
EXTENDS Integers, Sequences

Mode == {"normal", "crash", "hang", "hostile-capability", "trade", "recovery", "strategy-fault",
         "benchmark", "portable"}

\* Where the Python process is: the frame it reads next, or its end.
Place == {"none", "plan", "greeted", "begin", "replay", "activation", "catchup", "live",
          "direct", "inputs", "serving", "closing", "hung", "dead"}

State == {"stopped", "starting", "ready_for_recovery", "recovering", "recovered", "active",
          "stopping", "failed"}

None == [none |-> TRUE]
StateReport == [cursor : Nat, next : Nat \ {0}]
IntentBody == [gen : Nat, act : Nat, number : Nat, batch : Nat, cursor : Nat]

\* What the frames of the owner carry.
RecoveryBody == [barrier : Nat, cursor : Nat, next : Nat \ {0}]
ActivationBody == [id : Nat, barrier : Nat, state : StateReport]
\* A batch of input holds events every loop takes, a depth snapshot, which
\* validate_batch_schema reads and apply_replay_batch refuses (as it refuses
\* events of another type, length or order), or what no host can read.
Content == {"events", "depth", "garbage"}
InputBody == [batch : Nat, first : Nat, last : Nat, holds : Content]
RequestBody == [id : Nat, cursor : Nat]
CheckpointBody == [id : Nat, state : StateReport]

FrameOf(types, body) == [type : types, gen : Nat, seq : Nat, body : body]
ZigFrame ==
    FrameOf({"session_plan", "shutdown"}, {None})
    \cup FrameOf({"begin_recovery"}, RecoveryBody)
    \cup FrameOf({"activate"}, ActivationBody)
    \cup FrameOf({"input"}, InputBody)
    \cup FrameOf({"request_checkpoint"}, RequestBody)
HostFrame ==
    FrameOf({"hello", "heartbeat", "faulted", "recovery_required", "shutdown_ack"}, {None})
    \cup FrameOf({"recovered"}, StateReport)
    \cup FrameOf({"output", "benchmark"}, IntentBody)
    \cup FrameOf({"checkpoint"}, CheckpointBody)
=============================================================================

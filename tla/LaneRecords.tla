----------------------------- MODULE LaneRecords -----------------------------
(* What RunLane's states look like in the Session, and that a process that  *)
(* opens it finds the lane, its inbox and its run again: RunLane composed   *)
(* with the records of DurableRecords.  Entry ids are depths on the branch, *)
(* input ids negative numbers, texts and settings are Text.                 *)
EXTENDS RunLane, DurableRecords

CONSTANTS
    Text   \* any text, number or id that RunLane leaves out

ASSUME LaneRecordsAssumption == Text \in Scalars

EntryId(e) == IF e = 0 THEN Null ELSE e

StoredConfiguration ==
    [model |-> [provider |-> Text, model_id |-> Text],
     thinking_level |-> "high", active_tool_names |-> <<Text>>]

SettingsOf ==
    [compaction |-> [enabled |-> op.compacts, reserve_tokens |-> Text,
                     keep_recent_tokens |-> Text],
     steering_mode |-> SteeringMode, follow_up_mode |-> FollowUpMode,
     tool_execution |-> "parallel"]

(* The inbox as the tuple it is, oldest first.                             *)
Nth(inputs, k) ==
    CHOOSE i \in inputs : Cardinality({j \in inputs : j <= i}) = k

InOrder(inputs) ==
    [k \in 1..Cardinality(inputs) |->
        [entry_id |-> -Nth(inputs, k), kind |-> kind[Nth(inputs, k)]]]

(* last is the operation that ended before, Null before the first.          *)
LaneStateOf(last) ==
    [current_operation_id |-> IF current = None THEN Null ELSE current,
     last_operation_id |-> last, inbox |-> InOrder(inbox)]

Ended == {o \in Ops : result[o] # "none"}
LastOnes == IF Ended = {} THEN {Null} ELSE Ended

ResultOf(o) ==
    [operation_id |-> o, kind |-> "run", status |-> result[o],
     from_tip_id |-> Null, tip_id |-> EntryId(tip), started_at |-> Text,
     ended_at |-> Text,
     error |-> IF result[o] = "failed" THEN [code |-> Text, message |-> Text]
               ELSE Null]

(* The intent of a run names its prompts, at most tip of them.             *)
MetaOf ==
    [operation_id |-> current, lane |-> Text, source_tip_id |-> Null,
     started_at |-> Text,
     intent |-> [is |-> "RunIntent", prompt_entry_ids |-> <<Text>>]]

ContinuationOf ==
    IF op.next = "needAssistant"
    THEN [is |-> "NeedAssistant", overflow_recovery_used |-> op.used]
    ELSE [is |-> "MayFinish", include_final_assistant |-> TRUE]

GenerationContextOf ==
    [step_id |-> Text, trigger_entry_id |-> op.trigger,
     configuration |-> StoredConfiguration,
     retry_policy |-> [max_attempts |-> MaxAttempts, base_delay_ms |-> Text,
                       max_agent_delay_ms |-> Text],
     overflow_recovery_used |-> op.used]

(* The calls of a batch: those without a result are planned, or were        *)
(* started, or wait for their placement.                                   *)
CallStateOf(c, waiting) ==
    IF waiting = "planned"
    THEN [is |-> "PlannedToolCall", source_index |-> c - 1,
          result_entry_id |-> Text]
    ELSE IF waiting = "pending"
    THEN [is |-> "EffectPendingToolCall", source_index |-> c - 1,
          result_entry_id |-> Text, replay |-> "never"]
    ELSE [is |-> "OutcomeReadyToolCall", source_index |-> c - 1,
          result_entry_id |-> Text, terminate |-> c = 1]

BatchOf(waiting) ==
    [assistant_entry_id |-> EntryId(tip), configuration |-> StoredConfiguration,
     turn_id |-> Text, calls |-> [c \in 1..op.calls |-> CallStateOf(c, waiting)]]

(* The task of a compaction inside a run resumes the run.                   *)
TaskOf ==
    [task_id |-> Text, reason |-> op.reason, custom_instructions |-> Null,
     resume_continuation |-> ContinuationOf,
     resume_trigger_entry_id |-> op.trigger,
     navigation_target_id |-> Null, navigation_label |-> Null]

DetailsOf(waiting) ==
    IF op.at = "starting" THEN [at |-> "starting"]
    ELSE IF op.at = "checkpoint"
    THEN [at |-> "checkpoint", continuation |-> ContinuationOf,
          trigger_entry_id |-> op.trigger]
    ELSE IF op.at = "tools"
    THEN [at |-> "tools", batch |-> BatchOf(waiting)]
    ELSE IF op.at = "summary"
    THEN [at |-> "summary.deciding", task |-> TaskOf]
    ELSE IF op.at = "ready"
    THEN [at |-> "assistant.ready", next_attempt |-> op.attempt,
          generation_context |-> GenerationContextOf]
    ELSE IF op.at = "effectPending"
    THEN [at |-> "assistant.effect_pending", attempt |-> op.attempt,
          generation_context |-> GenerationContextOf,
          response_entry_id |-> Text, usage_id |-> Text,
          intended_output_limit |-> Text, context_window |-> Text]
    ELSE [at |-> "assistant.retry_wait", next_attempt |-> op.attempt,
          generation_context |-> GenerationContextOf, not_before |-> Text,
          error_message |-> Text]

StateOf(waiting) ==
    [control |-> IF op.control = "running" THEN [is |-> "RunningControl"]
                 ELSE [is |-> "CancelRequestedControl", requested_at |-> Text],
     settings |-> SettingsOf, latest_assistant_entry_id |-> EntryId(tip),
     details |-> DetailsOf(waiting)]

-----------------------------------------------------------------------------
(* What is stored next to these states: the payloads of the inbox, the      *)
(* frames of a response under way, and what ToolBatch keeps of a call       *)
(* (ToolBatch.TemporaryDataOwned) before its result is placed.             *)

InputMessage == [is |-> "UserMessage", content |-> <<>>, timestamp |-> Text]

Payloads ==
    [e \in {-i : i \in Inputs} |->
        IF -e \in pending THEN EncodeMessage(InputMessage) ELSE Null]

FrameOf == [is |-> "DeltaFrame", of |-> "text", content_index |-> 0, delta |-> Text]
FramesOf == IF frames THEN <<FrameOf>> ELSE <<>>

CallOf(c) ==
    [is |-> "ToolCall", id |-> Text, name |-> Text, arguments |-> Text,
     thought_signature |-> Null, namespace |-> Null]

StagedOf ==
    [is |-> "ToolResultMessage", tool_call_id |-> Text, tool_name |-> Text,
     content |-> <<>>, is_error |-> FALSE, timestamp |-> Text,
     details |-> Null, usage |-> Null]

StoredOf(waiting) ==
    [c \in 1..op.calls |->
        [source |-> CallOf(c), output |-> Null,
         args |-> IF waiting = "pending" THEN Text ELSE Null,
         staged |-> IF waiting = "ready" THEN EncodeMessage(StagedOf) ELSE Null]]

Waitings == IF op.at = "tools" THEN {"planned", "pending", "ready"} ELSE {"planned"}

(* The records of the lane, as a process that opens the Session finds them, *)
(* and as inspect_execution and a watcher read them.                       *)
Reopened(last, meta, state) ==
    Restore(Text, [value |-> EntryId(tip)],
            EncodeConfiguration(StoredConfiguration),
            EncodeLaneState(LaneStateOf(last)),
            [o \in Ops |-> meta], [o \in Ops |-> state])

Inspected(last, meta, state) ==
    ReadExecution([value |-> EntryId(tip)], EncodeLaneState(LaneStateOf(last)),
                  [o \in Ops |-> meta], [o \in Ops |-> state])

Watched(last, meta, state, waiting) ==
    CaptureSnapshot([value |-> EntryId(tip)],
            EncodeConfiguration(StoredConfiguration),
            EncodeLaneState(LaneStateOf(last)),
            [o \in Ops |-> meta], [o \in Ops |-> state],
            [o \in Ops |-> IF o \in Ended THEN EncodeOperationResult(ResultOf(o))
                           ELSE Null],
            Payloads, Each(EncodeFrame, FramesOf), StoredOf(waiting))

(* What a watcher is to see of the run.                                     *)
WatchedRun(waiting) ==
    [id |-> current, kind |-> "run", started_at |-> Text, from_tip_id |-> Null,
     status |-> IF op.control = "running" THEN "open" ELSE "aborting",
     running_tools |->
        [c \in IF op.at = "tools" /\ waiting # "planned" THEN 1..op.calls ELSE {} |->
            IF waiting = "pending"
            THEN [tool_call_id |-> Text, args |-> Text, result |-> Null]
            ELSE [tool_call_id |-> Text, args |-> Text, is_error |-> FALSE,
                  result |-> [content |-> <<>>, details |-> Null, usage |-> Null,
                              terminate |-> c = 1]]],
     retry |-> IF op.at = "retryWait"
               THEN [attempt |-> op.attempt, max_attempts |-> MaxAttempts,
                     next_attempt_at |-> Text]
               ELSE Null,
     streaming |-> IF op.at = "effectPending" THEN FramesOf ELSE Null]

WatchedLane(last, run) ==
    [tip_id |-> EntryId(tip),
     last_result |-> IF last = Null THEN Null ELSE ResultOf(last),
     configuration |-> StoredConfiguration, operation |-> run,
     queues |-> [k \in 1..Cardinality(inbox) |->
                    [entry_id |-> InOrder(inbox)[k].entry_id,
                     kind |-> InOrder(inbox)[k].kind, message |-> InputMessage]]]

(* Whatever step a process is lost at, the next one reads back the inbox    *)
(* and the state that were stored, finds that the state fits a run, and     *)
(* goes on with it where it was; a lane without a run is found idle.  A     *)
(* compaction keeps what the run had to do next in its task only.  And     *)
(* whoever looks at the lane meanwhile sees that run: the queue with every  *)
(* payload, the tools under way, the wait for a retry, the abort that was  *)
(* asked for and the last result, never the half of a transaction.         *)
RestoreResumes ==
    \A last \in LastOnes :
        LET lane == LaneStateOf(last)
            Execution(info) == [current |-> info, last_operation_id |-> last,
                                tip_id |-> EntryId(tip)]
        IN  /\ DecodeLaneState(EncodeLaneState(lane)) = lane
            /\ IF current = None
               THEN /\ Reopened(last, Null, Null) = Null
                    /\ Inspected(last, Null, Null) = Execution(Null)
                    /\ Watched(last, Null, Null, "planned") = WatchedLane(last, Null)
               ELSE \A waiting \in Waitings :
                    LET meta == EncodeMeta(MetaOf)
                        state == EncodeOperationState(StateOf(waiting))
                        run == [operation_id |-> current, kind |-> "run",
                                started_at |-> Text,
                                at |-> DetailsOf(waiting).at]
                    IN  /\ DecodeOperationState(state) = StateOf(waiting)
                        /\ Reopened(last, meta, state) = run
                        /\ Inspected(last, meta, state) = Execution(run)
                        /\ Watched(last, meta, state, waiting)
                            = WatchedLane(last, WatchedRun(waiting))

=============================================================================

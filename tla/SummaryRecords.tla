--------------------------- MODULE SummaryRecords ---------------------------
(* What SummaryTask's states look like in the Session, and that a process   *)
(* that opens it finds the operation again: SummaryTask composed with the   *)
(* records of DurableRecords.  Ids are the numbers and operation ids of     *)
(* SummaryTask, texts and settings are Text.                               *)
EXTENDS SummaryTask, DurableRecords

CONSTANTS
    Text   \* any text, number or id that SummaryTask leaves out

ASSUME SummaryRecordsAssumption == Text \in Scalars

EntryId(e) == IF e = 0 THEN Null ELSE e

StoredConfiguration ==
    [model |-> [provider |-> Text, model_id |-> Text],
     thinking_level |-> "off", active_tool_names |-> <<>>]

StoredSettings ==
    [compaction |-> [enabled |-> TRUE, reserve_tokens |-> Text,
                     keep_recent_tokens |-> Text],
     steering_mode |-> "all", follow_up_mode |-> "one-at-a-time",
     tool_execution |-> "parallel"]

(* The intent of the open operation, accepted with or without a label and   *)
(* instructions.                                                           *)
IntentOf(label, instructions) ==
    IF meta[current].kind = "compaction"
    THEN [is |-> "CompactionIntent", custom_instructions |-> instructions]
    ELSE [is |-> "NavigationIntent", target_id |-> EntryId(meta[current].target),
          summarize |-> preparation, label |-> label,
          custom_instructions |-> instructions]

MetaOf(label, instructions) ==
    [operation_id |-> current, lane |-> Text,
     source_tip_id |-> EntryId(meta[current].source), started_at |-> Text,
     intent |-> IntentOf(label, instructions)]

TaskOf(label, instructions) ==
    LET navigates == meta[current].kind = "navigation"
    IN  [task_id |-> Text, reason |-> IF navigates THEN Null ELSE "manual",
         custom_instructions |-> instructions,
         resume_continuation |-> Null, resume_trigger_entry_id |-> Null,
         navigation_target_id |->
             IF navigates THEN EntryId(meta[current].target) ELSE Null,
         navigation_label |-> IF navigates THEN label ELSE Null]

SummaryContextOf ==
    [result_entry_id |-> Text, configuration |-> StoredConfiguration,
     retry_policy |-> [max_attempts |-> MaxAttempts, base_delay_ms |-> Text,
                       max_agent_delay_ms |-> Text]]

DetailsOf(label, instructions) ==
    LET task == TaskOf(label, instructions)
    IN  IF op.at = "navigate"
        THEN [at |-> "navigation.ready_to_commit",
              target_id |-> EntryId(meta[current].target), label |-> label]
        ELSE IF op.at = "deciding"
        THEN [at |-> "summary.deciding", task |-> task]
        ELSE IF op.at = "ready"
        THEN [at |-> "summary.ready", task |-> task,
              summary_context |-> SummaryContextOf,
              next_attempt |-> op.attempt]
        ELSE IF op.at = "effectPending"
        THEN [at |-> "summary.effect_pending", task |-> task,
              summary_context |-> SummaryContextOf, attempt |-> op.attempt,
              usage_ids |-> [a \in 1..op.answers |-> a],
              request |-> IF op.request = 0 THEN Null
                          ELSE [index |-> op.request, usage_id |-> Text]]
        ELSE [at |-> "summary.retry_wait", task |-> task,
              summary_context |-> SummaryContextOf,
              next_attempt |-> op.attempt, not_before |-> Text,
              error_message |-> Text]

StateOf(label, instructions) ==
    [control |-> IF op.control = "running" THEN [is |-> "RunningControl"]
                 ELSE [is |-> "CancelRequestedControl", requested_at |-> Text],
     settings |-> StoredSettings, latest_assistant_entry_id |-> Null,
     details |-> DetailsOf(label, instructions)]

LaneStateOf ==
    [current_operation_id |-> IF current = None THEN Null ELSE current,
     last_operation_id |-> Null, inbox |-> <<>>]

-----------------------------------------------------------------------------
(* The stored lane as a process that opens the Session finds it.            *)
Reopened(meta1, state1) ==
    Restore(Text, [value |-> EntryId(tip)],
            EncodeConfiguration(StoredConfiguration),
            EncodeLaneState(LaneStateOf), [o \in Ops |-> meta1],
            [o \in Ops |-> state1])

(* The operation as the process restores it, and what a watcher is to see.  *)
Execution(label, instructions) ==
    [operation_id |-> current, kind |-> meta[current].kind,
     started_at |-> Text, at |-> DetailsOf(label, instructions).at]

WatchedOperation ==
    [id |-> current, kind |-> meta[current].kind, started_at |-> Text,
     from_tip_id |-> EntryId(meta[current].source),
     status |-> IF op.control = "running" THEN "open" ELSE "aborting",
     running_tools |-> [c \in {} |-> Null],
     retry |-> IF op.at = "retryWait"
               THEN [attempt |-> op.attempt, max_attempts |-> MaxAttempts,
                     next_attempt_at |-> Text]
               ELSE Null,
     streaming |-> Null]

(* Whatever step a process is lost at, the next one reads back the state    *)
(* that was stored, finds that it fits the stored intent, and goes on with  *)
(* the operation it names at the state it names; a lane without operation   *)
(* is found idle.  The intent and the state are written by different        *)
(* transactions, and _state_matches_intent refuses the whole session where  *)
(* one has lost what the other kept.  A watcher, for whom nobody asks       *)
(* whether they fit, sees the same operation, its wait for a retry and the  *)
(* abort that was asked for.                                               *)
RestoreResumes ==
    IF current = None THEN Reopened(Null, Null) = Null
    ELSE \A label, instructions \in {Null, Text} :
            (label = Null \/ meta[current].target # 0) =>
            LET meta1 == EncodeMeta(MetaOf(label, instructions))
                state1 == EncodeOperationState(StateOf(label, instructions))
                read == DecodeOperationState(state1)
            IN  /\ read = StateOf(label, instructions)
                /\ Reopened(meta1, state1) = Execution(label, instructions)
                /\ OperationSnapshot(current, DecodeMeta(meta1), read, <<>>, <<>>)
                    = WatchedOperation

=============================================================================

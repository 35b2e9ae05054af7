--------------------------- MODULE DurableRecords ---------------------------
(***************************************************************************)
(* The records a Session keeps of a lane and its operation, and the way     *)
(* back from them: what encode writes, what decode reads, and what          *)
(* restore_session makes of it when a process opens the session again.      *)
(*                                                                         *)
(* A typed value is a record whose `is' names its class; its encoded form   *)
(* is a record with the keys of the JSON object.  An absent key and a null  *)
(* read alike (record.get), so both are Null.  Ids, texts, numbers and      *)
(* opaque JSON are Scalars, and a decoder's type checks on them are left    *)
(* out: what is read was written here.  A decoder that raises ValueError    *)
(* gives Invalid.                                                          *)
(***************************************************************************)
EXTENDS Integers, Sequences

CONSTANTS
    Scalars,   \* ids, texts, numbers, opaque JSON
    Null,      \* None, an absent key, a JSON null
    Invalid    \* ValueError, or SessionInvariantError where restoring raises it

(* None is no value, and no object either.                                 *)
ASSUME DurableRecordsAssumption ==
    /\ Null \notin Scalars
    /\ Invalid \notin Scalars
    /\ Invalid \notin {Null, "absent", "branch", "lane"}
    /\ \A s, t \in Scalars : [index |-> s, usageId |-> t] # Null

Optional(S) == S \union {Null}
Texts == Seq(Scalars)

(* What a list comprehension does to a list.                               *)
Each(F(_), list) == [i \in DOMAIN list |-> F(list[i])]

-----------------------------------------------------------------------------
(* Messages                                                                *)

TextBlocks ==
    [is : {"TextContent"}, text : Scalars, text_signature : Optional(Scalars)]
ThinkingBlocks ==
    [is : {"ThinkingContent"}, thinking : Scalars,
     thinking_signature : Optional(Scalars), redacted : Optional(BOOLEAN)]
ImageBlocks ==
    [is : {"ImageContent"}, data : Scalars, mime_type : Scalars]
ToolCalls ==
    [is : {"ToolCall"}, id : Scalars, name : Scalars, arguments : Scalars,
     thought_signature : Optional(Scalars), namespace : Optional(Scalars)]

AssistantBlocks == TextBlocks \union ThinkingBlocks \union ToolCalls
UserBlocks == TextBlocks \union ImageBlocks

EncodeBlock(b) ==
    IF b.is = "TextContent"
    THEN [type |-> "text", text |-> b.text, textSignature |-> b.text_signature]
    ELSE IF b.is = "ThinkingContent"
    THEN [type |-> "thinking", thinking |-> b.thinking,
          thinkingSignature |-> b.thinking_signature, redacted |-> b.redacted]
    ELSE IF b.is = "ImageContent"
    THEN [type |-> "image", data |-> b.data, mimeType |-> b.mime_type]
    ELSE [type |-> "toolCall", id |-> b.id, name |-> b.name,
          arguments |-> b.arguments, thoughtSignature |-> b.thought_signature,
          namespace |-> b.namespace]

DecodeBlock(v) ==
    IF v.type = "text"
    THEN [is |-> "TextContent", text |-> v.text,
          text_signature |-> v.textSignature]
    ELSE IF v.type = "thinking"
    THEN [is |-> "ThinkingContent", thinking |-> v.thinking,
          thinking_signature |-> v.thinkingSignature, redacted |-> v.redacted]
    ELSE IF v.type = "image"
    THEN [is |-> "ImageContent", data |-> v.data, mime_type |-> v.mimeType]
    ELSE IF v.type = "toolCall"
    THEN [is |-> "ToolCall", id |-> v.id, name |-> v.name,
          arguments |-> v.arguments, thought_signature |-> v.thoughtSignature,
          namespace |-> v.namespace]
    ELSE Invalid

(* The blocks of a message of some role: a block of another class is refused. *)
DecodeContent(list, allowed) ==
    LET blocks == Each(DecodeBlock, list)
    IN  IF \A i \in DOMAIN blocks : blocks[i] \in allowed
        THEN blocks
        ELSE Invalid

UserMessages ==
    [is : {"UserMessage"}, content : Seq(UserBlocks), timestamp : Scalars]
(* thinking_level is the level the request asked for.                      *)
AssistantMessages ==
    [is : {"AssistantMessage"}, content : Seq(AssistantBlocks), api : Scalars,
     model : Scalars, usage : Scalars, stop_reason : Scalars,
     timestamp : Scalars, response_id : Optional(Scalars),
     error_message : Optional(Scalars), thinking_level : Optional(Scalars)]
ToolResultMessages ==
    [is : {"ToolResultMessage"}, tool_call_id : Scalars, tool_name : Scalars,
     content : Seq(UserBlocks), is_error : BOOLEAN, timestamp : Scalars,
     details : Optional(Scalars), usage : Optional(Scalars)]
CompactionSummaryMessages ==
    [is : {"CompactionSummaryMessage"}, summary : Scalars,
     tokens_before : Scalars, timestamp : Scalars]
BranchSummaryMessages ==
    [is : {"BranchSummaryMessage"}, summary : Scalars,
     from_id : Optional(Scalars), timestamp : Scalars]

(* The messages of a durable session.  encode_message refuses a            *)
(* SystemMessage: durable transcripts hold none.                           *)
Messages ==
    UserMessages \union AssistantMessages \union ToolResultMessages
        \union CompactionSummaryMessages \union BranchSummaryMessages

EncodeMessage(m) ==
    IF m.is = "BranchSummaryMessage"
    THEN [role |-> "branchSummary", summary |-> m.summary,
          fromId |-> m.from_id, timestamp |-> m.timestamp]
    ELSE IF m.is = "CompactionSummaryMessage"
    THEN [role |-> "compactionSummary", summary |-> m.summary,
          tokensBefore |-> m.tokens_before, timestamp |-> m.timestamp]
    ELSE IF m.is = "UserMessage"
    THEN [role |-> "user", content |-> Each(EncodeBlock, m.content),
          timestamp |-> m.timestamp]
    ELSE IF m.is = "AssistantMessage"
    THEN [role |-> "assistant", content |-> Each(EncodeBlock, m.content),
          api |-> m.api, model |-> m.model, usage |-> m.usage,
          stopReason |-> m.stop_reason, timestamp |-> m.timestamp,
          responseId |-> m.response_id, errorMessage |-> m.error_message]
    ELSE [role |-> "toolResult", toolCallId |-> m.tool_call_id,
          toolName |-> m.tool_name, content |-> Each(EncodeBlock, m.content),
          isError |-> m.is_error, timestamp |-> m.timestamp,
          details |-> m.details, usage |-> m.usage]

DecodeMessage(v) ==
    IF v.role = "branchSummary"
    THEN [is |-> "BranchSummaryMessage", summary |-> v.summary,
          from_id |-> v.fromId, timestamp |-> v.timestamp]
    ELSE IF v.role = "compactionSummary"
    THEN [is |-> "CompactionSummaryMessage", summary |-> v.summary,
          tokens_before |-> v.tokensBefore, timestamp |-> v.timestamp]
    ELSE IF v.role = "user"
    THEN [is |-> "UserMessage", content |-> DecodeContent(v.content, UserBlocks),
          timestamp |-> v.timestamp]
    ELSE IF v.role = "assistant"
    THEN [is |-> "AssistantMessage",
          content |-> DecodeContent(v.content, AssistantBlocks),
          api |-> v.api, model |-> v.model, usage |-> v.usage,
          stop_reason |-> v.stopReason, timestamp |-> v.timestamp,
          response_id |-> v.responseId, error_message |-> v.errorMessage,
          thinking_level |-> Null]
    ELSE IF v.role = "toolResult"
    THEN [is |-> "ToolResultMessage", tool_call_id |-> v.toolCallId,
          tool_name |-> v.toolName,
          content |-> DecodeContent(v.content, UserBlocks),
          is_error |-> v.isError, timestamp |-> v.timestamp,
          details |-> v.details, usage |-> v.usage]
    ELSE Invalid

(* What a message is once it was stored: encode_message leaves out an       *)
(* assistant's thinking_level.                                             *)
AsStored(m) ==
    IF m.is = "AssistantMessage" THEN [m EXCEPT !.thinking_level = Null] ELSE m

-----------------------------------------------------------------------------
(* Frames of an unfinished response, progress of an unfinished tool        *)

Deltas == {"text", "thinking", "toolcall"}

StartFrames == [is : {"StartFrame"}, partial : AssistantMessages]
BlockStartFrames ==
    [is : {"TextStartFrame"}, content_index : Nat, content : TextBlocks]
        \union [is : {"ThinkingStartFrame"}, content_index : Nat,
                content : ThinkingBlocks]
        \union [is : {"ToolCallStartFrame"}, content_index : Nat,
                content : ToolCalls]
DeltaFrames ==
    [is : {"DeltaFrame"}, of : Deltas, content_index : Nat, delta : Scalars]
CheckpointFrames ==
    [is : {"ToolCallCheckpointFrame"}, content_index : Nat, json : Scalars]
(* signature is text_signature, thinking_signature or thought_signature.   *)
EndFrames ==
    [is : {"EndFrame"}, of : Deltas, content_index : Nat, content : Scalars,
     signature : Optional(Scalars), redacted : Optional(BOOLEAN)]

Frames ==
    StartFrames \union BlockStartFrames \union DeltaFrames
        \union CheckpointFrames \union EndFrames

(* A tool call's start has its block under toolCall, the others under       *)
(* content.                                                                *)
EncodeFrame(f) ==
    IF f.is = "StartFrame"
    THEN [type |-> "start", partial |-> EncodeMessage(f.partial)]
    ELSE IF f.is = "TextStartFrame"
    THEN [type |-> "text_start", contentIndex |-> f.content_index,
          content |-> EncodeBlock(f.content)]
    ELSE IF f.is = "ThinkingStartFrame"
    THEN [type |-> "thinking_start", contentIndex |-> f.content_index,
          content |-> EncodeBlock(f.content)]
    ELSE IF f.is = "ToolCallStartFrame"
    THEN [type |-> "toolcall_start", contentIndex |-> f.content_index,
          toolCall |-> EncodeBlock(f.content)]
    ELSE IF f.is = "DeltaFrame"
    THEN [type |-> "delta", of |-> f.of, contentIndex |-> f.content_index,
          delta |-> f.delta]
    ELSE IF f.is = "ToolCallCheckpointFrame"
    THEN [type |-> "toolcall_checkpoint", contentIndex |-> f.content_index,
          json |-> f.json]
    ELSE [type |-> "end", of |-> f.of, contentIndex |-> f.content_index,
          content |-> f.content, signature |-> f.signature,
          redacted |-> f.redacted]

(* A start frame whose message is not an assistant's is refused.           *)
DecodeFrame(v) ==
    IF v.type = "start"
    THEN IF DecodeMessage(v.partial) \in AssistantMessages
         THEN [is |-> "StartFrame", partial |-> DecodeMessage(v.partial)]
         ELSE Invalid
    ELSE IF v.type = "text_start"
    THEN [is |-> "TextStartFrame", content_index |-> v.contentIndex,
          content |-> DecodeBlock(v.content)]
    ELSE IF v.type = "thinking_start"
    THEN [is |-> "ThinkingStartFrame", content_index |-> v.contentIndex,
          content |-> DecodeBlock(v.content)]
    ELSE IF v.type = "toolcall_start"
    THEN [is |-> "ToolCallStartFrame", content_index |-> v.contentIndex,
          content |-> DecodeBlock(v.toolCall)]
    ELSE IF v.type = "delta"
    THEN [is |-> "DeltaFrame", of |-> v.of, content_index |-> v.contentIndex,
          delta |-> v.delta]
    ELSE IF v.type = "toolcall_checkpoint"
    THEN [is |-> "ToolCallCheckpointFrame", content_index |-> v.contentIndex,
          json |-> v.json]
    ELSE IF v.type = "end"
    THEN [is |-> "EndFrame", of |-> v.of, content_index |-> v.contentIndex,
          content |-> v.content, signature |-> v.signature,
          redacted |-> v.redacted]
    ELSE Invalid

ToolResults ==
    [content : Seq(UserBlocks), details : Optional(Scalars),
     usage : Optional(Scalars), terminate : BOOLEAN]

EncodeToolResult(r) ==
    [content |-> Each(EncodeBlock, r.content), terminate |-> r.terminate,
     details |-> r.details, usage |-> r.usage]

DecodeToolResult(v) ==
    [content |-> DecodeContent(v.content, UserBlocks), details |-> v.details,
     usage |-> v.usage, terminate |-> v.terminate]

-----------------------------------------------------------------------------
(* A lane                                                                  *)

ThinkingLevels == {"off", "minimal", "low", "medium", "high", "xhigh", "max"}
Configurations ==
    [model : [provider : Scalars, model_id : Scalars],
     thinking_level : ThinkingLevels, active_tool_names : Texts]

EncodeConfiguration(c) ==
    [model |-> [provider |-> c.model.provider, modelId |-> c.model.model_id],
     thinkingLevel |-> c.thinking_level,
     activeToolNames |-> c.active_tool_names]

DecodeConfiguration(v) ==
    IF v.thinkingLevel \in ThinkingLevels
    THEN [model |-> [provider |-> v.model.provider,
                     model_id |-> v.model.modelId],
          thinking_level |-> v.thinkingLevel,
          active_tool_names |-> v.activeToolNames]
    ELSE Invalid

InboxKinds == {"steer", "followUp", "nextRun", "write"}
InboxItems == [entry_id : Scalars, kind : InboxKinds]
LaneStates ==
    [current_operation_id : Optional(Scalars),
     last_operation_id : Optional(Scalars), inbox : Seq(InboxItems)]

EncodeItem(item) == [entryId |-> item.entry_id, kind |-> item.kind]

DecodeItem(v) ==
    IF v.kind \in InboxKinds
    THEN [entry_id |-> v.entryId, kind |-> v.kind]
    ELSE Invalid

EncodeLaneState(s) ==
    [currentOperationId |-> s.current_operation_id,
     lastOperationId |-> s.last_operation_id,
     inbox |-> Each(EncodeItem, s.inbox)]

DecodeLaneState(v) ==
    [current_operation_id |-> v.currentOperationId,
     last_operation_id |-> v.lastOperationId,
     inbox |-> Each(DecodeItem, v.inbox)]

-----------------------------------------------------------------------------
(* An operation's intent, control and settings                             *)

RunIntents == [is : {"RunIntent"}, prompt_entry_ids : Texts]
CompactionIntents ==
    [is : {"CompactionIntent"}, custom_instructions : Optional(Scalars)]
NavigationIntents ==
    [is : {"NavigationIntent"}, target_id : Optional(Scalars),
     summarize : BOOLEAN, label : Optional(Scalars),
     custom_instructions : Optional(Scalars)]
Intents == RunIntents \union CompactionIntents \union NavigationIntents
Metas ==
    [operation_id : Scalars, lane : Scalars, source_tip_id : Optional(Scalars),
     started_at : Scalars, intent : Intents]

KindOf(intent) ==
    IF intent.is = "RunIntent" THEN "run"
    ELSE IF intent.is = "CompactionIntent" THEN "compaction"
    ELSE "navigation"

EncodeIntent(i) ==
    IF i.is = "RunIntent"
    THEN [kind |-> "run", promptEntryIds |-> i.prompt_entry_ids]
    ELSE IF i.is = "CompactionIntent"
    THEN [kind |-> "compaction", customInstructions |-> i.custom_instructions]
    ELSE [kind |-> "navigation", targetId |-> i.target_id,
          summarize |-> i.summarize, label |-> i.label,
          customInstructions |-> i.custom_instructions]

DecodeIntent(v) ==
    IF v.kind = "run"
    THEN [is |-> "RunIntent", prompt_entry_ids |-> v.promptEntryIds]
    ELSE IF v.kind = "compaction"
    THEN [is |-> "CompactionIntent",
          custom_instructions |-> v.customInstructions]
    ELSE IF v.kind = "navigation"
    THEN [is |-> "NavigationIntent", target_id |-> v.targetId,
          summarize |-> v.summarize, label |-> v.label,
          custom_instructions |-> v.customInstructions]
    ELSE Invalid

EncodeMeta(m) ==
    [operationId |-> m.operation_id, lane |-> m.lane,
     sourceTipId |-> m.source_tip_id, startedAt |-> m.started_at,
     intent |-> EncodeIntent(m.intent)]

DecodeMeta(v) ==
    [operation_id |-> v.operationId, lane |-> v.lane,
     source_tip_id |-> v.sourceTipId, started_at |-> v.startedAt,
     intent |-> DecodeIntent(v.intent)]

Controls ==
    [is : {"RunningControl"}]
        \union [is : {"CancelRequestedControl"}, requested_at : Scalars]

EncodeControl(c) ==
    IF c.is = "CancelRequestedControl"
    THEN [status |-> "cancel_requested", requestedAt |-> c.requested_at]
    ELSE [status |-> "running"]

DecodeControl(v) ==
    IF v.status = "running" THEN [is |-> "RunningControl"]
    ELSE IF v.status = "cancel_requested"
    THEN [is |-> "CancelRequestedControl", requested_at |-> v.requestedAt]
    ELSE Invalid

QueueingModes == {"all", "one-at-a-time"}
ToolExecutions == {"sequential", "parallel"}
CompactionSettings ==
    [enabled : BOOLEAN, reserve_tokens : Scalars, keep_recent_tokens : Scalars]
RunSettings ==
    [compaction : CompactionSettings, steering_mode : QueueingModes,
     follow_up_mode : QueueingModes, tool_execution : ToolExecutions]

EncodeSettings(s) ==
    [compaction |-> [enabled |-> s.compaction.enabled,
                     reserveTokens |-> s.compaction.reserve_tokens,
                     keepRecentTokens |-> s.compaction.keep_recent_tokens],
     steeringMode |-> s.steering_mode, followUpMode |-> s.follow_up_mode,
     toolExecution |-> s.tool_execution]

DecodeCompactionSettings(v) ==
    [enabled |-> v.enabled, reserve_tokens |-> v.reserveTokens,
     keep_recent_tokens |-> v.keepRecentTokens]

DecodeSettings(v) ==
    IF /\ {v.steeringMode, v.followUpMode} \subseteq QueueingModes
       /\ v.toolExecution \in ToolExecutions
    THEN [compaction |-> DecodeCompactionSettings(v.compaction),
          steering_mode |-> v.steeringMode, follow_up_mode |-> v.followUpMode,
          tool_execution |-> v.toolExecution]
    ELSE Invalid

-----------------------------------------------------------------------------
(* What a summary was prepared from                                        *)

CompactionPreparations ==
    [is : {"CompactionPreparation"}, messages_to_summarize : Seq(Messages),
     turn_prefix_messages : Seq(Messages), retained_tail : Seq(Messages),
     is_split_turn : BOOLEAN, tokens_before : Scalars,
     previous_summary : Optional(Scalars), read_files : Texts,
     modified_files : Texts, settings : CompactionSettings]
BranchPreparations ==
    [is : {"BranchPreparation"}, messages : Seq(Messages), read_files : Texts,
     modified_files : Texts, total_tokens : Scalars]

EncodeCompactionPreparation(p) ==
    [kind |-> "compaction",
     messagesToSummarize |-> Each(EncodeMessage, p.messages_to_summarize),
     turnPrefixMessages |-> Each(EncodeMessage, p.turn_prefix_messages),
     retainedTail |-> Each(EncodeMessage, p.retained_tail),
     isSplitTurn |-> p.is_split_turn, tokensBefore |-> p.tokens_before,
     previousSummary |-> p.previous_summary, readFiles |-> p.read_files,
     modifiedFiles |-> p.modified_files,
     settings |-> [enabled |-> p.settings.enabled,
                   reserveTokens |-> p.settings.reserve_tokens,
                   keepRecentTokens |-> p.settings.keep_recent_tokens]]

DecodeCompactionPreparation(v) ==
    IF v.kind = "compaction"
    THEN [is |-> "CompactionPreparation",
          messages_to_summarize |-> Each(DecodeMessage, v.messagesToSummarize),
          turn_prefix_messages |-> Each(DecodeMessage, v.turnPrefixMessages),
          retained_tail |-> Each(DecodeMessage, v.retainedTail),
          is_split_turn |-> v.isSplitTurn, tokens_before |-> v.tokensBefore,
          previous_summary |-> v.previousSummary, read_files |-> v.readFiles,
          modified_files |-> v.modifiedFiles,
          settings |-> DecodeCompactionSettings(v.settings)]
    ELSE Invalid

EncodeBranchPreparation(p) ==
    [kind |-> "branch_summary", messages |-> Each(EncodeMessage, p.messages),
     readFiles |-> p.read_files, modifiedFiles |-> p.modified_files,
     totalTokens |-> p.total_tokens]

DecodeBranchPreparation(v) ==
    IF v.kind = "branch_summary"
    THEN [is |-> "BranchPreparation",
          messages |-> Each(DecodeMessage, v.messages),
          read_files |-> v.readFiles, modified_files |-> v.modifiedFiles,
          total_tokens |-> v.totalTokens]
    ELSE Invalid

-----------------------------------------------------------------------------
(* Operation states                                                        *)

Continuations ==
    [is : {"NeedAssistant"}, overflow_recovery_used : BOOLEAN]
        \union [is : {"MayFinish"}, include_final_assistant : BOOLEAN]

(* Mutant: a continuation is told by its flag.                             *)
MutContinuationFlag(c) ==
    IF c.is = "NeedAssistant" /\ ~c.overflow_recovery_used
    THEN [kind |-> "need_assistant", overflowRecoveryUsed |-> FALSE]
    ELSE [kind |-> "may_finish", includeFinalAssistant |-> TRUE]

EncodeContinuation(c) ==
    IF c.is = "NeedAssistant"
    THEN [kind |-> "need_assistant",
          overflowRecoveryUsed |-> c.overflow_recovery_used]
    ELSE [kind |-> "may_finish",
          includeFinalAssistant |-> c.include_final_assistant]

DecodeContinuation(v) ==
    IF v.kind = "need_assistant"
    THEN [is |-> "NeedAssistant",
          overflow_recovery_used |-> v.overflowRecoveryUsed]
    ELSE IF v.kind = "may_finish"
    THEN [is |-> "MayFinish",
          include_final_assistant |-> v.includeFinalAssistant]
    ELSE Invalid

RetryPolicies ==
    [max_attempts : Scalars, base_delay_ms : Scalars,
     max_agent_delay_ms : Scalars]

EncodeRetryPolicy(p) ==
    [maxAttempts |-> p.max_attempts, baseDelayMs |-> p.base_delay_ms,
     maxAgentDelayMs |-> p.max_agent_delay_ms]

DecodeRetryPolicy(v) ==
    [max_attempts |-> v.maxAttempts, base_delay_ms |-> v.baseDelayMs,
     max_agent_delay_ms |-> v.maxAgentDelayMs]

GenerationContexts ==
    [step_id : Scalars, trigger_entry_id : Scalars,
     configuration : Configurations, retry_policy : RetryPolicies,
     overflow_recovery_used : BOOLEAN]

EncodeGenerationContext(c) ==
    [stepId |-> c.step_id, triggerEntryId |-> c.trigger_entry_id,
     configuration |-> EncodeConfiguration(c.configuration),
     retryPolicy |-> EncodeRetryPolicy(c.retry_policy),
     overflowRecoveryUsed |-> c.overflow_recovery_used]

DecodeGenerationContext(v) ==
    [step_id |-> v.stepId, trigger_entry_id |-> v.triggerEntryId,
     configuration |-> DecodeConfiguration(v.configuration),
     retry_policy |-> DecodeRetryPolicy(v.retryPolicy),
     overflow_recovery_used |-> v.overflowRecoveryUsed]

SummaryContexts ==
    [result_entry_id : Scalars, configuration : Configurations,
     retry_policy : RetryPolicies]

EncodeSummaryContext(c) ==
    [resultEntryId |-> c.result_entry_id,
     configuration |-> EncodeConfiguration(c.configuration),
     retryPolicy |-> EncodeRetryPolicy(c.retry_policy)]

DecodeSummaryContext(v) ==
    [result_entry_id |-> v.resultEntryId,
     configuration |-> DecodeConfiguration(v.configuration),
     retry_policy |-> DecodeRetryPolicy(v.retryPolicy)]

(* A summary task holds what comes after it in four optional fields.       *)
Reasons == {"manual", "threshold", "overflow"}
SummaryTasks ==
    [task_id : Scalars, reason : Optional(Reasons),
     custom_instructions : Optional(Scalars),
     resume_continuation : Optional(Continuations),
     resume_trigger_entry_id : Optional(Scalars),
     navigation_target_id : Optional(Scalars),
     navigation_label : Optional(Scalars)]

(* Mutant: a task that resumes nothing is taken to finish the operation.    *)
MutFinishFirst(t) ==
    IF t.resume_continuation = Null
    THEN [kind |-> "finish"]
    ELSE [kind |-> "resume_checkpoint",
          continuation |-> EncodeContinuation(t.resume_continuation),
          triggerEntryId |-> t.resume_trigger_entry_id]

(* Its record has one boundary instead: the navigation if there is a        *)
(* target, else the checkpoint to resume, else the end of the operation.    *)
EncodeBoundary(t) ==
    IF t.navigation_target_id # Null
    THEN [kind |-> "commit_navigation", targetId |-> t.navigation_target_id,
          label |-> t.navigation_label]
    ELSE IF t.resume_continuation = Null
    THEN [kind |-> "finish"]
    ELSE [kind |-> "resume_checkpoint",
          continuation |-> EncodeContinuation(t.resume_continuation),
          triggerEntryId |-> t.resume_trigger_entry_id]

EncodeTask(t) ==
    [taskId |-> t.task_id, boundary |-> EncodeBoundary(t),
     reason |-> t.reason, customInstructions |-> t.custom_instructions]

DecodeTask(v) ==
    LET resumes == v.boundary.kind = "resume_checkpoint"
        navigates == v.boundary.kind = "commit_navigation"
    IN  IF /\ v.reason \in Optional(Reasons)
           /\ resumes \/ navigates \/ v.boundary.kind = "finish"
        THEN [task_id |-> v.taskId, reason |-> v.reason,
              custom_instructions |-> v.customInstructions,
              resume_continuation |->
                  IF resumes THEN DecodeContinuation(v.boundary.continuation)
                  ELSE Null,
              resume_trigger_entry_id |->
                  IF resumes THEN v.boundary.triggerEntryId ELSE Null,
              navigation_target_id |->
                  IF navigates THEN v.boundary.targetId ELSE Null,
              navigation_label |->
                  IF navigates THEN v.boundary.label ELSE Null]
        ELSE Invalid

(* The tasks whose record keeps all of them: one thing comes after.        *)
OneBoundary(t) ==
    /\ t.navigation_target_id = Null => t.navigation_label = Null
    /\ t.navigation_target_id # Null => t.resume_continuation = Null
    /\ (t.resume_continuation = Null) <=> (t.resume_trigger_entry_id = Null)

CallStates ==
    [is : {"PlannedToolCall"}, source_index : Nat, result_entry_id : Scalars]
        \union [is : {"EffectPendingToolCall"}, source_index : Nat,
                result_entry_id : Scalars, replay : {"never", "safe"}]
        \union [is : {"OutcomeReadyToolCall", "CompletedToolCall"},
                source_index : Nat, result_entry_id : Scalars,
                terminate : BOOLEAN]

EncodeCall(c) ==
    IF c.is = "PlannedToolCall"
    THEN [status |-> "planned", sourceIndex |-> c.source_index,
          resultEntryId |-> c.result_entry_id]
    ELSE IF c.is = "EffectPendingToolCall"
    THEN [status |-> "effect_pending", sourceIndex |-> c.source_index,
          resultEntryId |-> c.result_entry_id, replay |-> c.replay]
    ELSE [status |-> IF c.is = "OutcomeReadyToolCall" THEN "outcome_ready"
                     ELSE "completed",
          sourceIndex |-> c.source_index,
          resultEntryId |-> c.result_entry_id, terminate |-> c.terminate]

DecodeCall(v) ==
    IF v.sourceIndex < 0 THEN Invalid
    ELSE IF v.status = "planned"
    THEN [is |-> "PlannedToolCall", source_index |-> v.sourceIndex,
          result_entry_id |-> v.resultEntryId]
    ELSE IF v.status = "effect_pending"
    THEN IF v.replay \in {"never", "safe"}
         THEN [is |-> "EffectPendingToolCall", source_index |-> v.sourceIndex,
               result_entry_id |-> v.resultEntryId, replay |-> v.replay]
         ELSE Invalid
    ELSE IF v.status \in {"outcome_ready", "completed"}
    THEN [is |-> IF v.status = "outcome_ready" THEN "OutcomeReadyToolCall"
                 ELSE "CompletedToolCall",
          source_index |-> v.sourceIndex,
          result_entry_id |-> v.resultEntryId, terminate |-> v.terminate]
    ELSE Invalid

Batches ==
    [assistant_entry_id : Scalars, configuration : Configurations,
     turn_id : Scalars, calls : Seq(CallStates) \ {<<>>}]

EncodeBatch(b) ==
    [assistantEntryId |-> b.assistant_entry_id,
     configuration |-> EncodeConfiguration(b.configuration),
     turnId |-> b.turn_id, calls |-> Each(EncodeCall, b.calls)]

DecodeBatch(v) ==
    IF v.calls = <<>> THEN Invalid
    ELSE [assistant_entry_id |-> v.assistantEntryId,
          configuration |-> DecodeConfiguration(v.configuration),
          turn_id |-> v.turnId, calls |-> Each(DecodeCall, v.calls)]

(* What is particular to a state; attempts are attempt or next_attempt.     *)
RequestStates == [index : Scalars, usage_id : Scalars]
StateDetails ==
    [at : {"starting"}]
        \union [at : {"checkpoint"}, continuation : Continuations,
                trigger_entry_id : Scalars]
        \union [at : {"tools"}, batch : Batches]
        \union [at : {"navigation.ready_to_commit"},
                target_id : Optional(Scalars), label : Optional(Scalars)]
        \union [at : {"summary.deciding"}, task : SummaryTasks]
        \union [at : {"summary.ready"}, task : SummaryTasks,
                summary_context : SummaryContexts, next_attempt : Scalars]
        \union [at : {"summary.effect_pending"}, task : SummaryTasks,
                summary_context : SummaryContexts, attempt : Scalars,
                usage_ids : Texts, request : Optional(RequestStates)]
        \union [at : {"summary.retry_wait"}, task : SummaryTasks,
                summary_context : SummaryContexts, next_attempt : Scalars,
                not_before : Scalars, error_message : Scalars]
        \union [at : {"assistant.ready"}, next_attempt : Scalars,
                generation_context : GenerationContexts]
        \union [at : {"assistant.effect_pending"}, attempt : Scalars,
                generation_context : GenerationContexts,
                response_entry_id : Scalars, usage_id : Scalars,
                intended_output_limit : Scalars, context_window : Scalars]
        \union [at : {"assistant.retry_wait"}, next_attempt : Scalars,
                generation_context : GenerationContexts,
                not_before : Scalars, error_message : Scalars]

(* A state: what every one has, and its details.                           *)
OperationStates ==
    [control : Controls, settings : RunSettings,
     latest_assistant_entry_id : Optional(Scalars), details : StateDetails]

SummaryAts ==
    {"summary.deciding", "summary.ready", "summary.effect_pending",
     "summary.retry_wait"}

EncodeSummaryDetails(d) ==
    IF d.at = "summary.deciding"
    THEN [at |-> d.at, task |-> EncodeTask(d.task)]
    ELSE IF d.at = "summary.ready"
    THEN [at |-> d.at, task |-> EncodeTask(d.task),
          summaryContext |-> EncodeSummaryContext(d.summary_context),
          nextAttempt |-> d.next_attempt]
    ELSE IF d.at = "summary.effect_pending"
    THEN [at |-> d.at, task |-> EncodeTask(d.task),
          summaryContext |-> EncodeSummaryContext(d.summary_context),
          attempt |-> d.attempt, usageIds |-> d.usage_ids,
          request |-> IF d.request = Null THEN Null
                      ELSE [index |-> d.request.index,
                            usageId |-> d.request.usage_id]]
    ELSE [at |-> d.at, task |-> EncodeTask(d.task),
          summaryContext |-> EncodeSummaryContext(d.summary_context),
          nextAttempt |-> d.next_attempt, notBefore |-> d.not_before,
          errorMessage |-> d.error_message]

EncodeAssistantDetails(d) ==
    IF d.at = "assistant.ready"
    THEN [at |-> d.at, nextAttempt |-> d.next_attempt,
          generationContext |-> EncodeGenerationContext(d.generation_context)]
    ELSE IF d.at = "assistant.effect_pending"
    THEN [at |-> d.at, attempt |-> d.attempt,
          generationContext |-> EncodeGenerationContext(d.generation_context),
          responseEntryId |-> d.response_entry_id, usageId |-> d.usage_id,
          intendedOutputLimit |-> d.intended_output_limit,
          contextWindow |-> d.context_window]
    ELSE [at |-> d.at, nextAttempt |-> d.next_attempt,
          generationContext |-> EncodeGenerationContext(d.generation_context),
          notBefore |-> d.not_before, errorMessage |-> d.error_message]

EncodeDetails(d) ==
    IF d.at = "starting" THEN [at |-> d.at]
    ELSE IF d.at = "checkpoint"
    THEN [at |-> d.at, continuation |-> EncodeContinuation(d.continuation),
          triggerEntryId |-> d.trigger_entry_id]
    ELSE IF d.at = "tools"
    THEN [at |-> d.at, batch |-> EncodeBatch(d.batch)]
    ELSE IF d.at = "navigation.ready_to_commit"
    THEN [at |-> d.at, targetId |-> d.target_id, label |-> d.label]
    ELSE IF d.at \in SummaryAts THEN EncodeSummaryDetails(d)
    ELSE EncodeAssistantDetails(d)

EncodeOperationState(s) ==
    [control |-> EncodeControl(s.control),
     settings |-> EncodeSettings(s.settings),
     latestAssistantEntryId |-> s.latest_assistant_entry_id,
     details |-> EncodeDetails(s.details)]

DecodeSummaryDetails(v) ==
    IF v.at = "summary.deciding"
    THEN [at |-> v.at, task |-> DecodeTask(v.task)]
    ELSE IF v.at = "summary.ready"
    THEN [at |-> v.at, task |-> DecodeTask(v.task),
          summary_context |-> DecodeSummaryContext(v.summaryContext),
          next_attempt |-> v.nextAttempt]
    ELSE IF v.at = "summary.effect_pending"
    THEN [at |-> v.at, task |-> DecodeTask(v.task),
          summary_context |-> DecodeSummaryContext(v.summaryContext),
          attempt |-> v.attempt, usage_ids |-> v.usageIds,
          request |-> IF v.request = Null THEN Null
                      ELSE [index |-> v.request.index,
                            usage_id |-> v.request.usageId]]
    ELSE [at |-> v.at, task |-> DecodeTask(v.task),
          summary_context |-> DecodeSummaryContext(v.summaryContext),
          next_attempt |-> v.nextAttempt, not_before |-> v.notBefore,
          error_message |-> v.errorMessage]

DecodeAssistantDetails(v) ==
    IF v.at = "assistant.ready"
    THEN [at |-> v.at, next_attempt |-> v.nextAttempt,
          generation_context |-> DecodeGenerationContext(v.generationContext)]
    ELSE IF v.at = "assistant.effect_pending"
    THEN [at |-> v.at, attempt |-> v.attempt,
          generation_context |-> DecodeGenerationContext(v.generationContext),
          response_entry_id |-> v.responseEntryId, usage_id |-> v.usageId,
          intended_output_limit |-> v.intendedOutputLimit,
          context_window |-> v.contextWindow]
    ELSE IF v.at = "assistant.retry_wait"
    THEN [at |-> v.at, next_attempt |-> v.nextAttempt,
          generation_context |-> DecodeGenerationContext(v.generationContext),
          not_before |-> v.notBefore, error_message |-> v.errorMessage]
    ELSE Invalid

DecodeDetails(v) ==
    IF v.at = "starting" THEN [at |-> v.at]
    ELSE IF v.at = "checkpoint"
    THEN [at |-> v.at, continuation |-> DecodeContinuation(v.continuation),
          trigger_entry_id |-> v.triggerEntryId]
    ELSE IF v.at = "tools"
    THEN [at |-> v.at, batch |-> DecodeBatch(v.batch)]
    ELSE IF v.at = "navigation.ready_to_commit"
    THEN [at |-> v.at, target_id |-> v.targetId, label |-> v.label]
    ELSE IF v.at \in SummaryAts THEN DecodeSummaryDetails(v)
    ELSE DecodeAssistantDetails(v)

DecodeOperationState(v) ==
    [control |-> DecodeControl(v.control),
     settings |-> DecodeSettings(v.settings),
     latest_assistant_entry_id |-> v.latestAssistantEntryId,
     details |-> DecodeDetails(v.details)]

(* The states whose record keeps them, with OneBoundary for their task.     *)
Storable(s) == s.details.at \in SummaryAts => OneBoundary(s.details.task)

-----------------------------------------------------------------------------
(* Results                                                                 *)

ResultStatuses == {"completed", "declined", "aborted", "failed"}
OperationKinds == {"run", "compaction", "navigation"}
OperationErrors == [code : Scalars, message : Scalars]
OperationResults ==
    [operation_id : Scalars, kind : OperationKinds, status : ResultStatuses,
     from_tip_id : Optional(Scalars), tip_id : Optional(Scalars),
     started_at : Scalars, ended_at : Scalars,
     error : Optional(OperationErrors)]

EncodeOperationResult(r) ==
    [operationId |-> r.operation_id, kind |-> r.kind, status |-> r.status,
     fromTipId |-> r.from_tip_id, tipId |-> r.tip_id,
     startedAt |-> r.started_at, endedAt |-> r.ended_at, error |-> r.error]

DecodeOperationResult(v) ==
    IF v.kind \in OperationKinds /\ v.status \in ResultStatuses
    THEN [operation_id |-> v.operationId, kind |-> v.kind,
          status |-> v.status, from_tip_id |-> v.fromTipId,
          tip_id |-> v.tipId, started_at |-> v.startedAt,
          ended_at |-> v.endedAt, error |-> v.error]
    ELSE Invalid

-----------------------------------------------------------------------------
(* Opening the session again                                               *)

IsSummary(s) == s.details.at \in SummaryAts

(* _state_matches_intent                                                   *)
StateMatchesIntent(intent, s) ==
    LET task == s.details.task
    IN  IF intent.is = "CompactionIntent"
        THEN /\ IsSummary(s)
             /\ task.navigation_target_id = Null
             /\ task.resume_continuation = Null
        ELSE IF intent.is = "NavigationIntent"
        THEN IF s.details.at = "navigation.ready_to_commit"
             THEN /\ ~intent.summarize
                  /\ s.details.target_id = intent.target_id
                  /\ s.details.label = intent.label
             ELSE /\ intent.summarize
                  /\ IsSummary(s)
                  /\ task.navigation_target_id = intent.target_id
                  /\ task.navigation_label = intent.label
                  /\ task.custom_instructions = intent.custom_instructions
        ELSE /\ s.details.at # "navigation.ready_to_commit"
             /\ IsSummary(s) => task.resume_continuation # Null

(* classify_lane_storage, of the three values stored for a lane.  A tip     *)
(* that is null is a value too, so tip is a record.                        *)
ClassifyLane(tip, configuration, state) ==
    IF <<tip, configuration, state>> = <<Null, Null, Null>> THEN "absent"
    ELSE IF tip # Null /\ configuration = Null /\ state = Null THEN "branch"
    ELSE IF Null \in {tip, configuration, state} THEN Invalid
    ELSE "lane"

(* Where a lane created on what is stored starts.                          *)
AttachmentTip(tip, configuration, state, createAt) ==
    IF ClassifyLane(tip, configuration, state) = "branch" THEN tip.value
    ELSE createAt

(* The open operation of a stored lane, from its records.                  *)
RestoreOperation(name, id, meta, state) ==
    IF meta = Null \/ state = Null THEN Invalid
    ELSE LET m == DecodeMeta(meta)
             s == DecodeOperationState(state)
         IN  IF /\ m \in Metas
                /\ s \in OperationStates
                /\ m.operation_id = id
                /\ m.lane = name
                /\ StateMatchesIntent(m.intent, s)
             THEN [operation_id |-> id, kind |-> KindOf(m.intent),
                   started_at |-> m.started_at, at |-> s.details.at]
             ELSE Invalid

(* restore_session, for one name: what it says of the lane, Null where      *)
(* there is none or it is idle.  meta and state are functions of the        *)
(* operation id.                                                           *)
Restore(name, tip, configuration, laneState, meta, state) ==
    LET stored == ClassifyLane(tip, configuration, laneState)
    IN  IF stored = Invalid THEN Invalid
        ELSE IF stored # "lane" THEN Null
        ELSE LET lane == DecodeLaneState(laneState)
                 id == lane.current_operation_id
             IN  IF \/ DecodeConfiguration(configuration) = Invalid
                    \/ lane \notin LaneStates
                 THEN Invalid
                 ELSE IF id = Null THEN Null
                 ELSE RestoreOperation(name, id, meta[id], state[id])

-----------------------------------------------------------------------------
(* Looking at a lane while it runs                                         *)

(* read_execution, which inspect_execution gives: the open operation from   *)
(* its two records, without asking whether they agree.                     *)
ReadExecution(tip, laneState, meta, state) ==
    LET lane == DecodeLaneState(laneState)
        id == lane.current_operation_id
    IN  IF Null \in {laneState, tip} THEN Invalid
        ELSE IF id # Null /\ (meta[id] = Null \/ state[id] = Null) THEN Invalid
        ELSE [current |->
                IF id = Null THEN Null
                ELSE [operation_id |-> id,
                      kind |-> KindOf(DecodeMeta(meta[id]).intent),
                      started_at |-> DecodeMeta(meta[id]).started_at,
                      at |-> DecodeOperationState(state[id]).details.at],
              last_operation_id |-> lane.last_operation_id,
              tip_id |-> tip.value]

(* read_pending_messages and read_lane_queue: the payloads of the inbox, by *)
(* entry id.                                                               *)
Unreadable(stored) ==
    \/ stored = Null
    \/ /\ DecodeMessage(stored).is = "AssistantMessage"
       /\ DecodeMessage(stored).stop_reason = "pending"

ReadQueue(inbox, payload) ==
    IF \E i \in DOMAIN inbox : Unreadable(payload[inbox[i].entry_id])
    THEN Invalid
    ELSE [i \in DOMAIN inbox |->
            [entry_id |-> inbox[i].entry_id, kind |-> inbox[i].kind,
             message |-> DecodeMessage(payload[inbox[i].entry_id])]]

RetryOf(d) ==
    LET Waiting(policy) ==
            [attempt |-> d.next_attempt, max_attempts |-> policy.max_attempts,
             next_attempt_at |-> d.not_before]
    IN  IF d.at = "assistant.retry_wait"
        THEN Waiting(d.generation_context.retry_policy)
        ELSE IF d.at = "summary.retry_wait"
        THEN Waiting(d.summary_context.retry_policy)
        ELSE Null

(* What is stored next to a call's state: the block of the assistant entry  *)
(* it answers, its arguments, progress and staged message.                 *)
RunningTool(call, stored) ==
    LET staged == DecodeMessage(stored.staged)
    IN  IF stored.source.is # "ToolCall" THEN Invalid
        ELSE IF call.is = "EffectPendingToolCall"
        THEN IF stored.args = Null THEN Invalid
             ELSE [tool_call_id |-> stored.source.id, args |-> stored.args,
                   result |-> IF stored.output = Null THEN Null
                              ELSE DecodeToolResult(stored.output)]
        ELSE IF stored.staged = Null THEN Invalid
        ELSE IF staged.is # "ToolResultMessage" THEN Invalid
        ELSE [tool_call_id |-> stored.source.id,
              args |-> IF stored.args = Null THEN stored.source.arguments
                       ELSE stored.args,
              result |-> [content |-> staged.content, details |-> staged.details,
                          usage |-> staged.usage, terminate |-> call.terminate],
              is_error |-> staged.is_error]

(* The calls between their start and their placement, by their places in    *)
(* the batch.                                                              *)
RunningTools(d, stored) ==
    LET calls == IF d.at = "tools" THEN d.batch.calls ELSE <<>>
    IN  [i \in {j \in DOMAIN calls :
                    calls[j].is \in {"EffectPendingToolCall",
                                     "OutcomeReadyToolCall"}} |->
            RunningTool(calls[i], stored[i])]

OperationSnapshot(id, meta, state, frames, stored) ==
    LET d == state.details
    IN  [id |-> id, kind |-> KindOf(meta.intent), started_at |-> meta.started_at,
         from_tip_id |-> meta.source_tip_id,
         status |-> IF state.control.is = "CancelRequestedControl"
                    THEN "aborting" ELSE "open",
         running_tools |-> RunningTools(d, stored), retry |-> RetryOf(d),
         streaming |-> IF d.at = "assistant.effect_pending"
                       THEN Each(DecodeFrame, frames) ELSE Null]

(* _capture_snapshot, in one transaction: everything a watcher starts from. *)
(* The transcript is MemoryStorage's scan of the branch, what the frames    *)
(* amount to is MessageFrames'.                                            *)
CaptureSnapshot(tip, configuration, laneState, meta, state, result, payload, frames, stored) ==
    LET lane == DecodeLaneState(laneState)
        id == lane.current_operation_id
        last == lane.last_operation_id
    IN  IF Null \in {laneState, tip, configuration} THEN Invalid
        ELSE IF last # Null /\ result[last] = Null THEN Invalid
        ELSE IF id # Null /\ (meta[id] = Null \/ state[id] = Null) THEN Invalid
        ELSE [tip_id |-> tip.value,
              last_result |-> IF last = Null THEN Null
                              ELSE DecodeOperationResult(result[last]),
              configuration |-> DecodeConfiguration(configuration),
              operation |-> IF id = Null THEN Null
                            ELSE OperationSnapshot(id, DecodeMeta(meta[id]),
                                    DecodeOperationState(state[id]), frames,
                                    stored),
              queues |-> ReadQueue(lane.inbox, payload)]

=============================================================================

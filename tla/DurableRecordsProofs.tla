------------------------ MODULE DurableRecordsProofs ------------------------
(* What is stored is read back, for every value, and restoring a lane never *)
(* refuses an operation whose state fits its intent.                        *)
EXTENDS DurableRecords, TLAPS

-----------------------------------------------------------------------------
(* JSON                                                                    *)

(* What JSON says of the constants: every number is a scalar, and neither a *)
(* null nor an error is an object.                                         *)
IsObject(v) == v = [k \in DOMAIN v |-> v[k]]
Json ==
    /\ Int \subseteq Scalars
    /\ ~IsObject(Null)
    /\ ~IsObject(Invalid)

LEMMA EncodedIsObject ==
    ASSUME Json
    PROVE  /\ \A c : EncodeConfiguration(c) \notin {Null, Invalid}
           /\ \A s : EncodeLaneState(s) \notin {Null, Invalid}
           /\ \A m : EncodeMeta(m) \notin {Null, Invalid}
           /\ \A s : EncodeOperationState(s) \notin {Null, Invalid}
           /\ \A r : EncodeOperationResult(r) \notin {Null, Invalid}
           /\ \A m : EncodeMessage(m) \notin {Null, Invalid}
           /\ \A v : [value |-> v] \notin {Null, Invalid}
<1>1. \A v : IsObject(v) => v \notin {Null, Invalid}
  BY DEF Json
<1>2. \A c : IsObject(EncodeConfiguration(c))
  BY DEF IsObject, EncodeConfiguration
<1>3. \A s : IsObject(EncodeLaneState(s))
  BY DEF IsObject, EncodeLaneState
<1>4. \A m : IsObject(EncodeMeta(m))
  BY DEF IsObject, EncodeMeta
<1>5. \A s : IsObject(EncodeOperationState(s))
  BY DEF IsObject, EncodeOperationState
<1>6. \A r : IsObject(EncodeOperationResult(r))
  BY DEF IsObject, EncodeOperationResult
<1>7. \A v : IsObject([value |-> v])
  BY DEF IsObject
<1>8. \A m : IsObject(EncodeMessage(m))
  BY DEF IsObject, EncodeMessage
<1> QED
  BY <1>1, <1>2, <1>3, <1>4, <1>5, <1>6, <1>7, <1>8

-----------------------------------------------------------------------------
(* Messages                                                                *)

Blocks == TextBlocks \union ThinkingBlocks \union ImageBlocks \union ToolCalls

LEMMA BlockRoundTrip ==
    ASSUME NEW b \in Blocks
    PROVE  DecodeBlock(EncodeBlock(b)) = b
<1>1. CASE b \in TextBlocks
  BY <1>1 DEF TextBlocks, DecodeBlock, EncodeBlock
<1>2. CASE b \in ThinkingBlocks
  BY <1>2 DEF ThinkingBlocks, DecodeBlock, EncodeBlock
<1>3. CASE b \in ImageBlocks
  BY <1>3 DEF ImageBlocks, DecodeBlock, EncodeBlock
<1>4. CASE b \in ToolCalls
  BY <1>4 DEF ToolCalls, DecodeBlock, EncodeBlock
<1> QED
  BY <1>1, <1>2, <1>3, <1>4 DEF Blocks

LEMMA ContentRoundTrip ==
    ASSUME NEW allowed, allowed \subseteq Blocks, NEW list \in Seq(allowed)
    PROVE  DecodeContent(Each(EncodeBlock, list), allowed) = list
<1> DEFINE encoded == [i \in DOMAIN list |-> EncodeBlock(list[i])]
<1>1. list = [i \in DOMAIN list |-> list[i]] /\ \A i \in DOMAIN list : list[i] \in allowed
  OBVIOUS
<1>2. \A i \in DOMAIN list : DecodeBlock(EncodeBlock(list[i])) = list[i]
  BY <1>1, BlockRoundTrip
<1>3. [i \in DOMAIN encoded |-> DecodeBlock(encoded[i])] = list
  BY <1>1, <1>2
<1> QED
  BY <1>1, <1>3 DEF DecodeContent, Each

(* A message is read back as it was stored.                                *)
LEMMA MessageRoundTrip ==
    ASSUME NEW m \in Messages
    PROVE  DecodeMessage(EncodeMessage(m)) = AsStored(m)
<1>0. UserBlocks \subseteq Blocks /\ AssistantBlocks \subseteq Blocks
  BY DEF UserBlocks, AssistantBlocks, Blocks
<1>1. CASE m \in UserMessages
  <2>1. DecodeContent(Each(EncodeBlock, m.content), UserBlocks) = m.content
    BY <1>0, <1>1, ContentRoundTrip DEF UserMessages
  <2> QED
    BY <1>1, <2>1 DEF UserMessages, EncodeMessage, DecodeMessage, AsStored
<1>2. CASE m \in AssistantMessages
  <2>1. DecodeContent(Each(EncodeBlock, m.content), AssistantBlocks) = m.content
    BY <1>0, <1>2, ContentRoundTrip DEF AssistantMessages
  <2> QED
    BY <1>2, <2>1 DEF AssistantMessages, EncodeMessage, DecodeMessage, AsStored
<1>3. CASE m \in ToolResultMessages
  <2>1. DecodeContent(Each(EncodeBlock, m.content), UserBlocks) = m.content
    BY <1>0, <1>3, ContentRoundTrip DEF ToolResultMessages
  <2> QED
    BY <1>3, <2>1 DEF ToolResultMessages, EncodeMessage, DecodeMessage, AsStored
<1>4. CASE m \in CompactionSummaryMessages
  BY <1>4 DEF CompactionSummaryMessages, EncodeMessage, DecodeMessage, AsStored
<1>5. CASE m \in BranchSummaryMessages
  BY <1>5 DEF BranchSummaryMessages, EncodeMessage, DecodeMessage, AsStored
<1> QED
  BY <1>1, <1>2, <1>3, <1>4, <1>5 DEF Messages

-----------------------------------------------------------------------------
(* Frames and tool results                                                 *)

(* A frame is read back as it was stored: the message of a start frame      *)
(* without its thinking_level.                                             *)
FrameAsStored(f) ==
    IF f.is = "StartFrame"
    THEN [is |-> "StartFrame", partial |-> AsStored(f.partial)]
    ELSE f

LEMMA FrameRoundTrip ==
    ASSUME NEW f \in Frames
    PROVE  DecodeFrame(EncodeFrame(f)) = FrameAsStored(f)
<1>1. CASE f \in StartFrames
  <2>1. f.partial \in AssistantMessages /\ f.partial \in Messages
    BY <1>1 DEF StartFrames, Messages
  <2>2. DecodeMessage(EncodeMessage(f.partial)) = AsStored(f.partial)
    BY <2>1, MessageRoundTrip
  <2>3. AsStored(f.partial) \in AssistantMessages
    BY <2>1 DEF AsStored, AssistantMessages, Optional
  <2> QED
    BY <1>1, <2>2, <2>3 DEF StartFrames, EncodeFrame, DecodeFrame, FrameAsStored
<1>2. CASE f \in BlockStartFrames
  <2>1. f.content \in Blocks
    BY <1>2 DEF BlockStartFrames, Blocks
  <2>2. DecodeBlock(EncodeBlock(f.content)) = f.content
    BY <2>1, BlockRoundTrip
  <2> QED
    BY <1>2, <2>2 DEF BlockStartFrames, EncodeFrame, DecodeFrame, FrameAsStored
<1>3. CASE f \in DeltaFrames
  BY <1>3 DEF DeltaFrames, EncodeFrame, DecodeFrame, FrameAsStored
<1>4. CASE f \in CheckpointFrames
  BY <1>4 DEF CheckpointFrames, EncodeFrame, DecodeFrame, FrameAsStored
<1>5. CASE f \in EndFrames
  BY <1>5 DEF EndFrames, EncodeFrame, DecodeFrame, FrameAsStored
<1> QED
  BY <1>1, <1>2, <1>3, <1>4, <1>5 DEF Frames

LEMMA ToolResultRoundTrip ==
    ASSUME NEW r \in ToolResults
    PROVE  DecodeToolResult(EncodeToolResult(r)) = r
<1>1. UserBlocks \subseteq Blocks
  BY DEF UserBlocks, Blocks
<1>2. DecodeContent(Each(EncodeBlock, r.content), UserBlocks) = r.content
  BY <1>1, ContentRoundTrip DEF ToolResults
<1> QED
  BY <1>2 DEF ToolResults, EncodeToolResult, DecodeToolResult

-----------------------------------------------------------------------------
(* Lanes, intents, controls, settings                                      *)

LEMMA ConfigurationRoundTrip ==
    ASSUME NEW c \in Configurations
    PROVE  DecodeConfiguration(EncodeConfiguration(c)) = c
BY DEF Configurations, EncodeConfiguration, DecodeConfiguration

LEMMA LaneStateRoundTrip ==
    ASSUME NEW s \in LaneStates
    PROVE  DecodeLaneState(EncodeLaneState(s)) = s
<1> DEFINE encoded == [i \in DOMAIN s.inbox |-> EncodeItem(s.inbox[i])]
<1>1. /\ s.inbox = [i \in DOMAIN s.inbox |-> s.inbox[i]]
      /\ \A i \in DOMAIN s.inbox : s.inbox[i] \in InboxItems
  BY DEF LaneStates
<1>2. \A i \in DOMAIN s.inbox : DecodeItem(EncodeItem(s.inbox[i])) = s.inbox[i]
  BY <1>1 DEF InboxItems, EncodeItem, DecodeItem
<1>3. [i \in DOMAIN encoded |-> DecodeItem(encoded[i])] = s.inbox
  BY <1>1, <1>2
<1> QED
  BY <1>3 DEF LaneStates, EncodeLaneState, DecodeLaneState, Each

LEMMA MetaRoundTrip ==
    ASSUME NEW m \in Metas
    PROVE  DecodeMeta(EncodeMeta(m)) = m
<1>1. m.intent \in Intents
  BY DEF Metas
<1>2. DecodeIntent(EncodeIntent(m.intent)) = m.intent
  <2>1. CASE m.intent \in RunIntents
    BY <2>1 DEF RunIntents, EncodeIntent, DecodeIntent
  <2>2. CASE m.intent \in CompactionIntents
    BY <2>2 DEF CompactionIntents, EncodeIntent, DecodeIntent
  <2>3. CASE m.intent \in NavigationIntents
    BY <2>3 DEF NavigationIntents, EncodeIntent, DecodeIntent
  <2> QED
    BY <1>1, <2>1, <2>2, <2>3 DEF Intents
<1> QED
  BY <1>2 DEF Metas, EncodeMeta, DecodeMeta

LEMMA ControlRoundTrip ==
    ASSUME NEW c \in Controls
    PROVE  DecodeControl(EncodeControl(c)) = c
<1>1. CASE c \in [is : {"RunningControl"}]
  BY <1>1 DEF EncodeControl, DecodeControl
<1>2. CASE c \in [is : {"CancelRequestedControl"}, requested_at : Scalars]
  BY <1>2 DEF EncodeControl, DecodeControl
<1> QED
  BY <1>1, <1>2 DEF Controls

LEMMA SettingsRoundTrip ==
    ASSUME NEW s \in RunSettings
    PROVE  DecodeSettings(EncodeSettings(s)) = s
<1>1. /\ s.compaction \in CompactionSettings
      /\ s.steering_mode \in QueueingModes
      /\ s.follow_up_mode \in QueueingModes
      /\ s.tool_execution \in ToolExecutions
  BY DEF RunSettings
<1>2. s.compaction = [enabled |-> s.compaction.enabled,
                      reserve_tokens |-> s.compaction.reserve_tokens,
                      keep_recent_tokens |-> s.compaction.keep_recent_tokens]
  BY <1>1 DEF CompactionSettings
<1> QED
  BY <1>1, <1>2 DEF RunSettings, EncodeSettings, DecodeSettings,
                    DecodeCompactionSettings

-----------------------------------------------------------------------------
(* Preparations                                                            *)

EachAsStored(list) == [i \in DOMAIN list |-> AsStored(list[i])]

LEMMA MessagesRoundTrip ==
    ASSUME NEW list \in Seq(Messages)
    PROVE  Each(DecodeMessage, Each(EncodeMessage, list)) = EachAsStored(list)
<1> DEFINE encoded == [i \in DOMAIN list |-> EncodeMessage(list[i])]
<1>1. \A i \in DOMAIN list : list[i] \in Messages
  OBVIOUS
<1>2. \A i \in DOMAIN list :
          DecodeMessage(EncodeMessage(list[i])) = AsStored(list[i])
  BY <1>1, MessageRoundTrip
<1>3. [i \in DOMAIN encoded |-> DecodeMessage(encoded[i])] = EachAsStored(list)
  BY <1>2 DEF EachAsStored
<1> QED
  BY <1>3 DEF Each

PreparationAsStored(p) ==
    IF p.is = "BranchPreparation"
    THEN [p EXCEPT !.messages = EachAsStored(@)]
    ELSE [is |-> p.is,
          messages_to_summarize |-> EachAsStored(p.messages_to_summarize),
          turn_prefix_messages |-> EachAsStored(p.turn_prefix_messages),
          retained_tail |-> EachAsStored(p.retained_tail),
          is_split_turn |-> p.is_split_turn, tokens_before |-> p.tokens_before,
          previous_summary |-> p.previous_summary, read_files |-> p.read_files,
          modified_files |-> p.modified_files, settings |-> p.settings]

(* What a summary is generated from is the same before and after a restart, *)
(* but for the thinking_level of its messages, which no summary quotes.     *)
THEOREM PreparationsReadBack ==
    /\ \A p \in CompactionPreparations :
          DecodeCompactionPreparation(EncodeCompactionPreparation(p))
              = PreparationAsStored(p)
    /\ \A p \in BranchPreparations :
          DecodeBranchPreparation(EncodeBranchPreparation(p))
              = PreparationAsStored(p)
<1>1. ASSUME NEW p \in CompactionPreparations
      PROVE  DecodeCompactionPreparation(EncodeCompactionPreparation(p))
                 = PreparationAsStored(p)
  <2>1. /\ p.messages_to_summarize \in Seq(Messages)
        /\ p.turn_prefix_messages \in Seq(Messages)
        /\ p.retained_tail \in Seq(Messages)
        /\ p.settings \in CompactionSettings
        /\ p.is = "CompactionPreparation"
    BY DEF CompactionPreparations
  <2>2. /\ Each(DecodeMessage, Each(EncodeMessage, p.messages_to_summarize))
             = EachAsStored(p.messages_to_summarize)
        /\ Each(DecodeMessage, Each(EncodeMessage, p.turn_prefix_messages))
             = EachAsStored(p.turn_prefix_messages)
        /\ Each(DecodeMessage, Each(EncodeMessage, p.retained_tail))
             = EachAsStored(p.retained_tail)
    BY <2>1, MessagesRoundTrip
  <2>3. p.settings = [enabled |-> p.settings.enabled,
                      reserve_tokens |-> p.settings.reserve_tokens,
                      keep_recent_tokens |-> p.settings.keep_recent_tokens]
    BY <2>1 DEF CompactionSettings
  <2>4. DecodeCompactionPreparation(EncodeCompactionPreparation(p))
          = [is |-> "CompactionPreparation",
             messages_to_summarize |-> EachAsStored(p.messages_to_summarize),
             turn_prefix_messages |-> EachAsStored(p.turn_prefix_messages),
             retained_tail |-> EachAsStored(p.retained_tail),
             is_split_turn |-> p.is_split_turn,
             tokens_before |-> p.tokens_before,
             previous_summary |-> p.previous_summary,
             read_files |-> p.read_files, modified_files |-> p.modified_files,
             settings |-> p.settings]
    BY <2>2, <2>3 DEF DecodeCompactionPreparation, EncodeCompactionPreparation,
                      DecodeCompactionSettings
  <2> QED
    BY <2>1, <2>4 DEF PreparationAsStored
<1>2. ASSUME NEW p \in BranchPreparations
      PROVE  DecodeBranchPreparation(EncodeBranchPreparation(p))
                 = PreparationAsStored(p)
  <2>1. p.messages \in Seq(Messages) /\ p.is = "BranchPreparation"
    BY DEF BranchPreparations
  <2>2. Each(DecodeMessage, Each(EncodeMessage, p.messages))
          = EachAsStored(p.messages)
    BY <2>1, MessagesRoundTrip
  <2> QED
    BY <2>1, <2>2 DEF PreparationAsStored, BranchPreparations,
                      DecodeBranchPreparation, EncodeBranchPreparation
<1> QED
  BY <1>1, <1>2

-----------------------------------------------------------------------------
(* Operation states                                                        *)

LEMMA ContinuationRoundTrip ==
    ASSUME NEW c \in Continuations
    PROVE  DecodeContinuation(EncodeContinuation(c)) = c
<1>1. CASE c \in [is : {"NeedAssistant"}, overflow_recovery_used : BOOLEAN]
  BY <1>1 DEF EncodeContinuation, DecodeContinuation
<1>2. CASE c \in [is : {"MayFinish"}, include_final_assistant : BOOLEAN]
  BY <1>2 DEF EncodeContinuation, DecodeContinuation
<1> QED
  BY <1>1, <1>2 DEF Continuations

LEMMA RetryPolicyRoundTrip ==
    ASSUME NEW p \in RetryPolicies
    PROVE  DecodeRetryPolicy(EncodeRetryPolicy(p)) = p
BY DEF RetryPolicies, EncodeRetryPolicy, DecodeRetryPolicy

LEMMA GenerationContextRoundTrip ==
    ASSUME NEW c \in GenerationContexts
    PROVE  DecodeGenerationContext(EncodeGenerationContext(c)) = c
<1>1. c.configuration \in Configurations /\ c.retry_policy \in RetryPolicies
  BY DEF GenerationContexts
<1>2. /\ DecodeConfiguration(EncodeConfiguration(c.configuration)) = c.configuration
      /\ DecodeRetryPolicy(EncodeRetryPolicy(c.retry_policy)) = c.retry_policy
  BY <1>1, ConfigurationRoundTrip, RetryPolicyRoundTrip
<1> QED
  BY <1>2 DEF GenerationContexts, EncodeGenerationContext, DecodeGenerationContext

LEMMA SummaryContextRoundTrip ==
    ASSUME NEW c \in SummaryContexts
    PROVE  DecodeSummaryContext(EncodeSummaryContext(c)) = c
<1>1. c.configuration \in Configurations /\ c.retry_policy \in RetryPolicies
  BY DEF SummaryContexts
<1>2. /\ DecodeConfiguration(EncodeConfiguration(c.configuration)) = c.configuration
      /\ DecodeRetryPolicy(EncodeRetryPolicy(c.retry_policy)) = c.retry_policy
  BY <1>1, ConfigurationRoundTrip, RetryPolicyRoundTrip
<1> QED
  BY <1>2 DEF SummaryContexts, EncodeSummaryContext, DecodeSummaryContext

(* A summary task is read back where at most one thing comes after it.      *)
LEMMA TaskRoundTrip ==
    ASSUME NEW t \in SummaryTasks, OneBoundary(t)
    PROVE  DecodeTask(EncodeTask(t)) = t
<1>0. /\ t.resume_continuation # Null =>
            DecodeContinuation(EncodeContinuation(t.resume_continuation))
                = t.resume_continuation
      /\ t.reason \in Optional(Reasons)
  BY ContinuationRoundTrip DEF SummaryTasks, Optional
<1>1. CASE t.navigation_target_id # Null
  BY <1>0, <1>1 DEF OneBoundary, SummaryTasks, EncodeTask, DecodeTask, EncodeBoundary
<1>2. CASE t.navigation_target_id = Null /\ t.resume_continuation = Null
  BY <1>0, <1>2 DEF OneBoundary, SummaryTasks, EncodeTask, DecodeTask, EncodeBoundary
<1>3. CASE t.navigation_target_id = Null /\ t.resume_continuation # Null
  BY <1>0, <1>3 DEF OneBoundary, SummaryTasks, EncodeTask, DecodeTask, EncodeBoundary
<1> QED
  BY <1>1, <1>2, <1>3

LEMMA CallRoundTrip ==
    ASSUME NEW c \in CallStates
    PROVE  DecodeCall(EncodeCall(c)) = c
<1>1. CASE c \in [is : {"PlannedToolCall"}, source_index : Nat,
                  result_entry_id : Scalars]
  BY <1>1 DEF EncodeCall, DecodeCall
<1>2. CASE c \in [is : {"EffectPendingToolCall"}, source_index : Nat,
                  result_entry_id : Scalars, replay : {"never", "safe"}]
  BY <1>2 DEF EncodeCall, DecodeCall
<1>3. CASE c \in [is : {"OutcomeReadyToolCall", "CompletedToolCall"},
                  source_index : Nat, result_entry_id : Scalars,
                  terminate : BOOLEAN]
  BY <1>3 DEF EncodeCall, DecodeCall
<1> QED
  BY <1>1, <1>2, <1>3 DEF CallStates

LEMMA BatchRoundTrip ==
    ASSUME NEW b \in Batches
    PROVE  DecodeBatch(EncodeBatch(b)) = b
<1> DEFINE encoded == [i \in DOMAIN b.calls |-> EncodeCall(b.calls[i])]
<1>1. /\ b.configuration \in Configurations
      /\ b.calls \in Seq(CallStates) \ {<<>>}
  BY DEF Batches
<1>2. /\ b.calls = [i \in DOMAIN b.calls |-> b.calls[i]]
      /\ \A i \in DOMAIN b.calls : b.calls[i] \in CallStates
      /\ DOMAIN b.calls # {}
  BY <1>1
<1>3. \A i \in DOMAIN b.calls : DecodeCall(EncodeCall(b.calls[i])) = b.calls[i]
  BY <1>2, CallRoundTrip
<1>4. [i \in DOMAIN encoded |-> DecodeCall(encoded[i])] = b.calls
  BY <1>2, <1>3
<1>5. encoded # <<>>
  BY <1>2
<1>6. DecodeConfiguration(EncodeConfiguration(b.configuration)) = b.configuration
  BY <1>1, ConfigurationRoundTrip
<1> QED
  BY <1>4, <1>5, <1>6 DEF Batches, EncodeBatch, DecodeBatch, Each

LEMMA SummaryDetailsRoundTrip ==
    ASSUME NEW d \in StateDetails, d.at \in SummaryAts, OneBoundary(d.task)
    PROVE  DecodeSummaryDetails(EncodeSummaryDetails(d)) = d
<1>1. /\ d.task \in SummaryTasks
      /\ d.at # "summary.deciding" => d.summary_context \in SummaryContexts
  BY DEF StateDetails, SummaryAts
<1>2. /\ DecodeTask(EncodeTask(d.task)) = d.task
      /\ d.at # "summary.deciding" =>
            DecodeSummaryContext(EncodeSummaryContext(d.summary_context))
                = d.summary_context
  BY <1>1, TaskRoundTrip, SummaryContextRoundTrip
<1>3. CASE d.at = "summary.deciding"
  <2>1. d \in [at : {"summary.deciding"}, task : SummaryTasks]
    BY <1>3 DEF StateDetails
  <2> QED
    BY <1>2, <2>1 DEF EncodeSummaryDetails, DecodeSummaryDetails
<1>4. CASE d.at = "summary.ready"
  <2>1. d \in [at : {"summary.ready"}, task : SummaryTasks,
               summary_context : SummaryContexts, next_attempt : Scalars]
    BY <1>4 DEF StateDetails
  <2> QED
    BY <1>2, <2>1 DEF EncodeSummaryDetails, DecodeSummaryDetails
<1>5. CASE d.at = "summary.effect_pending"
  <2>1. d \in [at : {"summary.effect_pending"}, task : SummaryTasks,
               summary_context : SummaryContexts, attempt : Scalars,
               usage_ids : Texts, request : Optional(RequestStates)]
    BY <1>5 DEF StateDetails
  <2>2. CASE d.request = Null
    BY <1>2, <2>1, <2>2 DEF EncodeSummaryDetails, DecodeSummaryDetails
  <2>3. CASE d.request # Null
    <3>1. d.request \in RequestStates
      BY <2>1, <2>3 DEF Optional
    <3>2. d.request = [index |-> d.request.index, usage_id |-> d.request.usage_id]
      BY <3>1 DEF RequestStates
    <3>3. [index |-> d.request.index, usageId |-> d.request.usage_id] # Null
      BY <3>1, DurableRecordsAssumption DEF RequestStates
    <3> QED
      BY <1>2, <2>1, <2>3, <3>2, <3>3 DEF EncodeSummaryDetails, DecodeSummaryDetails
  <2> QED
    BY <2>2, <2>3
<1>6. CASE d.at = "summary.retry_wait"
  <2>1. d \in [at : {"summary.retry_wait"}, task : SummaryTasks,
               summary_context : SummaryContexts, next_attempt : Scalars,
               not_before : Scalars, error_message : Scalars]
    BY <1>6 DEF StateDetails
  <2> QED
    BY <1>2, <2>1 DEF EncodeSummaryDetails, DecodeSummaryDetails
<1> QED
  BY <1>3, <1>4, <1>5, <1>6 DEF SummaryAts

LEMMA AssistantDetailsRoundTrip ==
    ASSUME NEW d \in StateDetails,
           d.at \in {"assistant.ready", "assistant.effect_pending",
                     "assistant.retry_wait"}
    PROVE  DecodeAssistantDetails(EncodeAssistantDetails(d)) = d
<1>1. d.generation_context \in GenerationContexts
  BY DEF StateDetails
<1>2. DecodeGenerationContext(EncodeGenerationContext(d.generation_context))
        = d.generation_context
  BY <1>1, GenerationContextRoundTrip
<1>3. CASE d.at = "assistant.ready"
  <2>1. d \in [at : {"assistant.ready"}, next_attempt : Scalars,
               generation_context : GenerationContexts]
    BY <1>3 DEF StateDetails
  <2> QED
    BY <1>2, <2>1 DEF EncodeAssistantDetails, DecodeAssistantDetails
<1>4. CASE d.at = "assistant.effect_pending"
  <2>1. d \in [at : {"assistant.effect_pending"}, attempt : Scalars,
               generation_context : GenerationContexts,
               response_entry_id : Scalars, usage_id : Scalars,
               intended_output_limit : Scalars, context_window : Scalars]
    BY <1>4 DEF StateDetails
  <2> QED
    BY <1>2, <2>1 DEF EncodeAssistantDetails, DecodeAssistantDetails
<1>5. CASE d.at = "assistant.retry_wait"
  <2>1. d \in [at : {"assistant.retry_wait"}, next_attempt : Scalars,
               generation_context : GenerationContexts,
               not_before : Scalars, error_message : Scalars]
    BY <1>5 DEF StateDetails
  <2> QED
    BY <1>2, <2>1 DEF EncodeAssistantDetails, DecodeAssistantDetails
<1> QED
  BY <1>3, <1>4, <1>5

LEMMA DetailsRoundTrip ==
    ASSUME NEW d \in StateDetails, d.at \in SummaryAts => OneBoundary(d.task)
    PROVE  DecodeDetails(EncodeDetails(d)) = d
<1>1. CASE d.at = "starting"
  <2>1. d \in [at : {"starting"}]
    BY <1>1 DEF StateDetails
  <2> QED
    BY <2>1 DEF EncodeDetails, DecodeDetails
<1>2. CASE d.at = "checkpoint"
  <2>1. d \in [at : {"checkpoint"}, continuation : Continuations,
               trigger_entry_id : Scalars]
    BY <1>2 DEF StateDetails
  <2>2. DecodeContinuation(EncodeContinuation(d.continuation)) = d.continuation
    BY <2>1, ContinuationRoundTrip
  <2> QED
    BY <2>1, <2>2 DEF EncodeDetails, DecodeDetails
<1>3. CASE d.at = "tools"
  <2>1. d \in [at : {"tools"}, batch : Batches]
    BY <1>3 DEF StateDetails
  <2>2. DecodeBatch(EncodeBatch(d.batch)) = d.batch
    BY <2>1, BatchRoundTrip
  <2> QED
    BY <2>1, <2>2 DEF EncodeDetails, DecodeDetails
<1>4. CASE d.at = "navigation.ready_to_commit"
  <2>1. d \in [at : {"navigation.ready_to_commit"},
               target_id : Optional(Scalars), label : Optional(Scalars)]
    BY <1>4 DEF StateDetails
  <2> QED
    BY <2>1 DEF EncodeDetails, DecodeDetails
<1>5. CASE d.at \in SummaryAts
  <2>1. EncodeDetails(d) = EncodeSummaryDetails(d)
    BY <1>5 DEF EncodeDetails, SummaryAts
  <2>2. EncodeSummaryDetails(d).at = d.at
    BY <1>5 DEF EncodeSummaryDetails
  <2>3. DecodeDetails(EncodeDetails(d)) = DecodeSummaryDetails(EncodeSummaryDetails(d))
    BY <1>5, <2>1, <2>2 DEF DecodeDetails, SummaryAts
  <2> QED
    BY <1>5, <2>3, SummaryDetailsRoundTrip
<1>6. CASE d.at \in {"assistant.ready", "assistant.effect_pending",
                     "assistant.retry_wait"}
  <2>1. EncodeDetails(d) = EncodeAssistantDetails(d)
    BY <1>6 DEF EncodeDetails, SummaryAts
  <2>2. EncodeAssistantDetails(d).at = d.at
    BY <1>6 DEF EncodeAssistantDetails
  <2>3. DecodeDetails(EncodeDetails(d))
          = DecodeAssistantDetails(EncodeAssistantDetails(d))
    BY <1>6, <2>1, <2>2 DEF DecodeDetails, SummaryAts
  <2> QED
    BY <1>6, <2>3, AssistantDetailsRoundTrip
<1> QED
  BY <1>1, <1>2, <1>3, <1>4, <1>5, <1>6 DEF StateDetails, SummaryAts

(* A state whose summary task has one thing after it is read back exactly,  *)
(* whatever its control, settings, attempts, batch or pending request.      *)
THEOREM StatesReadBack ==
    ASSUME NEW s \in OperationStates, Storable(s)
    PROVE  DecodeOperationState(EncodeOperationState(s)) = s
<1>1. /\ s.control \in Controls
      /\ s.settings \in RunSettings
      /\ s.details \in StateDetails
  BY DEF OperationStates
<1>2. /\ DecodeControl(EncodeControl(s.control)) = s.control
      /\ DecodeSettings(EncodeSettings(s.settings)) = s.settings
  BY <1>1, ControlRoundTrip, SettingsRoundTrip
<1>3. DecodeDetails(EncodeDetails(s.details)) = s.details
  BY <1>1, DetailsRoundTrip DEF Storable
<1> QED
  BY <1>2, <1>3 DEF OperationStates, EncodeOperationState, DecodeOperationState

-----------------------------------------------------------------------------
(* Restoring                                                               *)

(* Restoring a lane accepts every operation whose state can be stored and   *)
(* fits its intent, and names it with the state it stands at.  (What is     *)
(* stored is an object, so it is not Null.)                                *)
THEOREM RestoreAccepts ==
    ASSUME NEW name, NEW m \in Metas, m.lane = name,
           NEW s \in OperationStates, Storable(s),
           StateMatchesIntent(m.intent, s),
           EncodeMeta(m) # Null, EncodeOperationState(s) # Null
    PROVE  RestoreOperation(name, m.operation_id, EncodeMeta(m),
                            EncodeOperationState(s))
               = [operation_id |-> m.operation_id, kind |-> KindOf(m.intent),
                  started_at |-> m.started_at, at |-> s.details.at]
<1>1. DecodeMeta(EncodeMeta(m)) = m
  BY MetaRoundTrip
<1>2. DecodeOperationState(EncodeOperationState(s)) = s
  BY StatesReadBack
<1> QED
  BY <1>1, <1>2 DEF RestoreOperation

(* A lane whose records are complete is classified as a lane.               *)
LEMMA LaneClassified ==
    ASSUME Json, NEW tip, NEW c, NEW s
    PROVE  ClassifyLane([value |-> tip], EncodeConfiguration(c),
                        EncodeLaneState(s)) = "lane" /\ "lane" # Invalid
<1> DEFINE place == [value |-> tip]
<1>1. /\ EncodeConfiguration(c) # Null
      /\ EncodeLaneState(s) # Null
      /\ place # Null
  BY EncodedIsObject
<1>2. "lane" # Invalid
  BY DurableRecordsAssumption
<1>3. <<place, EncodeConfiguration(c), EncodeLaneState(s)>> # <<Null, Null, Null>>
  BY <1>1
<1>4. Null \notin {place, EncodeConfiguration(c), EncodeLaneState(s)}
  BY <1>1
<1> HIDE DEF place
<1>5. ClassifyLane(place, EncodeConfiguration(c), EncodeLaneState(s)) = "lane"
  BY <1>1, <1>3, <1>4 DEF ClassifyLane
<1> QED
  BY <1>2, <1>5 DEF place

(* A process that opens the session finds the lane idle if no operation is  *)
(* named, and else the named operation at the state it was left in.         *)
LEMMA RestoreIdle ==
    ASSUME Json, NEW name, NEW tip, NEW c \in Configurations,
           NEW lane \in LaneStates, lane.current_operation_id = Null,
           NEW meta, NEW state
    PROVE  Restore(name, [value |-> tip], EncodeConfiguration(c),
                   EncodeLaneState(lane), meta, state) = Null
<1>1. /\ DecodeConfiguration(EncodeConfiguration(c)) = c
      /\ DecodeLaneState(EncodeLaneState(lane)) = lane
  BY ConfigurationRoundTrip, LaneStateRoundTrip
<1>2. c # Invalid
  BY DEF Json, IsObject, Configurations
<1> QED
  BY <1>1, <1>2, LaneClassified DEF Restore

LEMMA RestoreFinds ==
    ASSUME Json, NEW name, NEW tip, NEW c \in Configurations,
           NEW lane \in LaneStates,
           NEW m \in Metas, m.lane = name,
           m.operation_id = lane.current_operation_id,
           NEW s \in OperationStates, Storable(s),
           StateMatchesIntent(m.intent, s),
           NEW meta, meta[m.operation_id] = EncodeMeta(m),
           NEW state, state[m.operation_id] = EncodeOperationState(s)
    PROVE  Restore(name, [value |-> tip], EncodeConfiguration(c),
                   EncodeLaneState(lane), meta, state)
               = [operation_id |-> m.operation_id, kind |-> KindOf(m.intent),
                  started_at |-> m.started_at, at |-> s.details.at]
<1>1. /\ DecodeConfiguration(EncodeConfiguration(c)) = c
      /\ DecodeLaneState(EncodeLaneState(lane)) = lane
  BY ConfigurationRoundTrip, LaneStateRoundTrip
<1>2. c # Invalid
  BY DEF Json, IsObject, Configurations
<1>3. m.operation_id # Null
  BY DurableRecordsAssumption DEF Metas
<1>4. EncodeMeta(m) # Null /\ EncodeOperationState(s) # Null
  BY EncodedIsObject
<1>5. RestoreOperation(name, m.operation_id, EncodeMeta(m),
                       EncodeOperationState(s))
          = [operation_id |-> m.operation_id, kind |-> KindOf(m.intent),
             started_at |-> m.started_at, at |-> s.details.at]
  BY <1>4, RestoreAccepts
<1> QED
  BY <1>1, <1>2, <1>3, <1>5, LaneClassified DEF Restore

=============================================================================

------------------------------ MODULE RunLane ------------------------------
(***************************************************************************)
(* Run operations on one AgentLane: acceptance, the input queues, the drive *)
(* loop with its durable states, retry, overflow recovery, abort            *)
(* reconciliation, and the loss and return of the process.                  *)
(*                                                                         *)
(* One action is one Session transaction or one decision the drive takes   *)
(* outside the Session line, so everything the lane's other callers        *)
(* (queueing, cancelling, aborting) can slip in between is here.            *)
(*                                                                         *)
(* Abstractions.  The lane's branch is a path; an entry is named by its     *)
(* depth on it, and tip is the depth of the branch tip, so a trigger entry  *)
(* is a depth too.  Queued inputs are numbered in the order their enqueue   *)
(* transactions commit, which is their order in LaneState.inbox, so the     *)
(* inbox is a set.  The stages of a tool call are ToolBatch's, those of a   *)
(* summary are SummaryTask's: here a batch yields its result entries one    *)
(* materialization at a time and a summary publishes one outcome.           *)
(***************************************************************************)
EXTENDS Integers, FiniteSets

CONSTANTS
    Ops,           \* operation ids
    None,          \* "no operation"
    MaxInputs,     \* bound: inputs queued in a behaviour
    MaxTip,        \* bound: the model and the hooks stop adding turns there
    MaxCrashes,    \* bound: processes lost in a behaviour
    MaxAttempts,   \* GenerationRetryPolicy.max_attempts
    SteeringMode,  \* RunSettings.steering_mode
    FollowUpMode,  \* RunSettings.follow_up_mode
    Compacts,      \* CompactionSettings.enabled
    FreshIds       \* FALSE: the host may pass an operation id it used before

QueueModes == {"all", "one-at-a-time"}

ASSUME RunLaneAssumption ==
    /\ None \notin Ops
    /\ MaxInputs \in Nat
    /\ MaxTip \in Nat
    /\ MaxCrashes \in Nat
    /\ MaxAttempts \in Nat \ {0}
    /\ SteeringMode \in QueueModes
    /\ FollowUpMode \in QueueModes
    /\ Compacts \in BOOLEAN
    /\ FreshIds \in BOOLEAN

VARIABLES
    \* durable: survives the process
    current,      \* LaneState.current_operation_id
    inbox,        \* LaneState.inbox
    kind,         \* InboxItem.kind of every input, "unsent" before its enqueue
    pending,      \* inputs that have a pending_entry payload
    place,        \* depth of the history entry an input became, 0 if none
    tip,          \* depth of branch_tip
    op,           \* operation_state of the open operation
    result,       \* operation_result
    frames,       \* some pending_assistant_frames list exists
    preparation,  \* some operation_preparation exists
    \* volatile: the process that drives
    driving,      \* operation of the live drive task
    pc,           \* where that task stands
    plan,         \* what run_checkpoint decided before its transaction
    due,          \* the clock has reached not_before
    \* history
    sent,         \* inputs queued so far
    withdrawn,    \* inputs handed back by cancel_queued or by an abort
    overflowed,   \* triggers of the run whose overflow recovery was spent
    issued,       \* request intents published for the current step
    unsettled,    \* intents published whose response entry is not written
    crashes       \* processes lost so far

laneVars == <<inbox, kind, pending, place, sent, withdrawn>>
taskVars == <<driving, plan, due>>
countVars == <<overflowed, issued, unsettled, crashes>>
vars == <<current, inbox, kind, pending, place, tip, op, result, frames,
          preparation, driving, pc, plan, due, sent,
          withdrawn, overflowed, issued, unsettled, crashes>>

Inputs == 1..MaxInputs
InputKinds == {"steer", "followUp", "nextRun"}
Statuses == {"completed", "failed", "aborted"}

(* An OperationState.  trigger is trigger_entry_id (resume_trigger_entry_id *)
(* in a summary), next the continuation, used its overflow_recovery_used,   *)
(* attempt the attempt under way or to come, calls the tool results still   *)
(* missing, reason the summary task's reason, compacts the captured         *)
(* compaction.enabled.                                                      *)
OpStates ==
    [at : {"none", "starting", "checkpoint", "ready", "effectPending",
           "retryWait", "tools", "summary"},
     control : {"running", "cancel"},
     trigger : Nat,
     next : {"needAssistant", "mayFinish"},
     used : BOOLEAN,
     attempt : Nat,
     calls : Nat,
     reason : {"none", "threshold", "overflow"},
     compacts : BOOLEAN]

NoState ==
    [at |-> "none", control |-> "running", trigger |-> 0,
     next |-> "needAssistant", used |-> FALSE, attempt |-> 0, calls |-> 0,
     reason |-> "none", compacts |-> FALSE]

NoPlan == [threshold |-> FALSE, followUp |-> FALSE]

TypeOK ==
    /\ current \in Ops \union {None}
    /\ inbox \subseteq Inputs
    /\ kind \in [Inputs -> InputKinds \union {"unsent"}]
    /\ pending \subseteq Inputs
    /\ place \in [Inputs -> Nat]
    /\ tip \in Nat
    /\ op \in OpStates
    /\ result \in [Ops -> Statuses \union {"none"}]
    /\ frames \in BOOLEAN
    /\ preparation \in BOOLEAN
    /\ driving \in Ops \union {None}
    /\ pc \in {"idle", "check", "act", "hook", "commit", "stream", "reconcile"}
    /\ plan \in [threshold : BOOLEAN, followUp : BOOLEAN]
    /\ due \in BOOLEAN
    /\ sent \in 0..MaxInputs
    /\ withdrawn \subseteq Inputs
    /\ overflowed \subseteq Nat
    /\ issued \in Nat
    /\ unsettled \in Nat
    /\ crashes \in 0..MaxCrashes

Init ==
    /\ current = None
    /\ inbox = {}
    /\ kind = [i \in Inputs |-> "unsent"]
    /\ pending = {}
    /\ place = [i \in Inputs |-> 0]
    /\ tip = 0
    /\ op = NoState
    /\ result = [o \in Ops |-> "none"]
    /\ frames = FALSE
    /\ preparation = FALSE
    /\ driving = None
    /\ pc = "idle"
    /\ plan = NoPlan
    /\ due = FALSE
    /\ sent = 0
    /\ withdrawn = {}
    /\ overflowed = {}
    /\ issued = 0
    /\ unsettled = 0
    /\ crashes = 0

-----------------------------------------------------------------------------
(* Queues and their consumption                                            *)

OfKind(k) == {i \in inbox : kind[i] = k}

(* What a queue mode takes of the items of one kind: all, or the oldest.   *)
Take(mode, items) ==
    IF mode = "all" THEN items
    ELSE {i \in items : \A j \in items : i <= j}

(* _select_accepted_inbox                                                  *)
AcceptedInbox ==
    OfKind("nextRun")
        \union Take(SteeringMode, OfKind("steer"))
        \union Take(FollowUpMode, OfKind("followUp"))

(* plan_boundary_inbox: steer first; follow-ups only where they may go on  *)
(* with the run and no steer was selected.                                 *)
BoundaryInbox(followUps) ==
    IF OfKind("steer") # {} THEN Take(SteeringMode, OfKind("steer"))
    ELSE IF followUps THEN Take(FollowUpMode, OfKind("followUp"))
    ELSE {}

(* Mutant: the next lane state keeps the inbox that was read.              *)
MutInboxKept(selected, base) ==
    /\ place' = [i \in Inputs |->
                    IF i \in selected
                    THEN base + Cardinality({j \in selected : j <= i})
                    ELSE place[i]]
    /\ pending' = pending \ selected
    /\ UNCHANGED <<inbox, kind, sent, withdrawn>>

(* plan_pending_message_placement: the selected inputs become consecutive  *)
(* entries after depth base, in inbox order; their payloads and inbox items *)
(* go.                                                                      *)
PlaceInputs(selected, base) ==
    /\ place' = [i \in Inputs |->
                    IF i \in selected
                    THEN base + Cardinality({j \in selected : j <= i})
                    ELSE place[i]]
    /\ pending' = pending \ selected
    /\ inbox' = inbox \ selected
    /\ UNCHANGED <<kind, sent, withdrawn>>

(* AgentLane._enqueue (steer, follow_up, next_run)                         *)
Enqueue(k) ==
    /\ sent < MaxInputs
    /\ sent' = sent + 1
    /\ kind' = [kind EXCEPT ![sent + 1] = k]
    /\ pending' = pending \union {sent + 1}
    /\ inbox' = inbox \union {sent + 1}
    /\ UNCHANGED <<current, place, tip, op, result, frames, preparation,
                   pc, taskVars, withdrawn, countVars>>

(* AgentLane.cancel_queued where it finds the item queued; the other two   *)
(* outcomes change nothing.                                                *)
CancelQueued(i) ==
    /\ i \in inbox
    /\ i \in pending
    /\ pending' = pending \ {i}
    /\ inbox' = inbox \ {i}
    /\ withdrawn' = withdrawn \union {i}
    /\ UNCHANGED <<current, kind, place, tip, op, result, frames,
                   preparation, pc, taskVars, sent, countVars>>

-----------------------------------------------------------------------------
(* Acceptance and the abort marker                                         *)

(* AgentLane.accept with prompts explicit messages.                        *)
Accept(o, prompts) ==
    /\ current = None
    /\ FreshIds => result[o] = "none"
    /\ prompts > 0 \/ AcceptedInbox # {}
    /\ PlaceInputs(AcceptedInbox, tip)
    /\ tip' = tip + Cardinality(AcceptedInbox) + prompts
    /\ op' = [NoState EXCEPT !.at = "starting", !.compacts = Compacts]
    /\ current' = o
    /\ overflowed' = {}
    /\ UNCHANGED <<result, frames, preparation, pc, taskVars, issued, unsettled,
                   crashes>>

(* The transaction of AgentLane.request_abort, first request only.         *)
RequestAbort ==
    LET drained == OfKind("steer") \union OfKind("followUp")
    IN  /\ current # None
        /\ op.control = "running"
        /\ op' = [op EXCEPT !.control = "cancel"]
        /\ pending' = pending \ drained
        /\ inbox' = inbox \ drained
        /\ withdrawn' = withdrawn \union drained
        /\ UNCHANGED <<current, kind, place, tip, result, frames,
                       preparation, pc, taskVars, sent, countVars>>

-----------------------------------------------------------------------------
(* The drive loop                                                          *)

(* Mutant: a marked operation is not driven any more.                      *)
MutDriveRunningOnly ==
    /\ pc = "idle"
    /\ current # None
    /\ result[current] = "none"
    /\ op.control = "running"
    /\ driving' = current
    /\ pc' = "check"
    /\ plan' = NoPlan
    /\ UNCHANGED <<current, laneVars, tip, op, result, frames, preparation, due,
                   countVars>>

(* AgentLane.drive and the start of _drive_owned: one task per lane, and   *)
(* only for an operation without a result.                                 *)
Drive ==
    /\ pc = "idle"
    /\ current # None
    /\ result[current] = "none"
    /\ driving' = current
    /\ pc' = "check"
    /\ plan' = NoPlan
    /\ UNCHANGED <<current, laneVars, tip, op, result, frames,
                   preparation, due, countVars>>

(* The top of drive_operation's loop, where the operation is still open.   *)
CheckAbort ==
    /\ pc = "check"
    /\ current = driving
    /\ pc' = IF op.control = "cancel" THEN "reconcile" ELSE "act"
    /\ plan' = NoPlan
    /\ UNCHANGED <<current, laneVars, tip, op, result, frames,
                   preparation, driving, due, countVars>>

(* The top of the loop after the operation ended: its result is returned.  *)
ReturnResult ==
    /\ pc = "check"
    /\ current # driving
    /\ result[driving] # "none"
    /\ pc' = "idle"
    /\ driving' = None
    /\ UNCHANGED <<current, laneVars, tip, op, result, frames,
                   preparation, plan, due, countVars>>

(* The signal of request_abort reaches the drive: at a hook or a wait that *)
(* raises _AbortRequested.  The transactions themselves do not look at it. *)
AbortSignal ==
    /\ op.control = "cancel"
    /\ \/ pc = "act" /\ op.at \in {"starting", "ready", "retryWait", "tools",
                                   "summary"}
       \/ pc \in {"hook", "stream"}
    /\ current = driving
    /\ pc' = "reconcile"
    /\ UNCHANGED <<current, laneVars, tip, op, result, frames,
                   preparation, taskVars, countVars>>

(* The drive performs the step of a durable state.                         *)
Acts(at) ==
    /\ pc = "act"
    /\ current = driving
    /\ op.at = at

(* Mutant: the terminal transaction forgets the lane's current operation.  *)
MutLaneKept(status) ==
    /\ result' = [result EXCEPT ![current] = status]
    /\ op' = NoState
    /\ UNCHANGED current

(* terminal_writes: the operation's state goes, its result is recorded,    *)
(* the inbox stays.                                                        *)
Terminal(status) ==
    /\ result' = [result EXCEPT ![current] = status]
    /\ current' = None
    /\ op' = NoState

(* A fresh AssistantReadyOperation, attempt 1 of a new step.               *)
Ready(trigger, used) ==
    [op EXCEPT !.at = "ready", !.trigger = trigger, !.used = used,
               !.attempt = 1, !.next = "needAssistant", !.reason = "none"]

(* start_run: the hook may inject messages after the prompt.               *)
StartRun(injected) ==
    /\ Acts("starting")
    /\ tip + injected > 0
    /\ tip' = tip + injected
    /\ op' = [op EXCEPT !.at = "checkpoint", !.next = "needAssistant",
                        !.used = FALSE, !.trigger = tip + injected]
    /\ pc' = "check"
    /\ UNCHANGED <<current, laneVars, result, frames,
                   preparation, taskVars, countVars>>

-----------------------------------------------------------------------------
(* The checkpoint: three separate visits to the Session line               *)

(* prepare_compaction_threshold, and may_run_finish_hook                   *)
PrepareCheckpoint(threshold) ==
    LET candidate ==
            /\ ~threshold
            /\ op.next = "mayFinish"
            /\ OfKind("steer") \union OfKind("followUp") = {}
    IN  /\ Acts("checkpoint")
        /\ threshold => op.compacts /\ tip < MaxTip
        /\ plan' = [NoPlan EXCEPT !.threshold = threshold]
        /\ pc' = IF candidate THEN "hook" ELSE "commit"
        /\ UNCHANGED <<current, laneVars, tip, op, result, frames,
                       preparation, driving, due, countVars>>

(* The before_run_end hook, which may ask to continue.                     *)
BeforeRunEnd(followUp) ==
    /\ pc = "hook"
    /\ followUp => tip < MaxTip
    /\ plan' = [plan EXCEPT !.followUp = followUp]
    /\ pc' = "commit"
    /\ UNCHANGED <<current, laneVars, tip, op, result, frames,
                   preparation, driving, due, countVars>>

(* run_checkpoint's transition, one disjunct per branch of it.  It reads   *)
(* the inbox again, and never op.control.                                  *)
Checkpoint ==
    LET selected == BoundaryInbox(~plan.threshold /\ op.next = "mayFinish")
    IN  /\ pc = "commit"
        /\ current = driving
        /\ op.at = "checkpoint"
        /\ pc' = "check"
        /\ PlaceInputs(selected, tip)
        /\ \/ /\ selected # {}
              /\ tip' = tip + Cardinality(selected)
              /\ op' = Ready(tip + Cardinality(selected), FALSE)
              /\ issued' = 0
              /\ UNCHANGED <<current, result, preparation>>
           \/ /\ selected = {}
              /\ plan.threshold
              /\ op' = [op EXCEPT !.at = "summary", !.reason = "threshold"]
              /\ preparation' = TRUE
              /\ UNCHANGED <<current, result, tip, issued>>
           \/ /\ selected = {}
              /\ ~plan.threshold
              /\ op.next = "needAssistant"
              /\ op' = Ready(op.trigger, op.used)
              /\ issued' = 0
              /\ UNCHANGED <<current, result, preparation, tip>>
           \/ /\ selected = {}
              /\ ~plan.threshold
              /\ op.next = "mayFinish"
              /\ plan.followUp
              /\ tip' = tip + 1
              /\ op' = Ready(tip + 1, FALSE)
              /\ issued' = 0
              /\ UNCHANGED <<current, result, preparation>>
           \/ /\ selected = {}
              /\ plan = NoPlan
              /\ op.next = "mayFinish"
              /\ Terminal("completed")
              /\ UNCHANGED <<preparation, tip, issued>>
        /\ plan' = NoPlan
        /\ UNCHANGED <<frames, driving, due, overflowed, unsettled, crashes>>

-----------------------------------------------------------------------------
(* Generation                                                              *)

(* _finish_ready_failure: the configured model or a tool is unavailable.   *)
FinishReadyFailure ==
    /\ Acts("ready")
    /\ Terminal("failed")
    /\ pc' = "check"
    /\ UNCHANGED <<laneVars, tip, frames, preparation, taskVars,
                   countVars>>

(* _publish_generation_intent, after which the provider streams.           *)
PublishGenerationIntent ==
    /\ Acts("ready")
    /\ op' = [op EXCEPT !.at = "effectPending"]
    /\ issued' = issued + 1
    /\ unsettled' = unsettled + 1
    /\ pc' = "stream"
    /\ UNCHANGED <<current, laneVars, tip, result, frames, preparation,
                   taskVars, overflowed, crashes>>

(* _append_frame, which writes only while the response is pending          *)
AppendFrame ==
    /\ pc = "stream"
    /\ op.at = "effectPending"
    /\ frames' = TRUE
    /\ UNCHANGED <<current, laneVars, tip, op, result, preparation, pc,
                   taskVars, countVars>>

(* Mutant: the frames of a settled response stay.                          *)
MutFramesKept ==
    /\ tip' = tip + 1
    /\ unsettled' = unsettled - 1
    /\ UNCHANGED frames

(* What every settlement writes: the response entry under the reserved id, *)
(* its usage row, the tip, and the end of its frames.                      *)
WriteResponse ==
    /\ tip' = tip + 1
    /\ unsettled' = unsettled - 1
    /\ frames' = FALSE

(* An error response that may be tried again.                              *)
SettleRetryable ==
    \/ /\ op.attempt < MaxAttempts
       /\ op' = [op EXCEPT !.at = "retryWait", !.attempt = @ + 1]
       /\ due' = FALSE
       /\ UNCHANGED <<current, result>>
    \/ /\ op.attempt >= MaxAttempts
       /\ Terminal("failed")
       /\ UNCHANGED due

(* Mutant: the allowance is not marked as used.                            *)
MutAllowanceKept(available) ==
    /\ op.control = "running"
    /\ \/ /\ available
          /\ ~op.used
          /\ op' = [op EXCEPT !.at = "summary", !.reason = "overflow",
                              !.next = "needAssistant"]
          /\ preparation' = TRUE
          /\ overflowed' = overflowed \union {op.trigger}
          /\ UNCHANGED <<current, result>>
       \/ /\ ~available \/ op.used
          /\ Terminal("failed")
          /\ UNCHANGED <<preparation, overflowed>>

(* A response classified as context overflow, in a run not being aborted.  *)
(* available: prepare_overflow_compaction found something to summarize.    *)
SettleOverflow(available) ==
    /\ op.control = "running"
    /\ \/ /\ available
          /\ ~op.used
          /\ op' = [op EXCEPT !.at = "summary", !.reason = "overflow",
                              !.next = "needAssistant", !.used = TRUE]
          /\ preparation' = TRUE
          /\ overflowed' = overflowed \union {op.trigger}
          /\ UNCHANGED <<current, result>>
       \/ /\ ~available \/ op.used
          /\ Terminal("failed")
          /\ UNCHANGED <<preparation, overflowed>>

(* settle_response for the response the drive is streaming.                *)
SettleResponse ==
    /\ pc = "stream"
    /\ op.at = "effectPending"
    /\ WriteResponse
    /\ pc' = "check"
    /\ \/ /\ op' = [op EXCEPT !.at = "checkpoint", !.next = "mayFinish",
                              !.trigger = tip + 1]      \* stop, length
          /\ UNCHANGED <<current, result, preparation, overflowed, due>>
       \/ /\ tip < MaxTip                                \* toolUse
          /\ \E n \in 1..2 :
                op' = [op EXCEPT !.at = "tools", !.calls = n]
          /\ UNCHANGED <<current, result, preparation, overflowed, due>>
       \/ /\ SettleRetryable                             \* retryable error
          /\ UNCHANGED <<preparation, overflowed>>
       \/ /\ Terminal("failed")                          \* any other error
          /\ UNCHANGED <<preparation, overflowed, due>>
       \/ /\ \E available \in BOOLEAN : SettleOverflow(available)
          /\ UNCHANGED due
    /\ UNCHANGED <<laneVars, driving, plan, issued, crashes>>

(* recover_assistant_generation: a request the process did not survive is  *)
(* settled as an interrupted, retryable error.                             *)
RecoverGeneration ==
    /\ Acts("effectPending")
    /\ WriteResponse
    /\ SettleRetryable
    /\ pc' = "check"
    /\ UNCHANGED <<laneVars, preparation, driving, plan, overflowed, issued,
                   crashes>>

TimePasses ==
    /\ op.at = "retryWait"
    /\ ~due
    /\ due' = TRUE
    /\ UNCHANGED <<current, laneVars, tip, op, result, frames,
                   preparation, pc, driving, plan, countVars>>

(* run_retry_wait: the next attempt of the same step, no earlier than      *)
(* not_before.                                                             *)
RetryWait ==
    /\ Acts("retryWait")
    /\ due
    /\ op' = [op EXCEPT !.at = "ready"]
    /\ pc' = "check"
    /\ due' = FALSE
    /\ UNCHANGED <<current, laneVars, tip, result, frames, preparation, driving,
                   plan, countVars>>

(* run_retry_wait for a host that does not wait: WaitingDriveOutcome.      *)
ReturnWaiting ==
    /\ Acts("retryWait")
    /\ ~due
    /\ pc' = "idle"
    /\ driving' = None
    /\ UNCHANGED <<current, laneVars, tip, op, result, frames,
                   preparation, plan, due, countVars>>

-----------------------------------------------------------------------------
(* Tool batches and summaries, as the run sees them                        *)

(* _materialize_outcome: the next result of the batch becomes an entry; the *)
(* last one returns the run to the checkpoint.  A sequential batch goes    *)
(* through the top of the loop after each call, a parallel one need not.   *)
MaterializeOutcome(terminates, sequential) ==
    /\ Acts("tools")
    /\ tip' = tip + 1
    /\ op' = IF op.calls > 1
             THEN [op EXCEPT !.calls = @ - 1]
             ELSE [op EXCEPT !.at = "checkpoint", !.calls = 0, !.used = FALSE,
                             !.trigger = tip + 1,
                             !.next = IF terminates THEN "mayFinish"
                                      ELSE "needAssistant"]
    /\ pc' = IF op.calls > 1 /\ ~sequential THEN "act" ELSE "check"
    /\ UNCHANGED <<current, laneVars, result, frames,
                   preparation, taskVars, countVars>>

(* _publish_outcome for the summary of a run: the compaction entry, the    *)
(* boundary inputs and the state that goes on with the run, or its end.    *)
PublishOutcome(outcome) ==
    LET base == IF outcome = "completed" THEN tip + 1 ELSE tip
        resumes == outcome = "completed"
                       \/ (outcome = "declined" /\ op.reason = "threshold")
        selected == IF resumes
                    THEN BoundaryInbox(outcome = "declined"
                                           /\ op.next = "mayFinish")
                    ELSE {}
        settings == [op EXCEPT !.compacts = @ /\ outcome # "declined",
                               !.reason = "none"]
        continued == base + Cardinality(selected)
    IN  /\ Acts("summary")
        /\ pc' = "check"
        /\ preparation' = FALSE
        /\ PlaceInputs(selected, base)
        /\ tip' = continued
        /\ \/ /\ resumes
              /\ selected # {}
              /\ op' = [settings EXCEPT !.at = "ready", !.trigger = continued,
                            !.used = FALSE, !.attempt = 1,
                            !.next = "needAssistant"]
              /\ issued' = 0
              /\ UNCHANGED <<current, result>>
           \/ /\ resumes
              /\ selected = {}
              /\ op.next = "needAssistant"
              /\ op' = [settings EXCEPT !.at = "ready", !.attempt = 1]
              /\ issued' = 0
              /\ UNCHANGED <<current, result>>
           \/ /\ resumes
              /\ selected = {}
              /\ op.next = "mayFinish"
              /\ op' = [settings EXCEPT !.at = "checkpoint"]
              /\ UNCHANGED <<current, result, issued>>
           \/ /\ ~resumes
              /\ Terminal("failed")
              /\ UNCHANGED issued
        /\ UNCHANGED <<frames, taskVars, overflowed, unsettled, crashes>>

(* _publish_outcome that finds the state changed since it was read: the    *)
(* marker came in between, nothing is written.                             *)
SummaryOvertaken ==
    /\ Acts("summary")
    /\ op.control = "cancel"
    /\ pc' = "check"
    /\ UNCHANGED <<current, laneVars, tip, op, result, frames,
                   preparation, taskVars, countVars>>

-----------------------------------------------------------------------------
(* Abort reconciliation, and the process                                   *)

(* The abort finds a request whose response entry is still owed.           *)
PendingResponse == op.at = "effectPending"

(* reconcile_abort: a pending response is settled as aborted, temporary    *)
(* state goes, the run ends.                                               *)
ReconcileAbort ==
    /\ pc = "reconcile"
    /\ current = driving
    /\ op.control = "cancel"
    /\ IF PendingResponse THEN WriteResponse
       ELSE UNCHANGED <<tip, frames, unsettled>>
    /\ preparation' = (preparation /\ op.at # "summary")
    /\ Terminal("aborted")
    /\ pc' = "idle"
    /\ driving' = None
    /\ UNCHANGED <<laneVars, plan, due, overflowed, issued, crashes>>

(* The process dies or the harness is closed; a new harness is attached    *)
(* without starting work.                                                  *)
Crash ==
    /\ crashes < MaxCrashes
    /\ crashes' = crashes + 1
    /\ pc # "idle"
    /\ pc' = "idle"
    /\ driving' = None
    /\ plan' = NoPlan
    /\ UNCHANGED <<current, laneVars, tip, op, result, frames,
                   preparation, due, overflowed, issued, unsettled>>

-----------------------------------------------------------------------------
Callers ==
    \/ \E k \in InputKinds : Enqueue(k)
    \/ \E i \in Inputs : CancelQueued(i)
    \/ \E o \in Ops, prompts \in 0..1 : Accept(o, prompts)
    \/ RequestAbort

DriveStep ==
    \/ CheckAbort
    \/ ReturnResult
    \/ AbortSignal
    \/ \E injected \in 0..1 : StartRun(injected)
    \/ \E threshold \in BOOLEAN : PrepareCheckpoint(threshold)
    \/ \E followUp \in BOOLEAN : BeforeRunEnd(followUp)
    \/ Checkpoint
    \/ FinishReadyFailure
    \/ PublishGenerationIntent
    \/ SettleResponse
    \/ RecoverGeneration
    \/ RetryWait
    \/ ReturnWaiting
    \/ \E terminates, sequential \in BOOLEAN :
            MaterializeOutcome(terminates, sequential)
    \/ \E outcome \in {"completed", "declined", "failed"} :
            PublishOutcome(outcome)
    \/ SummaryOvertaken
    \/ ReconcileAbort

Next ==
    \/ Callers
    \/ Drive
    \/ DriveStep
    \/ AppendFrame
    \/ TimePasses
    \/ Crash

Spec == Init /\ [][Next]_vars

(* The host drives an open operation again whenever no drive is live, the  *)
(* drive task is scheduled, providers, hooks and tools answer, and time     *)
(* passes.  Nothing forces a caller to queue, cancel or abort.              *)
Fairness ==
    /\ WF_vars(Drive)
    /\ WF_vars(DriveStep)
    /\ WF_vars(TimePasses)

FairSpec == Spec /\ Fairness

-----------------------------------------------------------------------------
(* Properties                                                              *)

(* Every queued input has its pending payload and every payload its queue  *)
(* item: _enqueue, cancel_queued, accept, request_abort and the boundary   *)
(* placements move the two together (operations.md, "Input queues").       *)
InboxBackedByPayload == pending = inbox

(* A queued input is never lost and never used twice: at any time it is    *)
(* waiting, or one entry of the history, or was handed back by             *)
(* cancel_queued or the abort, and exactly one of these.                   *)
InputAccounted ==
    /\ \A i \in Inputs :
        (i <= sent) <=> (i \in inbox \/ place[i] > 0 \/ i \in withdrawn)
    /\ inbox \intersect withdrawn = {}
    /\ \A i \in Inputs : place[i] > 0 => i \notin inbox \union withdrawn

(* Inputs of one kind enter the history in the order they were queued, and *)
(* none overtakes an earlier one still waiting, whichever boundary took     *)
(* them (acceptance, checkpoint, compaction).                              *)
KindFifo ==
    \A i, j \in 1..sent :
        (i < j /\ kind[i] = kind[j] /\ place[j] > 0) =>
            /\ i \notin inbox
            /\ place[i] < place[j]

(* Inputs become distinct entries of the branch below its tip.             *)
DistinctEntries ==
    \A i, j \in Inputs :
        /\ place[i] <= tip
        /\ place[i] > 0 /\ i # j => place[i] # place[j]

(* Every request intent is settled by exactly one response entry, by the   *)
(* stream, by recovery or by the abort, and at most one is outstanding.    *)
RequestSettledOnce ==
    unsettled = (IF op.at = "effectPending" THEN 1 ELSE 0)

(* A step publishes at most max_attempts requests, the ones lost with a    *)
(* process included.                                                       *)
RetryBound == issued <= MaxAttempts

(* pending_assistant_frames exist only under the pending response and      *)
(* operation_preparation only under a summary: no way out of those states, *)
(* terminal ones included, leaves temporary data behind.                   *)
TemporaryStateOwned ==
    /\ frames => op.at = "effectPending"
    /\ preparation <=> op.at = "summary"

(* The checks that would fault the harness do not fail: the stream and the *)
(* checkpoint still own the state they began with, reconciliation finds    *)
(* the marker, and an operation that is gone has left a result.            *)
DriveOwnsState ==
    /\ pc # "idle" /\ current # driving => pc = "check" /\ result[driving] # "none"
    /\ pc = "stream" => op.at = "effectPending"
    /\ pc \in {"hook", "commit"} => op.at = "checkpoint"
    /\ pc = "reconcile" => op.control = "cancel"

(* One overflow recovery per generation trigger (operations.md,            *)
(* "Context-overflow recovery").                                           *)
OverflowOncePerTrigger ==
    [][(op.at = "effectPending" /\ op'.at = "summary")
            => op.trigger \notin overflowed]_vars

(* A run that completes leaves no steer or follow-up behind, also not one  *)
(* queued while its last hook ran: run_checkpoint reads the inbox again in *)
(* the transaction that ends the run.                                      *)
CompletedRunTookInput ==
    [][\A o \in Ops :
            (result[o] = "none" /\ result'[o] = "completed")
                => \A i \in inbox' : kind[i] = "nextRun"]_vars

(* An accepted run that is driven whenever the process lives ends, through *)
(* retries, recoveries, compactions and aborts: "Accepted work can be      *)
(* resumed from its complete durable state" (operations.md).               *)
OpenRunSettles == (current # None) ~> (current = None)

(* "Items enqueued after the abort marker remain queued" (operations.md):  *)
(* they leave the inbox of a marked run only by cancel_queued.             *)
InputKeptAfterMarker ==
    [][(current # None /\ op.control = "cancel")
            => \A i \in inbox : i \in inbox' \/ i \in withdrawn']_vars

(* RunLane implements DurableOperation.                                    *)
Operation == INSTANCE DurableOperation WITH
    cancelled <- op.control = "cancel"

(* The lane is exclusive, an operation id is accepted once, its marker is  *)
(* not withdrawn and its single result is final.                           *)
ImplementsOperation == Operation!Spec

(* What the runs check of the queues, together: an input is never lost,    *)
(* doubled or handed back and placed both; its payload lives as long as    *)
(* it waits; inputs of a kind enter the history in order, each as an entry *)
(* of its own.                                                             *)
InputsKept ==
    TypeOK /\ InboxBackedByPayload /\ InputAccounted /\ KindFifo /\ DistinctEntries

(* What they check of effects, together: retries stay in their budget, a   *)
(* trigger is compacted for at most once, across any number of restarts,   *)
(* and a run that completes leaves nothing queued that was meant for it.   *)
EffectsBounded ==
    []RetryBound /\ OverflowOncePerTrigger /\ CompletedRunTookInput

(* And of the stored state: a response is owed exactly while the state     *)
(* says so, whoever settles the request; what is temporary belongs to the  *)
(* step that is under way; and the drive still owns what it read before an *)
(* await.                                                                  *)
StateOwned == RequestSettledOnce /\ TemporaryStateOwned /\ DriveOwnsState

=============================================================================

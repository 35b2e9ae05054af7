---------------------------- MODULE SummaryTask ----------------------------
(***************************************************************************)
(* Structural operations on one AgentLane: explicit compaction and         *)
(* navigation with or without a summary.  A summary has its durable        *)
(* preparation, a decision by a hook, one or two provider requests with an *)
(* intent and a usage settlement each, a bounded retry, and one            *)
(* transaction that publishes its outcome.                                 *)
(*                                                                         *)
(* The drive reads a state, works outside the Session line, and publishes  *)
(* only if the stored state still equals what it read.  One action is one  *)
(* transaction or what happens between two suspensions, so that an abort   *)
(* marker or the loss of the process may come in between.                  *)
(*                                                                         *)
(* Abstractions.  What a summary says, its preparation's content, labels,  *)
(* and the usage of summaries that a hook provides.  Who waits for whom in *)
(* an abort is DriveOwnership's; here a request runs through its phases.   *)
(* The compaction inside a run shares this code; RunLane has it as one     *)
(* outcome.                                                                *)
(***************************************************************************)
EXTENDS Integers, FiniteSets, Sequences

CONSTANTS
    Ops,          \* operation ids
    None,         \* "no operation"
    MaxAttempts,  \* GenerationRetryPolicy.max_attempts
    MaxCrashes    \* bound: processes lost in a behaviour

ASSUME SummaryTaskAssumption ==
    /\ None \notin Ops
    /\ MaxAttempts \in Nat \ {0}
    /\ MaxCrashes \in Nat

VARIABLES
    \* durable
    current,      \* LaneState.current_operation_id
    meta,         \* operation_meta; the result keeps its kind and source
    op,           \* operation_state of the open operation
    preparation,  \* its operation_preparation exists
    result,       \* operation_result's status
    resultTip,    \* operation_result's tip_id
    history,      \* the entries, an id being an index
    tip,          \* branch_tip, 0 being the root
    \* the process
    driving,      \* operation of the live drive task
    pc,           \* where that task stands
    held,         \* the state its step read or wrote last
    outcome,      \* what it is about to publish, or what was answered
    abort,        \* the request_abort that met this drive
    due,          \* the clock has reached not_before
    faulted,      \* Harness._fault_error
    \* history
    issued,       \* requests of the open operation whose intent was committed
    settled,      \* requests of the open operation whose usage was
    crashes       \* processes lost so far

durableVars == <<current, meta, op, preparation, result, resultTip, history,
                 tip>>
countVars == <<issued, settled, crashes>>
vars == <<durableVars, driving, pc, held, outcome, abort, due, faulted,
          countVars>>

Statuses == {"completed", "declined", "failed", "aborted"}
SummaryStates == {"deciding", "ready", "effectPending", "retryWait"}

(* An OperationState: attempt is the attempt under way or to come, request *)
(* the index of the pending provider request, answers the number of usages *)
(* this attempt has settled.                                               *)
OpStates ==
    [at : SummaryStates \union {"none", "navigate"},
     control : {"running", "cancel"},
     attempt : 0..MaxAttempts,
     request : 0..2,
     answers : 0..2]

NoState ==
    [at |-> "none", control |-> "running", attempt |-> 0, request |-> 0,
     answers |-> 0]

(* Its intent and source tip; requests is what its preparation takes: two  *)
(* where compaction splits a turn.                                         *)
NoMeta ==
    [kind |-> "none", source |-> 0, target |-> 0, requests |-> 0]

(* A branch that forks after its first entry, the tip on one side of it.   *)
Forked ==
    [e \in 1..3 |-> [parent |-> IF e = 1 THEN 0 ELSE 1, type |-> "message",
                     fromHook |-> FALSE, usages |-> 0]]

TypeOK ==
    /\ current \in Ops \union {None}
    /\ meta \in [Ops -> [kind : {"none", "compaction", "navigation"},
                         source : 0..Len(history), target : 0..Len(history),
                         requests : 0..2]]
    /\ op \in OpStates
    /\ preparation \in BOOLEAN
    /\ result \in [Ops -> Statuses \union {"none"}]
    /\ resultTip \in [Ops -> 0..Len(history)]
    /\ history \in Seq([parent : 0..Len(history), fromHook : BOOLEAN,
                        type : {"message", "compaction", "branchSummary"},
                        usages : 0..2])
    /\ \A e \in DOMAIN history : history[e].parent < e
    /\ tip \in 0..Len(history)
    /\ driving \in Ops \union {None}
    /\ pc \in {"idle", "check", "act", "hook", "decided", "prepare", "request",
               "requestHook", "intent", "admit", "stream", "answered",
               "publish", "wait", "recover", "navigate", "await", "reconcile"}
    /\ held \in OpStates
    /\ outcome \in {"none", "summary", "hookSummary", "declined", "retry",
                    "failed"}
    /\ abort \in {"none", "sealed", "marked", "done"}
    /\ due \in BOOLEAN
    /\ faulted \in BOOLEAN
    /\ issued \subseteq (1..MaxAttempts) \X (1..2)
    /\ settled \subseteq issued
    /\ crashes \in 0..MaxCrashes

Init ==
    /\ current = None
    /\ meta = [o \in Ops |-> NoMeta]
    /\ op = NoState
    /\ preparation = FALSE
    /\ result = [o \in Ops |-> "none"]
    /\ resultTip = [o \in Ops |-> 0]
    /\ history = Forked
    /\ tip = 2
    /\ driving = None
    /\ pc = "idle"
    /\ held = NoState
    /\ outcome = "none"
    /\ abort = "none"
    /\ due = FALSE
    /\ faulted = FALSE
    /\ issued = {}
    /\ settled = {}
    /\ crashes = 0

-----------------------------------------------------------------------------
(* Acceptance and abort                                                    *)

(* Operation ids are fresh: the generator's are, and what a reused one does *)
(* is RunLane's question.                                                  *)
Accepts(o) ==
    /\ ~faulted
    /\ current = None
    /\ result[o] = "none"
    /\ current' = o
    /\ issued' = {}
    /\ settled' = {}
    /\ UNCHANGED <<result, resultTip, history, tip, driving, pc, held, outcome,
                   abort, due, faulted, crashes>>

(* _accept_compaction: there must be something after the last compaction.  *)
AcceptCompaction(o, requests) ==
    /\ tip # 0
    /\ history[tip].type # "compaction"
    /\ meta' = [meta EXCEPT ![o] =
                    [kind |-> "compaction", source |-> tip, target |-> 0,
                     requests |-> requests]]
    /\ op' = [NoState EXCEPT !.at = "deciding"]
    /\ preparation' = TRUE
    /\ Accepts(o)

(* _accept_navigation                                                      *)
AcceptNavigation(o, target, summarize) ==
    /\ target # tip
    /\ summarize => tip # 0 /\ target # 0
    /\ meta' = [meta EXCEPT ![o] =
                    [kind |-> "navigation", source |-> tip, target |-> target,
                     requests |-> 1]]
    /\ op' = [NoState EXCEPT !.at = IF summarize THEN "deciding"
                                    ELSE "navigate"]
    /\ preparation' = summarize
    /\ Accepts(o)

(* The transaction of request_abort                                        *)
Mark ==
    /\ current # None
    /\ op.control = "running"
    /\ op' = [op EXCEPT !.control = "cancel"]
    /\ UNCHANGED <<current, meta, preparation, result, resultTip, history, tip,
                   driving, pc, held, outcome, due, faulted, countVars>>

(* request_abort with no drive to seal.                                    *)
RequestAbort ==
    /\ ~faulted
    /\ pc = "idle"
    /\ abort = "none"
    /\ Mark
    /\ UNCHANGED abort

(* request_abort while the drive is live: it closes the admission of       *)
(* effects, commits the marker, and signals the drive once its events are  *)
(* delivered.                                                              *)
SealDrive ==
    /\ ~faulted
    /\ pc # "idle"
    /\ current = driving
    /\ op.control = "running"
    /\ abort = "none"
    /\ abort' = "sealed"
    /\ UNCHANGED <<durableVars, driving, pc, held, outcome, due, faulted,
                   countVars>>

MarkSealed ==
    /\ abort = "sealed"
    /\ Mark
    /\ abort' = "marked"

SignalDrive ==
    /\ abort = "marked"
    /\ abort' = "done"
    /\ UNCHANGED <<durableVars, driving, pc, held, outcome, due, faulted,
                   countVars>>

-----------------------------------------------------------------------------
(* The drive loop                                                          *)

(* A step of the drive that writes nothing.                                *)
Move(point) ==
    /\ pc' = point
    /\ UNCHANGED <<durableVars, driving, abort, due, faulted, countVars>>

(* What a step of the drive knows ends with it.                            *)
StepEnds == held' = NoState /\ outcome' = "none"

(* Mutant: a marked operation is not driven again.                         *)
MutDriveUnmarked ==
    /\ ~faulted
    /\ pc = "idle"
    /\ current # None
    /\ op.control = "running"
    /\ abort # "sealed"
    /\ driving' = current
    /\ pc' = "check"
    /\ abort' = "none"
    /\ UNCHANGED <<durableVars, held, outcome, due, faulted, countVars>>

(* AgentLane.drive; a request still in the line is served before the new   *)
(* task's first look.                                                      *)
Drive ==
    /\ ~faulted
    /\ pc = "idle"
    /\ current # None
    /\ abort # "sealed"
    /\ driving' = current
    /\ pc' = "check"
    /\ abort' = "none"
    /\ UNCHANGED <<durableVars, held, outcome, due, faulted, countVars>>

(* The top of drive_operation's loop                                       *)
CheckAbort ==
    /\ pc = "check"
    /\ current = driving
    /\ Move(IF op.control = "cancel" THEN "reconcile" ELSE "act")
    /\ UNCHANGED <<held, outcome>>

ReturnResult ==
    /\ pc = "check"
    /\ current # driving
    /\ pc' = "idle"
    /\ driving' = None
    /\ UNCHANGED <<durableVars, held, outcome, abort, due, faulted, countVars>>

(* admit_effect raises _AbortRequested.                                    *)
AdmissionClosed == abort # "none"

(* drive_operation's dispatch: where the step of a state starts.           *)
StepOf ==
    [deciding |-> "hook", ready |-> "prepare", effectPending |-> "recover",
     retryWait |-> "wait", navigate |-> "navigate"]

(* The step of a state begins with reading it again; the hook of a         *)
(* decision is an effect.                                                  *)
Read ==
    /\ pc = "act"
    /\ held' = op
    /\ UNCHANGED outcome
    /\ Move(IF op.at = "deciding" /\ AdmissionClosed THEN "await"
            ELSE StepOf[op.at])

(* Context.raise_if_cancelled and cancel_on_context.                       *)
Interrupted ==
    /\ abort = "done"
    /\ pc \in {"hook", "requestHook", "stream"} \/ (pc = "wait" /\ ~due)
    /\ Move("await")
    /\ StepEnds

(* The stored state is still what the drive read or wrote last.            *)
MutOwnedStep(capability) ==
    [op EXCEPT !.control = "running"] = [capability EXCEPT !.control = "running"]

Owned(capability) == op = capability

-----------------------------------------------------------------------------
(* Publication                                                             *)

(* Mutant: the lane keeps its operation.                                   *)
MutLaneKept(status, newTip) ==
    /\ result' = [result EXCEPT ![current] = status]
    /\ resultTip' = [resultTip EXCEPT ![current] = newTip]
    /\ op' = NoState
    /\ abort' = "none"
    /\ UNCHANGED current

(* terminal_writes; a request_abort still under way finds no operation.    *)
Terminal(status, newTip) ==
    /\ result' = [result EXCEPT ![current] = status]
    /\ resultTip' = [resultTip EXCEPT ![current] = newTip]
    /\ op' = NoState
    /\ current' = None
    /\ abort' = "none"

(* The parent of the entry a summary becomes.                              *)
Parent == IF meta[current].kind = "navigation" THEN meta[current].target
          ELSE tip

(* _publish_outcome with a CompactResult or a BranchSummaryResult          *)
PublishSummary(fromHook) ==
    /\ history' = Append(history,
            [parent |-> Parent, fromHook |-> fromHook, usages |-> op.answers,
             type |-> IF meta[current].kind = "navigation"
                      THEN "branchSummary" ELSE "compaction"])
    /\ tip' = Len(history) + 1
    /\ preparation' = FALSE
    /\ Terminal("completed", Len(history) + 1)
    /\ UNCHANGED due

(* _publish_outcome with an error or None: the tip stays.                  *)
PublishEnd(status) ==
    /\ preparation' = FALSE
    /\ Terminal(status, tip)
    /\ UNCHANGED <<history, tip, due>>

(* _schedule_retry                                                         *)
ScheduleRetry ==
    /\ op' = [op EXCEPT !.at = "retryWait", !.attempt = @ + 1,
                        !.request = 0, !.answers = 0]
    /\ due' = FALSE
    /\ UNCHANGED <<current, preparation, result, resultTip, history, tip, abort>>

(* The transaction that ends the drive's step, if it still owns the state; *)
(* otherwise nothing is written.                                           *)
Publish ==
    /\ pc = "publish"
    /\ pc' = "check"
    /\ IF Owned(held)
       THEN \/ outcome = "summary" /\ PublishSummary(FALSE)
            \/ outcome = "hookSummary" /\ PublishSummary(TRUE)
            \/ outcome \in {"declined", "failed"} /\ PublishEnd(outcome)
            \/ outcome = "retry" /\ ScheduleRetry
       ELSE UNCHANGED <<current, op, preparation, result, resultTip, history,
                        tip, abort, due>>
    /\ StepEnds
    /\ UNCHANGED <<meta, driving, faulted, countVars>>

(* The step is decided; what remains is its publication.                   *)
Decide(o) ==
    /\ outcome' = o
    /\ Move("publish")

-----------------------------------------------------------------------------
(* The decision                                                            *)

(* before_compaction and before_navigation: decline, a summary, or neither. *)
HookDecides(decision) ==
    /\ pc = "hook"
    /\ abort # "done"
    /\ IF decision = "none"
       THEN outcome' = "none" /\ Move("decided")
       ELSE Decide(decision)
    /\ UNCHANGED held

(* run_structural_decision's publish, which takes the control it finds.    *)
PublishReady ==
    /\ pc = "decided"
    /\ op' = [op EXCEPT !.at = "ready", !.attempt = 1]
    /\ pc' = "check"
    /\ StepEnds
    /\ UNCHANGED <<current, meta, preparation, result, resultTip, history, tip,
                   driving, abort, due, faulted, countVars>>

-----------------------------------------------------------------------------
(* Generation                                                              *)

ModelUnavailable ==
    /\ pc = "prepare"
    /\ Decide("failed")
    /\ UNCHANGED held

(* _publish_effect_intent                                                  *)
PublishEffectIntent ==
    /\ pc = "prepare"
    /\ op' = [op EXCEPT !.at = "effectPending", !.request = 0, !.answers = 0]
    /\ held' = op'
    /\ pc' = "request"
    /\ UNCHANGED <<current, meta, preparation, result, resultTip, history, tip,
                   driving, outcome, abort, due, faulted, countVars>>

(* before_request's admission, the hook, and the admission of the stream   *)
AdmitRequest ==
    /\ pc \in {"request", "admit"}
    /\ \/ AdmissionClosed /\ Move("await") /\ StepEnds
       \/ /\ ~AdmissionClosed
          /\ Move(IF pc = "request" THEN "requestHook" ELSE "stream")
          /\ UNCHANGED <<held, outcome>>

RequestHookReturns ==
    /\ pc = "requestHook"
    /\ abort # "done"
    /\ Move("intent")
    /\ UNCHANGED <<held, outcome>>

(* A publication inside lane.mutate that raises: the harness faults and    *)
(* the drive ends.                                                         *)
Fault ==
    /\ faulted' = TRUE
    /\ pc' = "idle"
    /\ driving' = None
    /\ StepEnds
    /\ UNCHANGED <<op, issued, settled>>

(* _publish_request_intent                                                 *)
PublishRequestIntent ==
    /\ pc = "intent"
    /\ IF Owned(held)
       THEN /\ op' = [op EXCEPT !.request = op.answers + 1]
            /\ held' = op'
            /\ issued' = issued \union {<<op.attempt, op.answers + 1>>}
            /\ pc' = "admit"
            /\ UNCHANGED <<driving, outcome, faulted, settled>>
       ELSE Fault
    /\ UNCHANGED <<current, meta, preparation, result, resultTip, history, tip,
                   abort, due, crashes>>

(* The provider answers with a summary or an error message.                *)
Answer(response) ==
    /\ pc = "stream"
    /\ abort # "done"
    /\ outcome' = response
    /\ Move("answered")
    /\ UNCHANGED held

(* Mutant: the settled request stays pending.                              *)
MutRequestKept == [op EXCEPT !.answers = @ + 1]

RequestSettled == [op EXCEPT !.request = 0, !.answers = @ + 1]

(* _publish_request_outcome, and where run_structural_generation goes on:  *)
(* a second request, another attempt, or the outcome.                      *)
PublishRequestOutcome ==
    /\ pc = "answered"
    /\ IF Owned(held)
       THEN /\ op' = RequestSettled
            /\ held' = op'
            /\ settled' = settled \union {<<op.attempt, op.request>>}
            /\ IF outcome = "summary" /\ op.answers + 1 < meta[current].requests
               THEN pc' = "request"
               ELSE pc' = "publish"
            /\ outcome' = IF outcome = "retry" /\ op.attempt >= MaxAttempts
                          THEN "failed" ELSE outcome
            /\ UNCHANGED <<driving, faulted, issued>>
       ELSE Fault
    /\ UNCHANGED <<current, meta, preparation, result, resultTip, history, tip,
                   abort, due, crashes>>

(* recover_structural_generation: the attempt that was lost counts.        *)
Recovered == IF held.attempt >= MaxAttempts THEN "failed" ELSE "retry"

RecoverGeneration ==
    /\ pc = "recover"
    /\ Decide(Recovered)
    /\ UNCHANGED held

-----------------------------------------------------------------------------
(* Retry, navigation, reconciliation, and the process                      *)

TimePasses ==
    /\ op.at = "retryWait"
    /\ ~due
    /\ due' = TRUE
    /\ UNCHANGED <<durableVars, driving, pc, held, outcome, abort, faulted,
                   countVars>>

(* run_structural_retry_wait: before not_before it waits, under admission, *)
(* or returns to a host that does not.                                     *)
AwaitRetry ==
    /\ pc = "wait"
    /\ ~due
    /\ \/ AdmissionClosed /\ pc' = "await" /\ UNCHANGED driving
       \/ pc' = "idle" /\ driving' = None
    /\ StepEnds
    /\ UNCHANGED <<durableVars, abort, due, faulted, countVars>>

RetryAgain ==
    /\ pc = "wait"
    /\ due
    /\ IF Owned(held)
       THEN op' = [op EXCEPT !.at = "ready"] /\ due' = FALSE
       ELSE UNCHANGED <<op, due>>
    /\ pc' = "check"
    /\ StepEnds
    /\ UNCHANGED <<current, meta, preparation, result, resultTip, history, tip,
                   driving, abort, faulted, countVars>>

(* commit_navigation                                                       *)
CommitNavigation ==
    /\ pc = "navigate"
    /\ pc' = "check"
    /\ IF Owned(held)
       THEN /\ tip' = meta[current].target
            /\ Terminal("completed", meta[current].target)
       ELSE UNCHANGED <<current, op, result, resultTip, tip, abort>>
    /\ StepEnds
    /\ UNCHANGED <<meta, preparation, history, driving, due, faulted,
                   countVars>>

(* await abort.settled in _drive_owned                                     *)
AbortSettles ==
    /\ pc = "await"
    /\ abort = "done"
    /\ Move("reconcile")
    /\ UNCHANGED <<held, outcome>>

(* The states whose preparation reconcile_abort deletes.                   *)
Removes == SummaryStates

(* reconcile_abort                                                         *)
ReconcileAbort ==
    /\ pc = "reconcile"
    /\ op.control = "cancel"
    /\ preparation' = (preparation /\ op.at \notin Removes)
    /\ Terminal("aborted", tip)
    /\ pc' = "idle"
    /\ driving' = None
    /\ UNCHANGED <<meta, history, tip, held, outcome, due, faulted, countVars>>

(* The process is lost, or the host replaces a faulted harness.            *)
Crash ==
    /\ crashes < MaxCrashes
    /\ crashes' = crashes + 1
    /\ pc # "idle" \/ faulted
    /\ pc' = "idle"
    /\ driving' = None
    /\ StepEnds
    /\ abort' = "none"
    /\ faulted' = FALSE
    /\ UNCHANGED <<durableVars, due, issued, settled>>

-----------------------------------------------------------------------------
DriveStep ==
    \/ CheckAbort
    \/ ReturnResult
    \/ Read
    \/ Interrupted
    \/ Publish
    \/ \E decision \in {"none", "declined", "hookSummary"} :
            HookDecides(decision)
    \/ PublishReady
    \/ ModelUnavailable
    \/ PublishEffectIntent
    \/ AdmitRequest
    \/ RequestHookReturns
    \/ PublishRequestIntent
    \/ \E response \in {"summary", "retry", "failed"} : Answer(response)
    \/ PublishRequestOutcome
    \/ RecoverGeneration
    \/ AwaitRetry
    \/ RetryAgain
    \/ CommitNavigation
    \/ AbortSettles
    \/ ReconcileAbort

Next ==
    \/ \E o \in Ops :
        \/ \E requests \in 1..2 : AcceptCompaction(o, requests)
        \/ \E target \in 0..Len(history), summarize \in BOOLEAN :
                AcceptNavigation(o, target, summarize)
    \/ RequestAbort
    \/ SealDrive
    \/ MarkSealed
    \/ SignalDrive
    \/ Drive
    \/ DriveStep
    \/ TimePasses
    \/ Crash

Spec == Init /\ [][Next]_vars

(* The host drives an open operation again whenever no drive is live; the  *)
(* drive and the request are scheduled, providers and hooks answer, and    *)
(* time passes.  Nothing forces an abort.                                  *)
FairSpec ==
    /\ Spec
    /\ WF_vars(Drive)
    /\ WF_vars(DriveStep)
    /\ WF_vars(MarkSealed)
    /\ WF_vars(SignalDrive)
    /\ WF_vars(TimePasses)

-----------------------------------------------------------------------------
(* Properties                                                              *)

(* The preparation exists exactly while a summary is under way: every step *)
(* that reads it finds it, and no way out, the abort included, leaves it.  *)
PreparationOwned == preparation <=> op.at \in SummaryStates

(* The history a result speaks of: "Abort preserves the source tip"        *)
(* (operations.md), and so do a refusal and a failure; a compaction extends *)
(* the source, a branch summary the target, and a summary that no hook gave *)
(* sums the settled usages of all its requests.                            *)
ResultMatchesHistory ==
    \A o \in Ops :
        LET e == resultTip[o]
        IN  /\ result[o] \in Statuses \ {"completed"} => e = meta[o].source
            /\ result[o] = "completed" =>
                \/ meta[o].kind = "navigation" /\ e = meta[o].target
                \/ /\ history[e].type # "message"
                   /\ history[e].parent = IF meta[o].kind = "navigation"
                                          THEN meta[o].target
                                          ELSE meta[o].source
                   /\ history[e].fromHook
                        \/ history[e].usages = meta[o].requests

(* Every request of the attempt under way is settled by its usage once, or *)
(* is the one pending request (operations.md, "its own intent and usage    *)
(* settlement").                                                           *)
RequestsAccounted ==
    op.at = "effectPending" =>
        \A i \in 1..2 :
            LET r == <<op.attempt, i>>
            IN  /\ r \in settled <=> i <= op.answers
                /\ r \in issued \ settled <=> i = op.request

(* "steer/abort races respect atomic publication" (invariants.md): what a  *)
(* drive decided before the marker is not published over it.               *)
MarkerWins ==
    [][(op.control = "cancel" /\ held.control = "running" /\ current' # current)
            => result'[current] = "aborted"]_vars

(* An accepted structural operation that is driven ends, unless the        *)
(* harness faulted.                                                        *)
OpenSummarySettles == current # None ~> (current = None \/ faulted)

(* "Caller cancellation, durable abort, close, and storage fault remain    *)
(* distinct" (invariants.md): no storage fails here, so nothing faults.    *)
AbortIsNoFault == ~faulted

(* Structural operations implement DurableOperation.                       *)
Operation == INSTANCE DurableOperation WITH
    cancelled <- op.control = "cancel"

ImplementsOperation == Operation!Spec

(* What is stored of a summary, together: its preparation exactly while it *)
(* is under way, each request accounted for once, and a result that agrees *)
(* with the history.                                                       *)
SummaryAccounted ==
    TypeOK /\ PreparationOwned /\ RequestsAccounted /\ ResultMatchesHistory

=============================================================================

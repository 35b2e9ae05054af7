------------------------------ MODULE ToolBatch ------------------------------
(***************************************************************************)
(* One tool batch of one run: run_tools, its per-call tasks, and what they *)
(* leave in the Session, through drives, aborts, crashes and drives that   *)
(* were lost while some of their tasks went on.                            *)
(*                                                                         *)
(* A transaction on the Session line is one action; so is what happens     *)
(* between two suspensions of a task.  Task p of drive d is worker[d][p]:  *)
(* p \in Calls is run_call(p), p = 0 is the drive's own call of            *)
(* materialize_ready_prefix.                                               *)
(*                                                                         *)
(* Abstractions.  The arguments, the result and the progress snapshots are *)
(* left out; a snapshot is known by the execution that wrote it.  What     *)
(* _resolve_tool finds is a free choice each time, since the registry may  *)
(* be replaced.  Memos have the owner of the progress snapshot and only    *)
(* their refused write is modelled.  Whether the results terminate the run is RunLane's, and a *)
(* failed commit is DriveOwnership's.                                      *)
(***************************************************************************)
EXTENDS Integers, Sequences, FiniteSets, SequencesExt

CONSTANTS
    NumCalls,    \* tool calls of the assistant message
    MaxMishaps   \* bound: crashes, and drives that end because a tool raised
                 \* CancelledError

ASSUME ToolBatchAssumption ==
    /\ NumCalls \in Nat \ {0}
    /\ MaxMishaps \in Nat

VARIABLES
    \* durable
    at,          \* the operation: "tools", "checkpoint", "none" when reconciled
    marked,      \* its control is CancelRequestedControl
    mode,        \* RunSettings.tool_execution
    call,        \* ToolBatch.calls
    branch,      \* the results on the branch, as their calls
    args,        \* calls with operation_tool_args
    staged,      \* calls with pending_entry
    output,      \* pending_tool_output, as the execution that wrote it; 0 none
    \* the process
    drive,       \* the last drive task of this process, 0 when there is none
    pc,          \* where it is; "idle" when it is done
    worker,      \* its tasks and those earlier drives left behind
    reason,      \* what each drive's context was cancelled with
    closed,      \* _effect_admission_closed_for is this operation
    req,         \* request_abort
    seals,       \* its seals_active_drive
    faulted,     \* HarnessFault
    \* history
    attempts,    \* executions of each call's tool
    lost,
    crashes

storedVars == <<at, mode, call, branch, args, staged, output>>
taskVars == <<drive, pc, worker>>
abortVars == <<marked, reason, closed, req, seals>>
historyVars == <<attempts, lost, crashes>>
vars == <<storedVars, taskVars, abortVars, faulted, historyVars>>

Calls == 1..NumCalls
Drives == 1..(MaxMishaps + 1)
Tasks == 0..NumCalls
Replays == {"never", "safe"}

-----------------------------------------------------------------------------
(* Values                                                                  *)

(* ToolCallState: a status without a replay declaration has "none".        *)
Planned == [at |-> "planned", replay |-> "none"]
EffectPending(r) == [at |-> "pending", replay |-> r]
OutcomeReady == [at |-> "ready", replay |-> "none"]
Completed == [at |-> "completed", replay |-> "none"]

ToolCallStates == {Planned, OutcomeReady, Completed}
                      \union {EffectPending(r) : r \in Replays}

(* A task: where it is, the call state it expects (_replace_call), the     *)
(* execution it runs, and the call whose outcome it is about to place.     *)
TaskStates ==
    [at : {"none", "hook", "publish", "admit", "exec", "after", "stage",
           "recover", "place", "insert"},
     expected : ToolCallStates, run : Nat, target : Tasks]

NoTask == [at |-> "none", expected |-> Planned, run |-> 0, target |-> 0]
Placing == [NoTask EXCEPT !.at = "place"]

NoTasks == [d \in Drives |-> [p \in Tasks |-> NoTask]]

Init ==
    /\ at = "tools"
    /\ marked = FALSE
    /\ mode \in {"parallel", "sequential"}
    /\ call = [c \in Calls |-> Planned]
    /\ branch = <<>>
    /\ args = {}
    /\ staged = {}
    /\ output = [c \in Calls |-> 0]
    /\ drive = 0
    /\ pc = "idle"
    /\ worker = NoTasks
    /\ reason = [d \in Drives |-> "none"]
    /\ closed = FALSE
    /\ req = "idle"
    /\ seals = FALSE
    /\ faulted = FALSE
    /\ attempts = [c \in Calls |-> 0]
    /\ lost = 0
    /\ crashes = 0

(* A task is started, goes on, or is done.                                 *)
Move(d, p, t) == worker' = [worker EXCEPT ![d][p] = t]

-----------------------------------------------------------------------------
(* The drive                                                               *)

(* AgentLane.drive: a new task and a new scope open admission again.       *)
Resume ==
    /\ pc = "idle"
    /\ at = "tools"
    /\ ~faulted
    /\ drive < MaxMishaps + 1
    /\ drive' = drive + 1
    /\ pc' = "top"
    /\ closed' = FALSE
    /\ UNCHANGED <<storedVars, worker, marked, reason, req, seals, faulted,
                   historyVars>>

(* The top of drive_operation's loop: the durable marker is looked at      *)
(* between two steps, and a run that left the batch goes on elsewhere.     *)
CheckAbort ==
    /\ pc = "top"
    /\ pc' = IF marked THEN "reconcile"
             ELSE IF at = "tools" THEN "enter" ELSE "idle"
    /\ UNCHANGED <<storedVars, drive, worker, abortVars, faulted, historyVars>>

(* run_tools up to its first materialize_ready_prefix.                     *)
EnterBatch ==
    /\ pc = "enter"
    /\ pc' = "prefix"
    /\ Move(drive, 0, Placing)
    /\ UNCHANGED <<storedVars, drive, abortVars, faulted, historyVars>>

(* Mutant: what a crash left pending is not taken up again.                *)
MutOnlyPlanned == {c \in Calls : call[c].at = "planned"}

Unfinished == {c \in Calls : call[c].at \in {"planned", "pending"}}

(* Which calls run_tools starts tasks for: all, or the first one.          *)
Started ==
    IF mode = "parallel" THEN Unfinished
    ELSE {c \in Unfinished : \A b \in Unfinished : c <= b}

(* run_tools after it: one task for each unfinished call.                  *)
StartCalls ==
    /\ pc = "prefix"
    /\ worker[drive][0] = NoTask
    /\ IF at # "tools"
       THEN pc' = "top" /\ UNCHANGED worker
       ELSE /\ pc' = "gather"
            /\ worker' = [worker EXCEPT ![drive] =
                   [p \in Tasks |->
                       IF p \in Started
                       THEN [NoTask EXCEPT
                                !.at = IF call[p].at = "planned" THEN "hook"
                                       ELSE "recover",
                                !.expected = call[p]]
                       ELSE NoTask]]
    /\ UNCHANGED <<storedVars, drive, abortVars, faulted, historyVars>>

(* gather is done: a parallel batch places what is ready once more.        *)
CallsDone ==
    /\ pc = "gather"
    /\ \A c \in Calls : worker[drive][c] = NoTask
    /\ IF mode = "parallel"
       THEN pc' = "suffix" /\ Move(drive, 0, Placing)
       ELSE pc' = "top" /\ UNCHANGED worker
    /\ UNCHANGED <<storedVars, drive, abortVars, faulted, historyVars>>

LeaveBatch ==
    /\ pc = "suffix"
    /\ worker[drive][0] = NoTask
    /\ pc' = "top"
    /\ UNCHANGED <<storedVars, drive, worker, abortVars, faulted, historyVars>>

(* reconcile_abort for ToolsOperation.                                     *)
ReconcileAbort ==
    /\ \/ pc = "reconcile"
       \/ pc = "aborting" /\ req = "done"      \* await abort.settled
    /\ pc' = "idle"
    /\ at' = "none"
    /\ args' = {}
    /\ output' = [c \in Calls |-> 0]
    /\ staged' = {}
    /\ UNCHANGED <<mode, call, branch, drive, worker, abortVars, faulted,
                   historyVars>>

-----------------------------------------------------------------------------
(* Tasks                                                                   *)

(* _on_fault: the harness is sealed and the last drive's context cancelled. *)
Fault ==
    /\ faulted' = TRUE
    /\ reason' = [d \in Drives |->
                     IF d = drive /\ reason[d] = "none" THEN "fault"
                     ELSE reason[d]]
    /\ UNCHANGED <<marked, closed, req, seals>>

(* A task raises.  gather raises the first failure in the drive task and   *)
(* leaves the siblings running; a task left behind raises to nobody.       *)
Fail(d, p, why) ==
    /\ Move(d, p, NoTask)
    /\ \/ /\ d # drive \/ pc \notin {"prefix", "gather", "suffix"}
          /\ UNCHANGED <<pc, abortVars, faulted, lost>>
       \/ /\ d = drive /\ pc \in {"prefix", "gather", "suffix"}
          /\ \/ /\ why = "abort"
                /\ pc' = "aborting"
                /\ UNCHANGED <<abortVars, faulted, lost>>
             \/ /\ why = "cancelled"
                /\ pc' = "idle"
                /\ lost' = lost + 1
                /\ UNCHANGED <<abortVars, faulted>>
             \/ /\ why \notin {"abort", "cancelled"}
                /\ pc' = "idle"
                /\ Fault
                /\ UNCHANGED lost
    /\ UNCHANGED <<storedVars, drive, attempts, crashes>>

(* Context.raise_if_cancelled                                              *)
RaiseIfCancelled(d, p) == reason[d] # "none" /\ Fail(d, p, reason[d])

(* _replace_call: the call is still in the state the task started from.    *)
Expected(d, c) == at = "tools" /\ call[c] = worker[d][c].expected

(* _start_planned_call up to its intent: an unavailable tool and invalid   *)
(* arguments are refused; the before_tool hook may block the call.         *)
BeforeTool(d, c) ==
    LET w == worker[d][c] IN
    /\ w.at = "hook"
    /\ \/ RaiseIfCancelled(d, c)
       \/ /\ \/ Move(d, c, [w EXCEPT !.at = "stage"])
             \/ /\ reason[d] = "none"
                /\ Move(d, c, [w EXCEPT !.at = "publish"])
          /\ UNCHANGED <<storedVars, drive, pc, abortVars, faulted,
                         historyVars>>

(* _publish_tool_intent, with the replay declaration of the tool it found. *)
PublishToolIntent(d, c) ==
    /\ worker[d][c].at = "publish"
    /\ IF ~Expected(d, c)
       THEN Fail(d, c, "error")
       ELSE /\ \E r \in Replays :
                  /\ call' = [call EXCEPT ![c] = EffectPending(r)]
                  /\ Move(d, c, [NoTask EXCEPT !.at = "admit",
                                               !.expected = EffectPending(r)])
            /\ args' = args \union {c}
            /\ UNCHANGED <<at, mode, branch, staged, output, drive,
                           pc, abortVars, faulted, historyVars>>

(* admit_effect and the start of the tool.  The abort of a closed          *)
(* admission is an ordinary exception to _execute_tool: it becomes an      *)
(* error result.                                                           *)
Admission(d, c) ==
    LET w == worker[d][c] IN
    /\ IF closed
       THEN /\ Move(d, c, [w EXCEPT !.at = "after"])
            /\ UNCHANGED attempts
       ELSE /\ Move(d, c, [w EXCEPT !.at = "exec", !.run = attempts[c] + 1])
            /\ attempts' = [attempts EXCEPT ![c] = @ + 1]
    /\ UNCHANGED <<drive, pc, abortVars, faulted, lost, crashes>>

AdmitEffect(d, c) ==
    /\ worker[d][c].at = "admit"
    /\ IF faulted THEN Fail(d, c, "error")
       ELSE Admission(d, c) /\ UNCHANGED storedVars

(* ToolEffect.owns                                                         *)
Owns(c) == at = "tools" /\ call[c].at = "pending"

(* ToolProgress.write and its drain                                        *)
WriteProgress(d, c) ==
    LET w == worker[d][c] IN
    /\ w.at = "exec"
    /\ Owns(c)
    /\ output' = [output EXCEPT ![c] = w.run]
    /\ UNCHANGED <<at, mode, call, branch, args, staged, taskVars,
                   abortVars, faulted, historyVars>>

(* ToolInvocation.set_memo of a call it no longer owns: the refusal is a   *)
(* failed mutation of the lane.                                            *)
(* The signal of an abort wakes every task of the drive, and closes their  *)
(* invocations, before the drive can have raised it to its reconciliation. *)
RefuseMemo(d, c) ==
    /\ worker[d][c].at = "exec"
    /\ reason[d] = "none"
    /\ ~Owns(c)
    /\ Fault
    /\ UNCHANGED <<storedVars, taskVars, historyVars>>

(* cancel_on_context returns or raises: a result, a failure and the abort  *)
(* go on to after_tool, a fault does not.                                  *)
ToolReturns(d, c) ==
    /\ worker[d][c].at = "exec"
    /\ \/ reason[d] = "fault" /\ Fail(d, c, "fault")
       \/ /\ Move(d, c, [worker[d][c] EXCEPT !.at = "after"])
          /\ UNCHANGED <<storedVars, drive, pc, abortVars, faulted,
                         historyVars>>

(* The tool raises CancelledError by itself, which nothing handles until   *)
(* it has ended the drive task.                                            *)
ToolCancelled(d, c) ==
    /\ worker[d][c].at = "exec"
    /\ lost + crashes < MaxMishaps
    /\ Fail(d, c, "cancelled")

(* after_tool, then raise_if_cancelled.                                    *)
AfterTool(d, c) ==
    LET w == worker[d][c] IN
    /\ w.at = "after"
    /\ \/ RaiseIfCancelled(d, c)
       \/ /\ reason[d] = "none"
          /\ Move(d, c, [w EXCEPT !.at = "stage"])
          /\ UNCHANGED <<storedVars, drive, pc, abortVars, faulted,
                         historyVars>>

(* _stage_result                                                           *)
StageResult(d, c) ==
    LET w == worker[d][c] IN
    /\ w.at = "stage"
    /\ IF ~Expected(d, c)
       THEN Fail(d, c, "error")
       ELSE /\ call' = [call EXCEPT ![c] = OutcomeReady]
            /\ staged' = staged \union {c}
            /\ output' = [output EXCEPT ![c] = 0]
            /\ Move(d, c, Placing)
            /\ UNCHANGED <<at, mode, branch, args, drive, pc, abortVars,
                           faulted, attempts, lost, crashes>>

(* Mutant: only the declaration of the tool as it is now counts.           *)
MutReplayByTool(tool, c) == tool = "safe"

(* _recover_pending_call: which effects are repeated.                      *)
Replayable(tool, c) == tool = "safe" /\ call[c].replay = "safe"

(* _clear_replay_checkpoint                                                *)
ClearedCheckpoint(c) == [output EXCEPT ![c] = 0]

(* _recover_pending_call.  Its ToolStart is delivered after that of a task *)
(* left behind, which goes on to its admission at once.                    *)
(* _clear_replay_checkpoint is followed by the admission without a         *)
(* suspension.                                                             *)
RecoverPendingCall(d, c) ==
    LET w == worker[d][c] IN
    /\ w.at = "recover"
    /\ \A e \in Drives : worker[e][c].at # "admit"
    /\ \E tool \in Replays \union {"absent"} :
         IF c \notin args \/ (Replayable(tool, c) /\ (~Owns(c) \/ faulted))
         THEN Fail(d, c, "error")
         ELSE IF Replayable(tool, c)
         THEN /\ output' = ClearedCheckpoint(c)
              /\ Admission(d, c)
              /\ UNCHANGED <<at, mode, call, branch, args, staged>>
         ELSE /\ Move(d, c, [w EXCEPT !.at = "stage"])
              /\ UNCHANGED <<storedVars, drive, pc, abortVars, faulted,
                             historyVars>>

-----------------------------------------------------------------------------
(* Placement                                                               *)

(* Mutant: any ready outcome is placed.                                    *)
MutAnyReady ==
    IF \A c \in Calls : call[c].at # "ready" THEN 0
    ELSE CHOOSE c \in Calls : call[c].at = "ready"

(* The call after the completed ones, in source order; 0 when there is none. *)
FirstUnfinished ==
    IF \A c \in Calls : call[c].at = "completed" THEN 0
    ELSE CHOOSE c \in Calls : /\ call[c].at # "completed"
                              /\ \A b \in 1..(c - 1) : call[b].at = "completed"

(* materialization_lock                                                    *)
LockFree(d) == \A p \in Tasks : worker[d][p].at # "insert"

(* materialize_ready_prefix looks for the next outcome to place.           *)
FindReady(d, p) ==
    LET first == FirstUnfinished
    IN  /\ worker[d][p].at = "place"
        /\ LockFree(d)
        /\ Move(d, p, IF at = "tools" /\ first # 0 /\ call[first].at = "ready"
                      THEN [NoTask EXCEPT !.at = "insert", !.target = first]
                      ELSE NoTask)
        /\ UNCHANGED <<storedVars, drive, pc, abortVars, faulted, historyVars>>

(* _materialize_outcome                                                    *)
MaterializeOutcome(d, p) ==
    LET w == worker[d][p]
        c == w.target
        calls == [call EXCEPT ![c] = Completed]
        over == \A b \in Calls : calls[b].at = "completed"
    IN  /\ w.at = "insert"
        /\ IF at # "tools" \/ call[c].at # "ready" \/ c \notin staged
           THEN Fail(d, p, "error")
           ELSE /\ call' = calls
                /\ branch' = Append(branch, c)
                /\ staged' = staged \ {c}
                /\ args' = IF over THEN {} ELSE args
                /\ at' = IF over THEN "checkpoint" ELSE at
                /\ Move(d, p, Placing)
                /\ UNCHANGED <<mode, output, drive, pc, abortVars,
                               faulted, historyVars>>

-----------------------------------------------------------------------------
(* Aborts and crashes                                                      *)

(* Mutant: admission stays open until the abort is signalled.              *)
MutStaysOpen == closed

(* seals_active_drive closes admission before the marker is committed.     *)
ClosesAdmission == closed \/ drive # 0

(* request_abort until it waits for the Session line.                      *)
RequestAbort ==
    /\ req = "idle"
    /\ ~faulted
    /\ req' = "line"
    /\ seals' = (drive # 0)
    /\ closed' = ClosesAdmission
    /\ UNCHANGED <<storedVars, taskVars, marked, reason, faulted, historyVars>>

(* Its transaction.  Without the operation nothing is signalled.           *)
MarkAbort ==
    /\ req = "line"
    /\ IF at = "none"
       THEN req' = "done" /\ UNCHANGED marked
       ELSE req' = "emit" /\ marked' = TRUE
    /\ UNCHANGED <<storedVars, taskVars, reason, closed, seals, faulted,
                   historyVars>>

(* Its events are delivered: the scope of the lane's last drive is         *)
(* cancelled if the request found that drive on its way in.                *)
SignalAbort ==
    /\ req = "emit"
    /\ req' = "done"
    /\ reason' = [d \in Drives |->
                     IF seals /\ d = drive /\ reason[d] = "none" THEN "abort"
                     ELSE reason[d]]
    /\ UNCHANGED <<storedVars, taskVars, marked, closed, seals, faulted,
                   historyVars>>

Stop ==
    /\ drive' = 0
    /\ pc' = "idle"
    /\ worker' = NoTasks
    /\ reason' = [d \in Drives |-> "none"]
    /\ closed' = FALSE
    /\ req' = "idle"
    /\ seals' = FALSE
    /\ faulted' = FALSE
    /\ UNCHANGED <<storedVars, marked, attempts, lost>>

(* The process is lost, or closed, and the Session opened again.           *)
Crash ==
    /\ lost + crashes < MaxMishaps
    /\ Stop
    /\ crashes' = crashes + 1

(* A faulted harness is closed and attached again.                         *)
Reattach ==
    /\ faulted
    /\ Stop
    /\ UNCHANGED crashes

-----------------------------------------------------------------------------
DriveStep ==
    \/ Resume \/ CheckAbort \/ EnterBatch \/ StartCalls \/ CallsDone
    \/ LeaveBatch \/ ReconcileAbort

CallStep(d, c) ==
    \/ BeforeTool(d, c) \/ PublishToolIntent(d, c) \/ AdmitEffect(d, c)
    \/ ToolReturns(d, c) \/ AfterTool(d, c) \/ StageResult(d, c)
    \/ RecoverPendingCall(d, c)

PlaceStep(d, p) == FindReady(d, p) \/ MaterializeOutcome(d, p)

ToolStep(d, c) ==
    \/ WriteProgress(d, c) \/ RefuseMemo(d, c) \/ ToolCancelled(d, c)

AbortStep == MarkAbort \/ SignalAbort

Next ==
    \/ DriveStep
    \/ \E d \in Drives : \/ \E c \in Calls : CallStep(d, c) \/ ToolStep(d, c)
                         \/ \E p \in Tasks : PlaceStep(d, p)
    \/ RequestAbort
    \/ AbortStep
    \/ Crash
    \/ Reattach

Spec == Init /\ [][Next]_vars

(* The event loop runs every task that can go on, tools and hooks answer,  *)
(* and the host attaches and drives again what was left open.              *)
Fairness ==
    /\ WF_vars(DriveStep)
    /\ \A d \in Drives :
          /\ \A c \in Calls : WF_vars(CallStep(d, c))
          /\ \A p \in Tasks : WF_vars(PlaceStep(d, p))
    /\ WF_vars(AbortStep)
    /\ WF_vars(Reattach)

FairSpec == Spec /\ Fairness

-----------------------------------------------------------------------------
(* Properties                                                              *)

TypeOK ==
    /\ at \in {"tools", "checkpoint", "none"}
    /\ marked \in BOOLEAN
    /\ mode \in {"parallel", "sequential"}
    /\ call \in [Calls -> ToolCallStates]
    /\ branch \in Seq(Calls)
    /\ args \subseteq Calls
    /\ staged \subseteq Calls
    /\ output \in [Calls -> Nat]
    /\ drive \in 0..(MaxMishaps + 1)
    /\ pc \in {"idle", "top", "enter", "prefix", "gather", "suffix", "aborting",
               "reconcile"}
    /\ worker \in [Drives -> [Tasks -> TaskStates]]
    /\ reason \in [Drives -> {"none", "abort", "fault"}]
    /\ closed \in BOOLEAN
    /\ req \in {"idle", "line", "emit", "done"}
    /\ seals \in BOOLEAN
    /\ faulted \in BOOLEAN
    /\ attempts \in [Calls -> Nat]
    /\ lost \in 0..MaxMishaps
    /\ crashes \in 0..MaxMishaps

(* Whatever the order in which tools end, crashes and tasks left behind,   *)
(* the branch holds one result of each completed call in source order, and *)
(* the batch ends with all of them ("Parallel completion does not reorder  *)
(* history").                                                              *)
OneResultEachInOrder ==
    /\ branch = [i \in 1..Len(branch) |-> i]
    /\ {c \in Calls : call[c].at = "completed"} = 1..Len(branch)
    /\ at = "checkpoint" => Len(branch) = NumCalls

(* A tool whose intent was published as "never" is not started twice, not  *)
(* even after a crash or next to a task left behind.                       *)
UnsafeOnce ==
    \A c \in Calls : call[c] = EffectPending("never") => attempts[c] <= 1

(* Settled tools are not rerun: once its outcome is staged no drive and no *)
(* task left behind starts a call's tool; and nothing is started after the *)
(* abort was reconciled, except by what a lost drive left at its admission *)
(* when the next drive opened it again.                                    *)
SettledNotRerun ==
    [][\A c \in Calls :
          \/ call[c].at \in {"ready", "completed"}
          \/ at # "tools" /\ lost = 0
          => attempts'[c] = attempts[c]]_vars

(* Arguments, progress and staged result live exactly as long as the *)
(* call is at the point that reads them; nothing of them is left when the  *)
(* batch is over, whatever a late task still tries to write.               *)
TemporaryDataOwned ==
    LET InState(point) == IF at = "tools" THEN {c \in Calls : call[c].at = point}
                          ELSE {}
    IN  /\ staged = InState("ready")
        /\ {c \in Calls : output[c] # 0} \subseteq InState("pending")
        /\ InState("pending") \subseteq args
        /\ args \subseteq {c \in Calls : at = "tools" /\ call[c].at # "planned"}

(* The snapshot that the next interrupted result would show is that of the *)
(* call's last execution, as long as no drive was lost ("another           *)
(* interruption cannot present stale progress as new").                    *)
FreshCheckpoint ==
    lost = 0 => \A c \in Calls : output[c] \in {0, attempts[c]}

(* The tasks of one drive never defeat each other: a batch can fault the   *)
(* harness only next to tasks a lost drive left behind.                    *)
FaultNeedsLostDrive == faulted => lost > 0

(* A batch the host keeps driving ends: completed, or reconciled.          *)
BatchEnds == at = "tools" ~> at # "tools"

(* What a call's effect leaves behind, together: an unsafe effect happens  *)
(* once, what is staged for a call is removed with it, a checkpoint is of  *)
(* the effect under way, and nobody else's write is met without a lost     *)
(* drive.                                                                  *)
EffectsOwned ==
    TypeOK /\ UnsafeOnce /\ TemporaryDataOwned /\ FreshCheckpoint /\ FaultNeedsLostDrive

=============================================================================

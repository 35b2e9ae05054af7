--------------------------- MODULE DriveOwnership ---------------------------
(***************************************************************************)
(* Who may do what to the drive task of one AgentLane: drive and           *)
(* request_abort race on the lane's fields, the Session line and the event *)
(* bus, while the task moves between durable transactions and effects.     *)
(*                                                                         *)
(* The event loop runs one action at a time; an action is what happens     *)
(* between two suspensions.  A transaction on the Session line is one      *)
(* action.  After its transaction a request queues its events before any   *)
(* later transaction can return (begin_mutation of the next holder only    *)
(* starts when the line is released, and needs several more turns), so the *)
(* two are one action as well.                                             *)
(*                                                                         *)
(* Abstractions.  An operation alternates between a ready state and a      *)
(* pending effect; what the effect is (a model request, a tool, a summary) *)
(* is RunLane's and its components'.  The FaultEvent has no place of its   *)
(* own in the queue of the bus, and a bus that a fault has closed is still *)
(* one with a queue.                                                       *)
(***************************************************************************)
EXTENDS Integers, FiniteSets, Sequences, SequencesExt

CONSTANTS
    Ops,            \* operation ids
    Requests,       \* invocations of request_abort
    None,           \* "no operation", "no reason"
    MaxEffects,     \* bound: effects admitted in a behaviour
    CallerCancels,  \* TRUE: the task of any caller may be cancelled
    CommitFails     \* TRUE: one Session commit may fail

ASSUME DriveOwnershipAssumption ==
    /\ None \notin Ops \union Requests \union {"fault"}
    /\ {"fault", "drive"} \intersect Requests = {}
    /\ MaxEffects \in Nat
    /\ CallerCancels \in BOOLEAN
    /\ CommitFails \in BOOLEAN

VARIABLES
    \* durable
    current,        \* LaneState.current_operation_id
    marked,         \* its control is CancelRequestedControl
    effectPending,  \* its state is an effect_pending one
    result,         \* operation_result
    \* the lane's fields
    driveOp,        \* _drive_operation_id
    pc,             \* the drive task: where it is suspended; "idle" when done
    ahead,          \* requests in the Session line before its first visit
    awaits,         \* the _AbortRequested it caught, as its request
    scope,          \* reason _drive_cancel_scope was cancelled with
    closedFor,      \* _effect_admission_closed_for
    abortSettled,   \* _abort_settled, as the request that created it
    faulted,        \* _fault_error
    closed,         \* _closed_error
    \* invocations of request_abort
    req,            \* where each is suspended
    target,         \* its operation_id
    seals,          \* seals_active_drive
    settled,        \* its future
    \* the bus
    delivery,       \* emitters whose batch is not delivered yet, in order
    busDown,        \* _delivery_tail is a cancelled task
    \* history
    lost,           \* some commit failed
    effects         \* effects admitted so far

durableVars == <<current, marked, effectPending, result>>
laneVars == <<driveOp, scope, closedFor, abortSettled, faulted, closed>>
requestVars == <<req, target, seals, settled>>
taskVars == <<pc, ahead, awaits>>
queueVars == <<delivery, busDown>>
vars == <<durableVars, laneVars, taskVars, requestVars, queueVars, lost,
          effects>>

Reasons == Requests \union {"fault", None}
DrivePoints == {"idle", "begin", "check", "prepare", "intended", "effect",
                "settle", "told", "await", "aborting", "reconcile", "emit"}

(* Where the drive awaits the delivery of its events: between two          *)
(* transactions, and after its last.                                       *)
Telling == {"told", "emit"}

TypeOK ==
    /\ current \in Ops \union {None}
    /\ marked \in BOOLEAN
    /\ effectPending \in BOOLEAN
    /\ result \in [Ops -> {"none", "completed", "aborted"}]
    /\ driveOp \in Ops \union {None}
    /\ pc \in DrivePoints
    /\ ahead \subseteq Requests
    /\ awaits \in Requests \union {None}
    /\ pc = "await" => awaits # None
    /\ scope \in Reasons
    /\ closedFor \in Ops \union {None}
    /\ abortSettled \in Requests \union {None}
    /\ faulted \in BOOLEAN
    /\ closed \in BOOLEAN
    /\ req \in [Requests -> {"idle", "line", "emit", "done", "gone"}]
    /\ target \in [Requests -> Ops \union {None}]
    /\ seals \in [Requests -> BOOLEAN]
    /\ settled \in [Requests -> {"pending", "done", "fault"}]
    /\ delivery \in Seq(Requests \union {"drive"})
    /\ busDown \in BOOLEAN
    /\ lost \in BOOLEAN
    /\ effects \in 0..MaxEffects

Init ==
    /\ current = None
    /\ marked = FALSE
    /\ effectPending = FALSE
    /\ result = [o \in Ops |-> "none"]
    /\ driveOp = None
    /\ pc = "idle"
    /\ ahead = {}
    /\ awaits = None
    /\ scope = None
    /\ closedFor = None
    /\ abortSettled = None
    /\ faulted = FALSE
    /\ closed = FALSE
    /\ req = [r \in Requests |-> "idle"]
    /\ target = [r \in Requests |-> None]
    /\ seals = [r \in Requests |-> FALSE]
    /\ settled = [r \in Requests |-> "pending"]
    /\ delivery = <<>>
    /\ busDown = FALSE
    /\ lost = FALSE
    /\ effects = 0

-----------------------------------------------------------------------------
(* The lane's callers                                                      *)

(* AgentLane._assert_open                                                  *)
Open == ~faulted /\ ~closed

(* AgentLane.accept and its variants                                       *)
Accept(o) ==
    /\ Open
    /\ current = None
    /\ result[o] = "none"
    /\ current' = o
    /\ UNCHANGED <<marked, effectPending, result, laneVars, taskVars,
                   requestVars, queueVars, lost, effects>>

(* What a caller can name: an operation that was accepted.                 *)
Known(o) == o = current \/ result[o] # "none"

(* AgentLane.drive with no live task: a new task, a new cancel scope, and  *)
(* admission open again.                                                   *)
Drive(o) ==
    /\ Open
    /\ Known(o)
    /\ pc = "idle"
    /\ pc' = "begin"
    /\ driveOp' = o
    /\ scope' = None
    /\ closedFor' = None
    /\ abortSettled' = None
    /\ ahead' = {r \in Requests : req[r] = "line"}
    /\ UNCHANGED <<durableVars, faulted, closed, awaits, requestVars, queueVars,
                   lost, effects>>

(* request_abort up to its wait for the Session line                       *)
RequestAbort(r, o) ==
    /\ Open
    /\ Known(o)
    /\ req[r] = "idle"
    /\ req' = [req EXCEPT ![r] = "line"]
    /\ target' = [target EXCEPT ![r] = o]
    /\ seals' = [seals EXCEPT ![r] = driveOp = o]
    /\ IF driveOp = o
       THEN closedFor' = o /\ abortSettled' = r
       ELSE UNCHANGED <<closedFor, abortSettled>>
    /\ UNCHANGED <<durableVars, driveOp, scope, faulted, closed, taskVars,
                   settled, queueVars, lost, effects>>

(* Its transaction: the marker, once, or an OperationMismatch.  Only a new *)
(* marker has events to emit, which a bus that is down answers with a      *)
(* CancelledError: the rest of request_abort does not run.                 *)
CommitMarker(r) ==
    /\ req[r] = "line"
    /\ current = target[r]
    /\ ~marked
    /\ marked' = TRUE
    /\ IF busDown
       THEN req' = [req EXCEPT ![r] = "gone"] /\ UNCHANGED delivery
       ELSE req' = [req EXCEPT ![r] = "emit"] /\ delivery' = Append(delivery, r)
    /\ UNCHANGED <<current, effectPending, result, laneVars, taskVars,
                   target, seals, settled, busDown, lost, effects>>

(* Mutant: the signal of an abort is dropped.                              *)
MutSignalFaultsOnly(reason) ==
    scope' = IF scope = None /\ reason = "fault" THEN reason ELSE scope

(* CancelScope.cancel: the first reason stays.                             *)
Signal(reason) == scope' = IF scope = None THEN reason ELSE scope

(* Its transaction where there is nothing to write; the future is settled, *)
(* and a drive it sealed is signalled if the marker is there.              *)
FindMarker(r) ==
    /\ req[r] = "line"
    /\ current # target[r] \/ marked
    /\ settled' = [settled EXCEPT ![r] = "done"]
    /\ IF current = target[r] /\ seals[r] THEN Signal(r) ELSE UNCHANGED scope
    /\ req' = [req EXCEPT ![r] = "done"]
    /\ UNCHANGED <<durableVars, driveOp, closedFor, abortSettled, faulted,
                   closed, taskVars, target, seals, queueVars, lost, effects>>

-----------------------------------------------------------------------------
(* Event delivery, faults and cancelled callers                            *)

(* Mutant: batches are delivered in any order.                             *)
MutAnyOrder(e) ==
    \E i \in 1..Len(delivery) :
        /\ delivery[i] = e
        /\ delivery' = SubSeq(delivery, 1, i - 1)
                           \o SubSeq(delivery, i + 1, Len(delivery))

(* HarnessEventBus.emit_batch: a batch is delivered after the one before.  *)
Delivered(e) ==
    /\ delivery # <<>>
    /\ Head(delivery) = e
    /\ delivery' = Tail(delivery)

(* The rest of request_abort after its events: it settles its future, then *)
(* signals the scope the lane has now if it sealed a drive at its start.   *)
FinishRequest(r) ==
    /\ req[r] = "emit"
    /\ Delivered(r)
    /\ req' = [req EXCEPT ![r] = "done"]
    /\ settled' = [settled EXCEPT ![r] = "done"]
    /\ IF seals[r] THEN Signal(r) ELSE UNCHANGED scope
    /\ UNCHANGED <<durableVars, driveOp, closedFor, abortSettled, faulted,
                   closed, taskVars, target, seals, busDown, lost, effects>>

(* The drive's events are delivered; the task goes on, or returns its      *)
(* result after its last.                                                  *)
FinishDrive ==
    /\ pc \in Telling
    /\ Delivered("drive")
    /\ pc' = IF pc = "told" THEN "check" ELSE "idle"
    /\ UNCHANGED <<durableVars, laneVars, ahead, awaits, requestVars, busDown,
                   lost, effects>>

(* The task of an emitter is cancelled while it awaits its delivery, which *)
(* nothing shields.  The delivery is cancelled with it, and so are the     *)
(* ones it awaits and the ones that await it; whoever awaits one of them   *)
(* gets a CancelledError, and every later emission does, as its delivery   *)
(* awaits the cancelled tail.  "callers" are those that leave besides.     *)
BreakBus(callers) ==
    /\ busDown' = TRUE
    /\ delivery' = <<>>
    /\ req' = [r \in Requests |->
                  IF r \in callers \/ req[r] = "emit" THEN "gone" ELSE req[r]]
    /\ pc' = IF pc \in Telling THEN "idle" ELSE pc

(* Harness._fault and AgentLane.seal_fault                                 *)
Fault ==
    /\ faulted' = TRUE
    /\ Signal("fault")
    /\ lost' = TRUE
    /\ UNCHANGED <<driveOp, closedFor, abortSettled, closed>>

(* The request's transaction fails: the harness faults, and so does        *)
(* whoever waits for the request, once the FaultEvent is delivered; its    *)
(* emission may be cancelled like any other.                               *)
FailRequest(r) ==
    /\ CommitFails /\ ~lost
    /\ req[r] = "line"
    /\ \/ /\ ~busDown
          /\ req' = [req EXCEPT ![r] = "done"]
          /\ settled' = [settled EXCEPT ![r] = "fault"]
          /\ UNCHANGED <<queueVars, pc>>
       \/ /\ busDown \/ CallerCancels
          /\ BreakBus({r})
          /\ UNCHANGED settled
    /\ Fault
    /\ UNCHANGED <<durableVars, ahead, awaits, target, seals, effects>>

(* The caller's task is cancelled in the line, with or without the         *)
(* shielded commit under way, while the events are delivered, or just      *)
(* after: except Exception does not see a CancelledError.                  *)
CancelCaller(r) ==
    /\ CallerCancels
    /\ \/ /\ req[r] = "line"
          /\ \/ UNCHANGED marked
             \/ current = target[r] /\ marked' = TRUE
          /\ req' = [req EXCEPT ![r] = "gone"]
          /\ UNCHANGED <<queueVars, pc>>
       \/ /\ req[r] = "emit"
          /\ BreakBus({r})
          /\ UNCHANGED marked
       \/ /\ req[r] = "emit"
          /\ Delivered(r)
          /\ req' = [req EXCEPT ![r] = "gone"]
          /\ UNCHANGED <<marked, busDown, pc>>
    /\ UNCHANGED <<current, effectPending, result, laneVars, ahead, awaits,
                   target, seals, settled, lost, effects>>

(* The same for any other emitter of the harness, say accept or set_model: *)
(* its batch may be anywhere in the queue.                                 *)
CancelOther ==
    /\ CallerCancels /\ ~busDown
    /\ BreakBus({})
    /\ UNCHANGED <<durableVars, laneVars, ahead, awaits, target, seals, settled,
                   lost, effects>>

(* AgentLane.close: the drive task is cancelled wherever it is, also while *)
(* its events are delivered.                                               *)
Close ==
    /\ ~closed
    /\ closed' = TRUE
    /\ IF pc \in Telling
       THEN BreakBus({})
       ELSE pc' = "idle" /\ UNCHANGED <<queueVars, req>>
    /\ awaits' = None
    /\ UNCHANGED <<durableVars, driveOp, scope, closedFor, abortSettled,
                   faulted, ahead, target, seals, settled, lost, effects>>

-----------------------------------------------------------------------------
(* The drive task                                                          *)

(* A step of the task that only moves it.                                  *)
Move(point) ==
    /\ pc' = point
    /\ UNCHANGED <<durableVars, laneVars, ahead, requestVars, queueVars, lost,
                   effects>>

(* StorageBackedSession's lock is fair: whoever waited for the line when   *)
(* the drive joined it has been served.                                    *)
Served == \A r \in ahead : req[r] # "line"

(* The start of _drive_owned, with its first visit to the line: an         *)
(* operation that ended, or that is not the lane's, is not driven, and     *)
(* neither is anything on a faulted lane.                                  *)
Begin ==
    /\ pc = "begin"
    /\ Served
    /\ Move(IF current = driveOp /\ Open THEN "check" ELSE "idle")
    /\ UNCHANGED awaits

(* The top of drive_operation's loop.  A pending effect nobody waits for   *)
(* is recovered by a transaction.                                          *)
Check ==
    /\ pc = "check"
    /\ Move(CASE marked -> "reconcile"
              [] ~marked /\ ~Open -> "idle"
              [] ~marked /\ Open /\ effectPending -> "settle"
              [] OTHER -> "prepare")
    /\ UNCHANGED awaits

(* Context.raise_if_cancelled and cancel_on_context: the reason is raised  *)
(* and _drive_owned catches it.  A HarnessFault ends the task.             *)
Interrupted ==
    /\ pc \in {"prepare", "intended", "effect"}
    /\ scope # None
    /\ Move(IF scope = "fault" THEN "idle" ELSE "await")
    /\ awaits' = IF scope = "fault" THEN None ELSE scope

(* The intent is committed.  Hooks and the wait for the line lie between   *)
(* the last look at the scope and this transaction.                        *)
PublishIntent ==
    /\ pc = "prepare"
    /\ effects < MaxEffects
    /\ effectPending' = TRUE
    /\ pc' = "intended"
    /\ UNCHANGED <<current, marked, result, laneVars, ahead, awaits,
                   requestVars, queueVars, lost, effects>>

(* Mutant: admit_effect does not look at closed admission.                 *)
MutNeverClosed == FALSE

(* admit_effect finds admission closed for its operation.                  *)
AdmissionClosed == closedFor = driveOp

(* admit_effect: the effect starts, or _AbortRequested is raised.          *)
AdmitEffect ==
    /\ pc = "intended"
    /\ scope = None
    /\ Open
    /\ IF AdmissionClosed
       THEN pc' = "await" /\ awaits' = abortSettled /\ UNCHANGED effects
       ELSE pc' = "effect" /\ effects' = effects + 1 /\ UNCHANGED awaits
    /\ UNCHANGED <<durableVars, laneVars, ahead, requestVars, queueVars, lost>>

(* The effect answers, after which nothing looks at the scope again.       *)
Answer ==
    /\ pc = "effect"
    /\ scope = None
    /\ Move("settle")
    /\ UNCHANGED awaits

(* The drive emits the events of a transaction.  A bus that is down        *)
(* cancels it, which _drive_owned does not catch: the task ends, and what  *)
(* it committed stays.                                                     *)
Tell(point) ==
    IF busDown
    THEN pc' = "idle" /\ UNCHANGED queueVars
    ELSE /\ pc' = point
         /\ delivery' = Append(delivery, "drive")
         /\ UNCHANGED busDown

(* The transaction that settles the effect; the operation goes on.         *)
Settle ==
    /\ pc = "settle"
    /\ effectPending' = FALSE
    /\ Tell("told")
    /\ UNCHANGED <<current, marked, result, laneVars, ahead, awaits,
                   requestVars, lost, effects>>

(* terminal_writes, and the events of the transaction                      *)
End(status) ==
    /\ result' = [result EXCEPT ![current] = status]
    /\ current' = None
    /\ marked' = FALSE
    /\ effectPending' = FALSE
    /\ Tell("emit")

(* A transaction that ends the operation, at a checkpoint or instead of    *)
(* another attempt.  It does not look at the marker.                       *)
Complete ==
    /\ pc \in {"prepare", "settle"}
    /\ End("completed")
    /\ UNCHANGED <<laneVars, ahead, awaits, requestVars, lost, effects>>

(* A host that does not wait gets a WaitingDriveOutcome.                   *)
ReturnWaiting ==
    /\ pc = "prepare"
    /\ Move("idle")
    /\ UNCHANGED awaits

(* The future of a request.                                                *)
IsSettled(r) == settled[r] # "pending"

(* await abort.settled in _drive_owned                                     *)
AbortSettles ==
    /\ pc = "await"
    /\ IsSettled(awaits)
    /\ Move(IF settled[awaits] = "fault" THEN "idle" ELSE "aborting")
    /\ awaits' = None

(* reconcile_abort's precondition on the operation it finds.               *)
Reconcilable == current = driveOp /\ marked

(* reconcile_abort, from the loop or after a signal.                       *)
Reconcile ==
    /\ pc \in {"aborting", "reconcile"}
    /\ Reconcilable
    /\ End("aborted")
    /\ UNCHANGED <<laneVars, ahead, awaits, requestVars, lost, effects>>

(* A transaction of the drive fails: drive_operation's errors fault the    *)
(* harness, those of the reconciliation after a signal are only raised.    *)
FailDrive ==
    /\ pc \in {"prepare", "settle", "aborting", "reconcile"}
    /\ CommitFails /\ ~lost
    /\ pc' = "idle"
    /\ IF pc = "aborting" THEN lost' = TRUE /\ UNCHANGED laneVars ELSE Fault
    /\ UNCHANGED <<durableVars, ahead, awaits, requestVars, queueVars, effects>>

-----------------------------------------------------------------------------
DriveStep ==
    \/ Begin
    \/ Check
    \/ Interrupted
    \/ PublishIntent
    \/ AdmitEffect
    \/ Settle
    \/ Complete
    \/ ReturnWaiting
    \/ AbortSettles
    \/ Reconcile
    \/ FinishDrive

RequestStep(r) ==
    \/ CommitMarker(r)
    \/ FindMarker(r)
    \/ FinishRequest(r)

Next ==
    \/ \E o \in Ops : Accept(o) \/ Drive(o)
    \/ \E r \in Requests, o \in Ops : RequestAbort(r, o)
    \/ \E r \in Requests : RequestStep(r) \/ FailRequest(r) \/ CancelCaller(r)
    \/ DriveStep
    \/ Answer
    \/ FailDrive
    \/ CancelOther
    \/ Close

Spec == Init /\ [][Next]_vars

(* The tasks are scheduled, listeners return, and the line serves its      *)
(* queue.                                                                  *)
(* The host tries again to drive the open operation as long as there is    *)
(* one; its attempts may meet another live drive, hence strong fairness.   *)
(* An effect need never answer.                                            *)
FairSpec ==
    /\ Spec
    /\ WF_vars(DriveStep)
    /\ \A r \in Requests : WF_vars(RequestStep(r))
    /\ SF_vars(\E o \in Ops : o = current /\ Drive(o))

-----------------------------------------------------------------------------
(* Properties                                                              *)

(* An abort signal only ever reaches the execution of the operation it     *)
(* names, although request_abort signals whatever scope the lane has when  *)
(* its events are delivered: the bus delivers them before the last events  *)
(* of the drive, and the next drive starts after those.  (A drive that has *)
(* yet to find that its operation ended may carry a foreign signal.)       *)
AbortFenced ==
    (scope \in Requests /\ pc \notin {"idle", "begin"})
        => target[scope] = driveOp

(* Once a request that sealed the drive has returned, no effect of its     *)
(* operation runs on unsignalled.                                          *)
SignalReachesEffect ==
    \A r \in Requests :
        (req[r] = "done" /\ seals[r] /\ target[r] = driveOp /\ pc = "effect")
            => scope # None

(* A drive that was told of an abort finds the operation still open and    *)
(* the marker committed when it reconciles.                                *)
ReconcilesMarked == pc \in {"aborting", "reconcile"} => Reconcilable

(* A request that sealed a drive and was cancelled before it could tell    *)
(* it: its caller went away, or an emitter did while the request's events  *)
(* were delivered, or before.                                              *)
Forsaken(r) == req[r] = "gone" /\ seals[r]

(* A committed abort ends its operation even if the effect under way never *)
(* answers: the drive is signalled, or it sees the marker at its next step. *)
(* Not so if a request for the same operation is forsaken: its drive may   *)
(* wait for it for ever, see DriveNotStuck, or run on with admission       *)
(* closed and no signal.  A bus that is down alone does not keep an        *)
(* operation open, although every drive then ends at its first events.     *)
AbortEnds ==
    marked ~> (~marked \/ ~Open
                 \/ \E r \in Requests : Forsaken(r) /\ target[r] = current)

(* A fault stops the drive, also one whose effect never answers and one    *)
(* that waits for an abort to settle, unless that abort is forsaken.       *)
FaultStopsDrive ==
    faulted ~> (pc = "idle" \/ (pc = "await" /\ Forsaken(awaits)))

(* No effect is admitted under a marker, whether the request found a live  *)
(* drive, which it seals before it waits for the line, or none, in which   *)
(* case its transaction comes before the new drive's first look.           *)
NoEffectUnderMarker == [][effects' # effects => ~marked]_vars

(* "Caller cancellation, durable abort, close, and storage fault remain    *)
(* distinct" (invariants.md): a caller that goes away while it requests an *)
(* abort, or that is cancelled as an emitter, does not stop the drive.     *)
DriveNotStuck == pc = "await" ~> pc # "await"

(* Drives and aborts implement DurableOperation, whoever calls them.       *)
Operation == INSTANCE DurableOperation WITH cancelled <- marked
ImplementsOperation == Operation!Spec

(* What an abort means for the drive, together: the marker is committed    *)
(* before anyone is told, its signal reaches the effect under way, and     *)
(* only what is marked is reconciled.                                      *)
AbortReaches ==
    TypeOK /\ AbortFenced /\ SignalReachesEffect /\ ReconcilesMarked

(* A drive never goes on for ever after an abort or a fault, together.     *)
DriveEnds == AbortEnds /\ FaultStopsDrive

=============================================================================

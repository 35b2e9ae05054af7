---------------------------- MODULE AgentActivity ----------------------------
(***************************************************************************)
(* The activities of one in-process Agent and who owns it: prompts, the    *)
(* prompts that final listeners submit, manual compactions that supersede  *)
(* what runs, custom messages, and close().                                *)
(*                                                                         *)
(* A run is an _ActiveRun; run n is the n-th that was made.  Its task and  *)
(* its idle future are known by the run they were made with, since a chain *)
(* of prompts shares both.  An action is what a task does between two      *)
(* suspensions; what a dialogue does inside is AgentLoop's.  Left out: the *)
(* abort signals, and errors other than that of a prompt close() dropped.  *)
(***************************************************************************)
EXTENDS Integers, Sequences, FiniteSets, SequencesExt

CONSTANTS
    MaxRuns,      \* bound: runs made
    MaxAccepted,  \* bound: prompts accepted from final listeners
    MaxCustom,    \* bound: custom messages submitted
    Listeners     \* subscribers that may submit prompts

ASSUME AgentActivityAssumption ==
    MaxRuns \in Nat /\ MaxAccepted \in Nat /\ MaxCustom \in Nat

VARIABLES
    run,         \* the _ActiveRun objects, as they were made
    active,      \* _active_run; 0 none
    idleSet,     \* idle futures that are set
    taskDone,    \* tasks that are done
    taskFailed,  \* those that raised the error of a dropped prompt
    closing,     \* _close_task
    closeRun,    \* the run it awaits
    closed,      \* is_closed
    \* history
    accepted,    \* prompts accepted from listeners: the run it was in, and by
                 \* which listeners it was led to
    dropped,     \* those that never will be started
    submitted,   \* custom messages submitted
    overtaken    \* a compaction that held prompts was superseded while it waited

doneVars == <<idleSet, taskDone, taskFailed>>
closeVars == <<closing, closeRun, closed>>
promptVars == <<accepted, dropped>>
callVars == <<submitted, overtaken>>
vars == <<run, active, doneVars, closeVars, promptVars, callVars>>

Made == DOMAIN run

NoRun == [kind |-> "none", at |-> "none", task |-> 0, previous |-> 0,
          idle |-> 0, callbacks |-> {}, prompt |-> 0, pending |-> <<>>,
          inherited |-> {}, transferred |-> FALSE, chainError |-> FALSE,
          custom |-> 0]

Init ==
    /\ run = <<>> /\ active = 0
    /\ idleSet = {} /\ taskDone = {} /\ taskFailed = {}
    /\ closing = FALSE /\ closeRun = 0 /\ closed = FALSE
    /\ accepted = <<>> /\ dropped = {}
    /\ submitted = 0 /\ overtaken = FALSE

-----------------------------------------------------------------------------
(* What callers do                                                         *)

Waiting(p) == {r \in Made : p \in Range(run[r].pending)}

(* Each prompt accepted keeps a run for itself under the bound.            *)
Room ==
    Len(run) + Cardinality({p \in DOMAIN accepted : Waiting(p) # {}}) < MaxRuns

(* _begin_run and _begin_compaction_run: a task and an idle future of its  *)
(* own, and the Agent is busy with it at once.                             *)
Begin(kind) ==
    LET new == Len(run) + 1
    IN  /\ active' = new
        /\ run' = Append(run,
                 [NoRun EXCEPT !.kind = kind,
                               !.at = IF kind = "compaction" THEN "wait" ELSE "run",
                               !.task = new, !.idle = new,
                               !.previous = active,
                               !.custom = IF kind = "custom" THEN 1 ELSE 0])

(* prompt() and continue_() from outside.                                  *)
Prompt ==
    /\ ~closing /\ active = 0 /\ Room
    /\ Begin("dialogue")
    /\ UNCHANGED <<doneVars, closeVars, promptVars, callVars>>

(* The newest activity waits, and prompts were handed over to it.          *)
Overtakes ==
    active # 0 /\ run[active].at = "wait" /\ run[active].pending # <<>>

(* compact(): what it supersedes is aborted and goes on to its end.        *)
Compact ==
    /\ ~closing /\ Room
    /\ Begin("compaction")
    /\ overtaken' = (overtaken \/ Overtakes)
    /\ UNCHANGED <<doneVars, closeVars, promptVars, submitted>>

(* submit_custom_message: a run of its own, or left to the one there is.   *)
SubmitCustom ==
    /\ ~closing /\ submitted < MaxCustom
    /\ submitted' = submitted + 1
    /\ IF active = 0
       THEN Room /\ Begin("custom")
       ELSE /\ run[active].kind # "compaction"
            /\ run' = [run EXCEPT ![active].custom = @ + 1]
            /\ UNCHANGED active
    /\ UNCHANGED <<doneVars, closeVars, promptVars, overtaken>>

(* prompt() of a listener of agent_settled or of compaction_end.           *)
AcceptPrompt ==
    \E r \in Made, l \in Listeners :
        /\ ~closing /\ Room
        /\ run[r].at = "settling"
        /\ l \notin run[r].callbacks
        /\ Len(accepted) < MaxAccepted
        /\ accepted' = Append(accepted, [run |-> r,
                                         by |-> run[r].callbacks \union {l}])
        /\ run' = [run EXCEPT ![r].pending = Append(@, Len(accepted'))]
        /\ UNCHANGED <<active, doneVars, closeVars, dropped, callVars>>

Close ==
    /\ ~closing
    /\ closing' = TRUE
    /\ closeRun' = active
    /\ UNCHANGED <<run, active, doneVars, closed, promptVars, callVars>>

(* _close.                                                                 *)
CloseDone ==
    /\ closing /\ ~closed
    /\ closeRun # 0 => run[closeRun].task \in taskDone
    /\ closed' = TRUE
    /\ UNCHANGED <<run, active, doneVars, closing, closeRun, promptVars, callVars>>

-----------------------------------------------------------------------------
(* What the tasks do                                                       *)

PreviousDone(c) ==
    run[c].previous # 0 => run[run[c].previous].task \in taskDone

(* _compaction_runner, up to _execute_compaction.                          *)
StartCompaction ==
    \E c \in Made :
        /\ run[c].at = "wait"
        /\ PreviousDone(c)
        /\ run' = [run EXCEPT ![c].at = "run"]
        /\ UNCHANGED <<active, doneVars, closeVars, promptVars, callVars>>

(* The dialogue or the summary is over: custom messages are committed and  *)
(* the final listeners are called.                                         *)
EndRun ==
    \E r \in Made :
        /\ run[r].at = "run" /\ run[r].kind \in {"dialogue", "compaction"}
        /\ run' = [run EXCEPT ![r].at = "settling", ![r].custom = 0]
        /\ UNCHANGED <<active, doneVars, closeVars, promptVars, callVars>>

(* Mutant: only the run's own waiters are released.                        *)
MutOwnWaiters(R, r) == IF R[r].transferred THEN {} ELSE {R[r].idle}

(* _finish_run of r, when the runs are R by then: whoever waits for r or   *)
(* for what r inherited is released, unless somebody else took them over.  *)
Released(R, r) ==
    IF R[r].transferred THEN {} ELSE {R[i].idle : i \in {r} \union R[r].inherited}

FinishRun(R, r, failed) ==
    /\ run' = IF R[r].transferred THEN R
              ELSE [i \in DOMAIN R |-> IF i \in R[r].inherited
                                   THEN [R[i] EXCEPT !.chainError = failed]
                                   ELSE R[i]]
    /\ idleSet' = idleSet \union Released(R, r)
    /\ taskDone' = taskDone \union {R[r].task}
    /\ taskFailed' = taskFailed \union (IF failed THEN {R[r].task} ELSE {})

Done(r) == [run[r] EXCEPT !.at = "done", !.pending = <<>>, !.custom = 0]

(* idle_transferred: with the prompts, who waits for them moves.           *)
WaitersMove(r) == run[r].pending # <<>>

(* The runs whose waiters follow the prompts of r.                         *)
HandedOver(r) == {r} \union run[r].inherited

(* Mutant: what is handed over goes first.                                 *)
MutInFront(r) == run[r].pending \o run[active].pending

Queued(r) == run[active].pending \o run[r].pending

(* The live activity takes over the prompts of a superseded one.           *)
HandOver(r) ==
    /\ FinishRun([run EXCEPT
         ![active].pending = Queued(r),
         ![active].inherited = @ \union HandedOver(r),
         ![r] = [Done(r) EXCEPT !.transferred = WaitersMove(r)]], r, FALSE)
    /\ UNCHANGED <<active, promptVars>>

ActiveAfter(r) == IF active = r THEN 0 ELSE active

(* Nothing is left to start, or close() forbids it.                        *)
Conclude(r) ==
    LET failed == run[r].pending # <<>>
    IN  /\ FinishRun([run EXCEPT ![r] =
             [Done(r) EXCEPT !.chainError =
                IF run[r].kind = "compaction" THEN failed ELSE @]], r, failed)
        /\ active' = ActiveAfter(r)
        /\ dropped' = dropped \union Range(run[r].pending)
        /\ UNCHANGED accepted

(* The run of the first accepted prompt, which takes over what is left.    *)
Successor(r, t) ==
    [NoRun EXCEPT !.kind = "dialogue", !.at = "run", !.task = t,
                  !.idle = run[r].idle,
                  !.prompt = Head(run[r].pending),
                  !.pending = Tail(run[r].pending),
                  !.inherited = run[r].inherited,
                  !.callbacks = accepted[Head(run[r].pending)].by]

MayStart == ~closing

(* _runner, after agent_settled: the next prompt runs in the same task.    *)
FinishDialogue ==
    \E r \in Made :
        /\ run[r].at = "settling" /\ run[r].kind = "dialogue"
        /\ IF active # r
           THEN IF run[r].pending # <<>> THEN HandOver(r) ELSE Conclude(r)
           ELSE IF ~MayStart \/ run[r].pending = <<>> THEN Conclude(r)
           ELSE /\ run' = Append([run EXCEPT ![r] = Done(r)],
                                 Successor(r, run[r].task))
                /\ active' = Len(run')
                /\ UNCHANGED <<doneVars, promptVars>>
        /\ UNCHANGED <<closeVars, callVars>>

(* _compaction_runner, after compaction_end; _start_accepted_prompts.      *)
FinishCompaction ==
    \E c \in Made :
        /\ run[c].at = "settling" /\ run[c].kind = "compaction"
        /\ IF run[c].pending = <<>> \/ ~MayStart THEN Conclude(c)
           ELSE IF active # c THEN HandOver(c)
           ELSE /\ FinishRun(Append([run EXCEPT
                        ![c] = [Done(c) EXCEPT !.transferred = TRUE]],
                        Successor(c, Len(run) + 1)), c, FALSE)
                /\ active' = Len(run')
                /\ UNCHANGED promptVars
        /\ UNCHANGED <<closeVars, callVars>>

(* _custom_submission_runner: _flush_custom_messages until none is left.   *)
FinishCustom ==
    \E r \in Made :
        /\ run[r].at = "run" /\ run[r].kind = "custom"
        /\ Conclude(r)
        /\ UNCHANGED <<closeVars, callVars>>

-----------------------------------------------------------------------------
Step ==
    \/ StartCompaction \/ EndRun \/ FinishDialogue \/ FinishCompaction
    \/ FinishCustom \/ CloseDone

Next ==
    \/ Prompt \/ Compact \/ SubmitCustom \/ AcceptPrompt \/ Close
    \/ Step

Spec == Init /\ [][Next]_vars

(* Dialogues, summaries and listeners come to an end.                      *)
FairSpec == Spec /\ WF_vars(Step)

-----------------------------------------------------------------------------
(* Properties                                                              *)

Started(p) == {r \in Made : run[r].prompt = p}

TypeOK ==
    /\ active \in {0} \union Made /\ closeRun \in {0} \union Made
    /\ \A r \in Made : /\ run[r].task \in Made /\ run[r].idle \in Made
                       /\ run[r].inherited \subseteq Made
                       /\ run[r].at \in {"wait", "run", "settling", "done"}
    /\ taskFailed \subseteq taskDone

(* Two activities never touch the history at the same time: a compaction   *)
(* summarizes the final records of what it superseded.                     *)
Executing == {r \in Made : run[r].at \in {"run", "settling"}}
OneExecutes == \A r, s \in Executing : r = s

(* Everywhere a prompt is: with the run it waits for, with the run it was  *)
(* started in, or with those close() stopped.                              *)
PlacesOf(p) ==
    {<<"waits", r>> : r \in Waiting(p)} \union {<<"started", r>> : r \in Started(p)}
        \union (IF p \in dropped THEN {<<"dropped", 0>>} ELSE {})

(* Prompts accepted in one run go the same way; prompts of several runs do *)
(* as long as no compaction was superseded while it waited with some.      *)
Comparable(p, q) == overtaken => accepted[p].run = accepted[q].run

(* A prompt a listener was told is accepted waits in one place, or was     *)
(* started once, or was stopped by close(); and prompts that can be        *)
(* compared start in the order they were accepted, across hand-overs.      *)
PromptsStartOnceInOrder ==
    /\ \A p \in DOMAIN accepted :
           \E place \in PlacesOf(p) : PlacesOf(p) = {place}
    /\ \A p, q \in DOMAIN accepted : p < q /\ Comparable(p, q) =>
           \A r \in Started(p), s \in Started(q) : r < s
    /\ dropped # {} => closing

(* docs/agent.md: "accepted prompts execute serially in FIFO order".       *)
StartedInOrder ==
    \A p, q \in DOMAIN accepted : p < q =>
        \A r \in Started(p), s \in Started(q) : r < s

(* Who waits for a run, or waits for the Agent to become idle meanwhile,   *)
(* is released only when the prompts accepted in it have had their run.    *)
IdleIncludesChain ==
    \A p \in DOMAIN accepted :
        run[accepted[p].run].idle \in idleSet =>
            \/ p \in dropped
            \/ \E r \in Started(p) : run[r].at = "done"

(* A busy Agent has a run that is not over, and an idle one has none.      *)
BusyExactly ==
    /\ active = 0 => \A r \in Made : run[r].at = "done"
    /\ active # 0 => run[active].at # "done"

(* After close() has returned nothing executes and nothing can start.      *)
ClosedIsQuiet ==
    closed => /\ active = 0
              /\ \A r \in Made : run[r].at = "done" /\ run[r].pending = <<>>

(* Every waiter of a run and of close() is released.                       *)
WaitersReleased ==
    /\ \A r \in 1..MaxRuns : r \in Made ~> r \in Made /\ run[r].idle \in idleSet
    /\ closing ~> closed

(* docs/agent.md: the caller whose chain close() cut short learns of it,   *)
(* and so does the caller of close().  A caller waits for the task and the *)
(* idle future of the run it made.                                         *)
Reported(r) == run[r].task \in taskFailed \/ run[r].chainError

Callers(p) ==
    {r \in Made : /\ run[r].task = r /\ run[r].kind = "dialogue"
                  /\ run[r].idle = run[accepted[p].run].idle /\ run[r].idle = r}

DropsReported ==
    closed => \A p \in dropped : \A r \in Callers(p) : Reported(r)

(* The order of activities, together: one executes at a time, and accepted *)
(* prompts start once, in the order they were accepted but where one       *)
(* compaction overtakes another.                                           *)
PromptsInOrder ==
    TypeOK /\ OneExecutes /\ PromptsStartOnceInOrder

(* What the agent says of itself, together: idle only when the whole chain *)
(* of activities has ended, busy exactly while one is accepted, and quiet  *)
(* once it is closed.                                                      *)
IdleIsExact == IdleIncludesChain /\ BusyExactly /\ ClosedIsQuiet

(* Activities take turns, and the agent says so: both of the above.        *)
ActivitiesInTurn == PromptsInOrder /\ IdleIsExact

=============================================================================

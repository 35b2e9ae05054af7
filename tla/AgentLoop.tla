------------------------------ MODULE AgentLoop ------------------------------
(***************************************************************************)
(* The dialogue of the in-process Agent: one activity from prompt() or     *)
(* continue_() to agent_settled.  _run_dialogue, the loop of loop.py it    *)
(* drives, the history they write, and the two input queues that callers   *)
(* fill meanwhile.                                                         *)
(*                                                                         *)
(* An action is what the task does between two suspensions.  Messages are  *)
(* numbered as they were accepted; a response is its stop reason and the   *)
(* number of its tool calls, and one that failed may carry calls as well,  *)
(* which nobody runs or answers.  Whether the context is over the compaction   *)
(* threshold, where a compaction cuts, what a host hook decides and        *)
(* whether a hook, a listener or a summary fails are free choices.         *)
(*                                                                         *)
(* Left out: model and setting changes in a run, custom messages,          *)
(* streaming partials, and what comes after agent_settled (AgentActivity). *)
(***************************************************************************)
EXTENDS Integers, Sequences, FiniteSets, SequencesExt

CONSTANTS
    MaxInputs,      \* bound: messages given to prompt(), steer(), follow_up()
    MaxResponses,   \* bound: responses; from the last one on they call no
                    \* tool, only one after a recovery is too large, and no
                    \* hook asks for more
    MaxCalls,       \* bound: tool calls of one response
    MaxCompactions, \* bound: compactions committed
    MaxMishaps,     \* bound: aborts, failing hooks and failing listeners
    MaxRetries,     \* RetryPolicy.max_retries
    Mode            \* QueueMode of both queues

ASSUME AgentLoopAssumption ==
    /\ MaxInputs \in Nat /\ MaxResponses \in Nat /\ MaxCalls \in Nat
    /\ Mode \in {"all", "one-at-a-time"}
    /\ MaxCompactions \in Nat /\ MaxMishaps \in Nat /\ MaxRetries \in Nat

VARIABLES
    history,     \* ConversationHistory.entries
    steering,    \* _steering_queue
    followUp,    \* _follow_up_queue
    pc,          \* where the run's task is suspended; "idle": no run
    pending,     \* pending_messages: taken, not yet in the history
    next,        \* where it goes when they are committed
    skip,        \* skip_initial_steering_poll
    calls,       \* tool calls of the last response that have no result yet
    more,        \* has_more_tool_calls
    decision,    \* of finish_turn
    signal,      \* the run's AbortSignal.aborted
    stop,        \* run.stop
    last,        \* run.last_assistant_id, as its place in the history
    reason,      \* run.last_assistant.stop_reason
    attempt,     \* run.retry_attempt
    retry,       \* run.retry is not None
    recovered,   \* _overflow_recovery_attempted
    \* history of the behaviour
    given,       \* inputs accepted so far, as the queue each was given to
    lost,        \* inputs taken from a queue that never reached the history
    start,       \* length of the history when the run began
    delivered,   \* steering taken for the coming request
    failing,     \* responses in a row without an answer, and no input since
    responses, mishaps

inputVars == <<steering, followUp, given>>
loopVars == <<pending, next, skip, calls, more, decision>>
runVars == <<signal, stop, last, reason, attempt, retry, recovered>>
ghostVars == <<lost, start, delivered, failing, responses, mishaps>>
dialogueVars == <<history, inputVars, pc, loopVars, runVars, ghostVars>>

-----------------------------------------------------------------------------
(* The history and what is projected from it                               *)

Input(m) == [type |-> "input", m |-> m]
Assistant(n, hard) == [type |-> "assistant", calls |-> n, hard |-> hard]
Result(a, c) == [type |-> "result", of |-> a, call |-> c]
Omission(i) == [type |-> "omission", target |-> i]
Compaction(i) == [type |-> "compaction", kept |-> i]

IsA(i, type) == history[i].type = type
Places == 1..Len(history)
Increasing(s) == \A i, j \in DOMAIN s : i < j => s[i] < s[j]

LastCompaction ==
    LET S == {i \in Places : IsA(i, "compaction")}
    IN  IF S = {} THEN 0 ELSE CHOOSE i \in S : \A j \in S : j <= i

(* project_history_records: the places of the messages the model is sent.  *)
Projection ==
    LET first == IF LastCompaction = 0 THEN 1 ELSE history[LastCompaction].kept
        omitted == {history[i].target : i \in {j \in first..Len(history) :
                                                    IsA(j, "omission")}}
    IN  {i \in first..Len(history) :
            history[i].type \in {"input", "assistant", "result"}} \ omitted

(* Mutant: a cut may fall between a tool call and its result.              *)
MutAnyCut == {i \in Projection : \E j \in Projection : j < i}

(* prepare_compaction: where the retained tail may begin, when something   *)
(* is left to summarize before it.                                         *)
CutPoints ==
    {i \in Projection : ~IsA(i, "result") /\ \E j \in Projection : j < i}

Compactable ==
    /\ history # <<>> /\ ~IsA(Len(history), "compaction")
    /\ Cardinality({i \in Places : IsA(i, "compaction")}) < MaxCompactions

(* What a committed compaction may append; _execute_compaction.            *)
Compacted ==
    IF Compactable THEN {Append(history, Compaction(i)) : i \in CutPoints}
    ELSE {}

(* A run that was aborted or stopped starts nothing more of its own.       *)
Over == signal \/ stop

(* _auto_compact at a threshold: not needed, or failed, or committed.      *)
AutoCompacted == {history} \union (IF Over THEN {} ELSE Compacted)

-----------------------------------------------------------------------------
(* The input queues                                                        *)

Queues == {"prompt", "steering", "followUp"}

(* _PendingMessageQueue.peek and .drain.                                   *)
Peek(queue) ==
    IF Mode = "all" \/ queue = <<>> THEN queue ELSE <<Head(queue)>>
Rest(queue) == SubSeq(queue, Len(Peek(queue)) + 1, Len(queue))

Accept(queue) == given' = Append(given, queue)

Steer ==
    /\ Len(given) < MaxInputs
    /\ Accept("steering")
    /\ steering' = Append(steering, Len(given'))
    /\ UNCHANGED <<history, followUp, pc, loopVars, runVars, ghostVars>>

FollowUp ==
    /\ Len(given) < MaxInputs
    /\ Accept("followUp")
    /\ followUp' = Append(followUp, Len(given'))
    /\ UNCHANGED <<history, steering, pc, loopVars, runVars, ghostVars>>

Abort ==
    /\ pc # "idle" /\ ~signal
    /\ mishaps < MaxMishaps
    /\ mishaps' = mishaps + 1
    /\ signal' = TRUE
    /\ UNCHANGED <<history, inputVars, pc, loopVars, stop, last, reason, attempt,
                   retry, recovered, lost, start, delivered, failing,
                   responses>>

-----------------------------------------------------------------------------
(* The run                                                                 *)

(* A new Agent, or one that from_history restored.                         *)
Restored == <<Input(0), Assistant(0, FALSE)>>

DialogueInit ==
    /\ history \in {<<>>, Restored} /\ steering = <<>> /\ followUp = <<>>
    /\ pc = "idle"
    /\ pending = <<>> /\ next = "loop" /\ skip = FALSE
    /\ calls = {} /\ more = FALSE /\ decision = "none"
    /\ signal = FALSE /\ stop = FALSE /\ last = 0 /\ reason = "none"
    /\ attempt = 0
    /\ retry = FALSE /\ recovered = FALSE
    /\ given = <<>> /\ lost = {} /\ start = 0
    /\ delivered = 0 /\ failing = 0 /\ responses = 0 /\ mishaps = 0

(* _begin_run: a new _ActiveRun.  A run that is over has none either.      *)
BeginRun ==
    /\ signal' = FALSE /\ stop' = FALSE /\ last' = 0 /\ reason' = "none"
    /\ attempt' = 0 /\ retry' = FALSE /\ UNCHANGED recovered
    /\ start' = Len(history)

(* run_agent_loop: a new loop, whose initial messages are committed first. *)
NewLoop(messages, skipPoll) ==
    /\ pending' = messages /\ next' = "loop" /\ skip' = skipPoll
    /\ calls' = {} /\ more' = TRUE /\ decision' = "none"

BeginPrompt ==
    /\ pc = "idle"
    /\ Len(given) < MaxInputs
    /\ Accept("prompt")
    /\ BeginRun
    /\ NewLoop(<<Len(given')>>, FALSE)
    /\ pc' = "start"
    /\ delivered' = 0
    /\ UNCHANGED <<history, steering, followUp, lost, failing, responses,
                   mishaps>>

LastRole ==
    IF Projection = {} THEN "none"
    ELSE history[CHOOSE i \in Projection : \A j \in Projection : j <= i].type

(* continue_: an assistant tail needs queued input, another one does not.  *)
Continue_ ==
    /\ pc = "idle"
    /\ LastRole # "none"
    /\ IF LastRole = "assistant"
       THEN /\ steering # <<>> \/ followUp # <<>>
            /\ IF steering # <<>>
               THEN /\ NewLoop(Peek(steering), TRUE)
                    /\ steering' = Rest(steering) /\ UNCHANGED followUp
                    /\ delivered' = Len(Peek(steering))
               ELSE /\ NewLoop(Peek(followUp), FALSE)
                    /\ followUp' = Rest(followUp) /\ UNCHANGED steering
                    /\ delivered' = 0
       ELSE NewLoop(<<>>, FALSE) /\ delivered' = 0 /\ UNCHANGED <<steering, followUp>>
    /\ BeginRun
    /\ pc' = "commit"
    /\ UNCHANGED <<history, given, lost, failing, responses, mishaps>>

(* What an exception leaves: input that was taken and not yet committed is *)
(* in the loop's local variable only.                                      *)
Raise(to) ==
    /\ pc' = to
    /\ stop' = TRUE
    /\ lost' = lost \union Range(pending)
    /\ pending' = <<>>
    /\ UNCHANGED <<next, skip, calls, more, decision>>

(* throw_if_aborted and call_with_signal, which look at the signal before   *)
(* the next operation; _handle_run_failure then appends a response.        *)
Throw ==
    /\ signal
    /\ \/ pc \in {"start", "prepare", "stream"}
       \/ pc = "commit" /\ pending = <<>>
    /\ Raise("failed")
    /\ UNCHANGED <<history, inputVars, signal, last, reason, attempt, retry, recovered,
                   start, delivered, failing, responses, mishaps>>

(* prepare_next_turn, prepare_request, stream_fn or finish_turn raises.    *)
HookFails ==
    /\ ~signal
    /\ \/ pc \in {"prepare", "stream", "finish"}
       \/ pc = "commit" /\ pending = <<>> /\ next = "request"
    /\ mishaps < MaxMishaps
    /\ mishaps' = mishaps + 1
    /\ Raise("failed")
    /\ UNCHANGED <<history, inputVars, signal, last, reason, attempt, retry, recovered,
                   start, delivered, failing, responses>>

(* run.ending: agent_end has been announced.                               *)
Ending == pc \in {"ended", "check", "recover"}

(* _notify_listeners: a listener's exception is raised as it is, without a *)
(* response of its own, and aborts a run that is not ending.               *)
ListenerFails ==
    /\ pc \in {"commit", "stream", "tools", "finish", "turned", "ended",
              "omit", "check", "recover"}
    /\ mishaps < MaxMishaps
    /\ mishaps' = mishaps + 1
    /\ signal' = (signal \/ ~Ending)
    /\ Raise("settle")
    /\ UNCHANGED <<history, inputVars, last, reason, attempt, retry, recovered, start,
                   delivered, failing, responses>>

(* _run_prompt_messages of a new prompt: a compaction first.               *)
StartPrompt ==
    /\ pc = "start" /\ ~signal
    /\ history' \in IF \E i \in Projection : IsA(i, "assistant")
                    THEN AutoCompacted ELSE {history}
    /\ pc' = "commit"
    /\ UNCHANGED <<inputVars, loopVars, runVars, ghostVars>>

(* message_end of an input, one after the other.                           *)
CommitInput ==
    /\ pc = "commit" /\ pending # <<>>
    /\ history' = Append(history, Input(Head(pending)))
    /\ pending' = Tail(pending)
    /\ recovered' = FALSE
    /\ failing' = 0
    /\ UNCHANGED <<inputVars, pc, next, skip, calls, more, decision,
                   signal, stop, last, reason, attempt, retry, lost, start, delivered,
                   responses, mishaps>>

SkipInitialPoll == skip

(* The first poll of _run_loop.                                            *)
EnterLoop ==
    /\ pc = "commit" /\ pending = <<>> /\ next = "loop" /\ ~signal
    /\ IF SkipInitialPoll
       THEN UNCHANGED <<pending, steering, delivered>>
       ELSE /\ pending' = Peek(steering)
            /\ steering' = Rest(steering)
            /\ delivered' = delivered + Len(Peek(steering))
    /\ skip' = FALSE
    /\ next' = "request"
    /\ UNCHANGED <<history, followUp, given, pc, calls, more,
                   decision, runVars, lost, start, failing, responses, mishaps>>

(* prepare_request, then the model is called.                              *)
Request ==
    /\ pc = "commit" /\ pending = <<>> /\ next = "request" /\ ~signal
    /\ pc' = "stream"
    /\ delivered' = 0
    /\ responses' = IF responses < MaxResponses THEN responses + 1 ELSE responses
    /\ UNCHANGED <<history, inputVars, loopVars, runVars, lost, start, failing,
                   mishaps>>

(* How a response can end.  "error" is transient, "refused" is not,        *)
(* "overflow" is an error that names the context window, "length" a        *)
(* truncated response that may be recovered and "cut" one that may not.    *)
(* An aborted request may still be answered.                               *)
Failed == {"error", "refused", "overflow"}
Truncated == {"length", "cut"}

(* "Error and aborted responses remain hard exits" (loop.py): what such a  *)
(* response calls is neither run nor answered.                             *)
HardExits == Failed \union {"aborted"}

LastOne == responses = MaxResponses

Reasons == {"stop", "error"}
           \union (IF signal THEN {"aborted"} ELSE {})
           \union (IF ~LastOne THEN {"toolUse", "refused"} \union Truncated ELSE {})
           \union (IF ~LastOne \/ recovered THEN {"overflow"} ELSE {})

(* message_end of a response, in _process_events.                          *)
CommitResponse(why, n) ==
    /\ history' = Append(history, Assistant(n, why \in HardExits))
    /\ last' = Len(history')
    /\ reason' = why
    /\ recovered' = (recovered /\ why \in Failed \union Truncated)
    /\ attempt' = IF why \in Failed THEN attempt ELSE 0
    /\ retry' = (retry /\ why \in Failed)

(* The calls of a response: a stream that broke off or was cut may have    *)
(* ended some, which its message keeps.                                    *)
CallsOf(why) ==
    IF why = "stop" \/ LastOne THEN {0}
    ELSE (IF why = "toolUse" THEN 1 ELSE 0)..MaxCalls

Respond ==
    /\ pc = "stream"
    /\ \E why \in Reasons : \E n \in CallsOf(why) :
          /\ CommitResponse(why, n)
          /\ failing' = IF why \in Failed \union {"length"} THEN failing + 1 ELSE 0
          /\ calls' = IF signal \/ why \in HardExits THEN {} ELSE 1..n
    /\ pc' = IF calls' = {} THEN "finish" ELSE "tools"
    /\ more' = FALSE
    /\ UNCHANGED <<inputVars, pending, next, skip, decision, signal, stop,
                   lost, start, delivered, responses, mishaps>>

(* Mutant: a call that an abort kept from running never resolves.          *)
MutOnlyRunCalls == pc = "tools" /\ ~signal

(* Every call of the batch resolves: it ran, was refused or was aborted.   *)
CallResolves == pc = "tools"

(* The results of a batch, in the order of the calls.  An abort ends the   *)
(* batch after a result; calls of a truncated response are all answered.   *)
CommitResult ==
    /\ CallResolves
    /\ LET c == CHOOSE x \in calls : \A y \in calls : x <= y
           truncated == reason \in Truncated
       IN  /\ history' = Append(history, Result(last, c))
           /\ \/ calls' = calls \ {c}
              \/ signal /\ ~truncated /\ calls' = {}
           /\ more' \in IF truncated THEN {TRUE} ELSE BOOLEAN
    /\ pc' = IF calls' = {} THEN "finish" ELSE "tools"
    /\ UNCHANGED <<inputVars, pending, next, skip, decision, runVars,
                   ghostVars>>

(* _finish_turn and turn_end.  A response that may be recovered ends the   *)
(* loop; one that may not stops the run.                                   *)
FinishTurn ==
    /\ pc = "finish"
    /\ \E hook \in {"none", "end"} \union
                   (IF responses < MaxResponses THEN {"continue"} ELSE {}) :
         LET hard == reason \in HardExits
         IN  /\ decision' = IF hard \/ reason = "length" THEN "end" ELSE hook
             /\ stop' = (stop \/ reason \in {"aborted", "cut"}
                              \/ (hook = "end" /\ ~hard))
    /\ pc' = "turned"
    /\ UNCHANGED <<history, inputVars, pending, next, skip, calls, more, signal,
                   last, reason, attempt, retry, recovered, ghostVars>>

TurnIsLast == decision = "end" \/ signal

(* After turn_end: agent_end, or the queues decide about the next turn.    *)
AfterTurn ==
    /\ pc = "turned"
    /\ next' = "request"
    /\ IF TurnIsLast
       THEN pc' = "ended" /\ UNCHANGED <<pending, steering, followUp, delivered>>
       ELSE /\ pending' = IF steering # <<>> THEN Peek(steering)
                          ELSE IF more THEN <<>> ELSE Peek(followUp)
            /\ steering' = Rest(steering)
            /\ followUp' = IF steering = <<>> /\ ~more THEN Rest(followUp)
                           ELSE followUp
            /\ delivered' = Len(Peek(steering))
            /\ pc' = IF more \/ pending' # <<>> \/ decision = "continue"
                     THEN "prepare" ELSE "ended"
    /\ more' = TRUE /\ decision' = "none"
    /\ UNCHANGED <<history, given, skip, calls, runVars, lost, start,
                   failing, responses, mishaps>>

(* Mutant: what the first poll returned is replaced by the second.         *)
MutPollAlways == TRUE
PollAgain == pending = <<>>

(* prepare_next_turn, which may compact and call the host, and the second  *)
(* poll for what was queued meanwhile.                                     *)
PrepareTurn ==
    /\ pc = "prepare" /\ ~signal
    /\ history' \in AutoCompacted
    /\ IF PollAgain
       THEN /\ pending' = Peek(steering)
            /\ steering' = Rest(steering)
            /\ delivered' = delivered + Len(Peek(steering))
       ELSE UNCHANGED <<pending, steering, delivered>>
    /\ pc' = "commit"
    /\ UNCHANGED <<followUp, given, next, skip, calls, more,
                   decision, runVars, lost, start, failing, responses, mishaps>>

-----------------------------------------------------------------------------
(* _run_dialogue, after a loop has ended                                   *)

(* _should_retry_dialogue, in a run that may go on.                        *)
ShouldRetry ==
    /\ reason = "error"
    /\ attempt < MaxRetries

SelectNext ==
    /\ pc = "ended"
    /\ IF Over THEN pc' = "settle" /\ UNCHANGED <<attempt, retry>>
       ELSE IF ShouldRetry
            THEN pc' = "omit" /\ attempt' = attempt + 1 /\ retry' = TRUE
            ELSE pc' = "check" /\ retry' = FALSE /\ UNCHANGED attempt
    /\ UNCHANGED <<history, inputVars, loopVars, signal, stop, last, reason, recovered,
                   ghostVars>>

(* The failed response leaves the context before the delay.                *)
OmitFailed ==
    /\ pc = "omit"
    /\ history' = Append(history, Omission(last))
    /\ pc' = "wait"
    /\ UNCHANGED <<inputVars, loopVars, runVars, ghostVars>>

WaitForRetry ==
    /\ pc = "wait"
    /\ IF signal THEN pc' = "settle" /\ UNCHANGED loopVars
       ELSE pc' = "commit" /\ NewLoop(<<>>, FALSE)
    /\ UNCHANGED <<history, inputVars, runVars, ghostVars>>

(* The response that could not be used, and its results.                   *)
Unusable ==
    {last} \union {i \in last + 1..Len(history) :
                        IsA(i, "result") /\ history[i].of = last}

(* The history with an omission of each of these entries, in their order.  *)
Omitting(places) ==
    {history \o [k \in DOMAIN order |-> Omission(order[k])] :
        order \in {f \in [1..Cardinality(places) -> places] :
                      Range(f) = places /\ Increasing(f)}}

(* _check_response_compaction.                                             *)
Recoverable ==
    /\ last \in Projection /\ LastCompaction < last
    /\ reason \in {"overflow", "length"}

CheckResponse ==
    /\ pc = "check"
    /\ IF signal THEN pc' = "settle" /\ UNCHANGED <<history, recovered>>
       ELSE IF ~Recoverable
       THEN /\ history' \in AutoCompacted
            /\ pc' = "drain" /\ UNCHANGED recovered
       ELSE IF ~recovered
       THEN /\ recovered' = TRUE
            /\ history' \in Omitting(Unusable)
            /\ pc' = "recover"
       ELSE pc' = "drain" /\ UNCHANGED <<history, recovered>>
    /\ UNCHANGED <<inputVars, loopVars, signal, stop, last, reason, attempt, retry,
                   ghostVars>>

(* _auto_compact with reason "overflow": the same request again if it      *)
(* succeeds.                                                               *)
Recover ==
    /\ pc = "recover"
    /\ \/ /\ ~Over
          /\ history' \in Compacted
          /\ NewLoop(<<>>, FALSE)
          /\ pc' = "commit"
       \/ pc' = "drain" /\ UNCHANGED <<history, loopVars>>
    /\ UNCHANGED <<inputVars, runVars, ghostVars>>

(* Input that was queued while the run was ending.                         *)
Drain ==
    /\ pc = "drain"
    /\ LET queue == IF steering # <<>> THEN steering ELSE followUp
       IN  IF signal \/ queue = <<>>
           THEN pc' = "settle" /\ UNCHANGED <<loopVars, steering, followUp, delivered>>
           ELSE /\ NewLoop(Peek(queue), steering # <<>>)
                /\ steering' = Rest(steering)
                /\ followUp' = IF steering = <<>> THEN Rest(followUp) ELSE followUp
                /\ delivered' = Len(Peek(steering))
                /\ pc' = "commit"
    /\ UNCHANGED <<history, given, runVars, lost, start, failing,
                   responses, mishaps>>

-----------------------------------------------------------------------------
(* The end of the run                                                      *)

(* _handle_run_failure.                                                    *)
HandleFailure ==
    /\ pc = "failed"
    /\ CommitResponse(IF signal THEN "aborted" ELSE "error", 0)
    /\ failing' = 0
    /\ pc' = "settle"
    /\ UNCHANGED <<inputVars, loopVars, signal, stop, lost, start, delivered,
                   responses, mishaps>>

(* _runner: retry_end if one is due, agent_end, agent_settled, and         *)
(* _finish_run.                                                            *)
Settle ==
    /\ pc = "settle"
    /\ pc' = "idle"
    /\ NewLoop(<<>>, FALSE)
    /\ BeginRun
    /\ delivered' = 0
    /\ failing' = 0
    /\ UNCHANGED <<history, inputVars, lost, responses, mishaps>>

-----------------------------------------------------------------------------
DialogueStep ==
    \/ Throw \/ StartPrompt \/ CommitInput \/ EnterLoop \/ Request
    \/ Respond \/ CommitResult \/ FinishTurn \/ AfterTurn \/ PrepareTurn
    \/ SelectNext \/ OmitFailed \/ WaitForRetry \/ CheckResponse \/ Recover
    \/ Drain \/ HandleFailure \/ Settle

DialogueNext ==
    \/ Steer \/ FollowUp \/ Abort \/ BeginPrompt \/ Continue_
    \/ HookFails \/ ListenerFails
    \/ DialogueStep

DialogueSpec == DialogueInit /\ [][DialogueNext]_dialogueVars

(* The task goes on, the model and the tools answer.                       *)
FairDialogueSpec == DialogueSpec /\ WF_dialogueVars(DialogueStep)

-----------------------------------------------------------------------------
(* Properties                                                              *)

InHistory == {history[i].m : i \in {j \in Places : IsA(j, "input")}}

(* Where an input can be: in its queue, taken, in the history, or dropped  *)
(* with an interrupted turn.                                               *)
InQueue == Range(steering) \union Range(followUp)
Stages == <<InQueue, Range(pending), InHistory, lost>>

(* An input accepted later passes no earlier one that was given to the     *)
(* same queue, unless that one was dropped.                                *)
SameQueue(m, n) == {m, n} \subseteq DOMAIN given /\ given[m] = given[n]

StagesInOrder ==
    \A n \in DOMAIN given : \A m \in 1..n - 1 : SameQueue(m, n) =>
        /\ n \in Range(pending) => m \notin InQueue
        /\ n \in InHistory => m \notin InQueue \union Range(pending)

HistoryInOrder ==
    \A j \in Places : \A i \in 1..j - 1 :
        /\ IsA(i, "input") /\ IsA(j, "input")
        /\ SameQueue(history[i].m, history[j].m)
        => history[i].m < history[j].m

KeepTheirOrder ==
    /\ Increasing(steering) /\ Increasing(followUp) /\ Increasing(pending)
    /\ StagesInOrder /\ HistoryInOrder

(* Every accepted input is in its queue, on its way, in the history or     *)
(* dropped with an interrupted turn, never in two of these, and the inputs *)
(* of a queue reach the history in the order they were accepted.           *)
InputsOnceInOrder ==
    /\ LET stages == Stages
       IN  \A m \in DOMAIN given : \E s \in DOMAIN stages :
             \A t \in DOMAIN stages : m \in stages[t] <=> t = s
    /\ KeepTheirOrder

(* In the mode one-at-a-time no request carries two steering messages.     *)
OneSteeringPerRequest == Mode = "one-at-a-time" => delivered <= 1

(* All results of response i are among the messages the model is sent.     *)
AllAnswered(i) ==
    \A c \in 1..history[i].calls : Result(i, c) \in {history[j] : j \in Projection}

(* A request never shows the model a tool result without its call, nor a   *)
(* call of a usable response of this run without its result, whatever was  *)
(* omitted or compacted.  The calls of a failed response stay without one. *)
ContextPaired ==
    pc = "stream" =>
      \A i \in Projection :
        /\ IsA(i, "result") => history[i].of \in Projection
        /\ IsA(i, "assistant") /\ i > start /\ ~history[i].hard => AllAnswered(i)

(* What one would have of the failed ones: no call of this run is shown    *)
(* without its result.                                                     *)
CallsAnswered ==
    pc = "stream" =>
      \A i \in Projection : IsA(i, "assistant") /\ i > start => AllAnswered(i)

(* Without an answer or new input the agent gives up after the retries of  *)
(* one response and one recovery: it does not call the model for ever.     *)
RequestsBounded ==
    failing <= (MaxRetries + 1) * (IF recovered THEN 2 ELSE 1)

(* A recovery is for a response the context still holds, and leaves        *)
(* neither it nor its results there.                                       *)
RecoveryOmits ==
    pc = "recover" => /\ last \notin Projection
                      /\ \A i \in Projection :
                           IsA(i, "result") => history[i].of # last

(* An aborted run calls the model no more and takes nothing from a queue.  *)
AbortConsumesNothing ==
    [][signal /\ signal' =>
         /\ ~(pc # "stream" /\ pc' = "stream")
         /\ Len(steering') >= Len(steering)
         /\ Len(followUp') >= Len(followUp)]_dialogueVars

(* Every run settles.                                                      *)
RunSettles == pc # "idle" ~> pc = "idle"

(* docs/agent.md: an abort leaves the steering and the follow-ups that the *)
(* history has not got in their queues.                                    *)
UnconsumedStaysQueued ==
    mishaps = 1 /\ pc = "failed" /\ signal =>
        \A m \in lost : given[m] = "prompt"

DialogueTypeOK ==
    /\ Range(steering) \union Range(followUp) \union Range(pending)
         \subseteq 1..Len(given)
    /\ last \in 0..Len(history)
    /\ calls \subseteq 1..MaxCalls
    /\ attempt \in 0..MaxRetries
    /\ {more, signal, stop, retry, recovered, skip} \subseteq BOOLEAN

(* What becomes of queued inputs, together: each enters the context once   *)
(* and in order, one steering input per request in this mode, and none is  *)
(* taken once the abort was seen.                                          *)
InputsInOrder == [](InputsOnceInOrder /\ OneSteeringPerRequest) /\ AbortConsumesNothing

(* What recovery may do, together: the requests of a run are bounded, and  *)
(* a request after a recovery leaves out the response that called for it.  *)
RecoveryBounded ==
    DialogueTypeOK /\ RequestsBounded /\ RecoveryOmits

(* The requests of a run, together: each shows a paired context, and they  *)
(* are bounded while nothing new arrives.                                  *)
RequestsSound == ContextPaired /\ RecoveryBounded

=============================================================================

------------------------------ MODULE ToolCalls ------------------------------
(***************************************************************************)
(* What becomes of a tool call.                                            *)
(*                                                                         *)
(* The in-process agent (agent/execution/tool_execution.py) prepares a     *)
(* call, runs it and lets a hook change its result, one call after the     *)
(* other or all at once, until a signal aborts the batch.  The durable     *)
(* harness (durable/hooks.py) sends a call, and every other step of an     *)
(* operation, through a chain of handlers.                                 *)
(*                                                                         *)
(* What a call's tool and hooks do is given: a script.  Contents, details  *)
(* and usage are values of a field; events are left out.                   *)
(***************************************************************************)
EXTENDS Integers, Sequences, FiniteSets

LOCAL INSTANCE SequencesExt

Unset == "unset"

-----------------------------------------------------------------------------
(* One call of the in-process agent                                        *)

(* A tool's own failure may carry a whole result.                          *)
Scripts == [found : BOOLEAN,
            valid : BOOLEAN,
            before : {"passes", "blocks", "ends", "fails"},
            executes : {"done", "ends", "fails", "failsEnding"},
            after : {"keeps", "marks", "clears", "ends", "goesOn", "fails"}]

Answer(ran, error, ends) == [ran |-> ran, error |-> error, ends |-> ends]
Refused == Answer(FALSE, TRUE, FALSE)

(* _prepare_tool_call: a call that is not ready has its answer already.     *)
Ready == [ready |-> TRUE]
Prepared(call, aborted) ==
    IF ~call.found \/ ~call.valid \/ call.before = "fails" THEN Refused
    ELSE IF aborted THEN Refused
    ELSE IF call.before = "passes" THEN Ready
    ELSE Answer(FALSE, TRUE, call.before = "ends")

(* _execute_prepared_tool_call *)
Executed(call) ==
    Answer(TRUE, call.executes \in {"fails", "failsEnding"},
           call.executes \in {"ends", "failsEnding"})

(* _finalize_executed_tool_call: a hook that fails replaces the result.     *)
Finalized(call) ==
    LET answer == Executed(call)
    IN  IF call.after = "fails" THEN Answer(TRUE, TRUE, FALSE)
        ELSE [answer EXCEPT
                !.error = (@ \/ call.after = "marks") /\ call.after # "clears",
                !.ends = (@ \/ call.after = "ends") /\ call.after # "goesOn"]

(* A prepared call, executed when nothing has stopped it                   *)
Resolved(call, abortedBefore, abortedSince) ==
    IF Prepared(call, abortedBefore) # Ready THEN Prepared(call, abortedBefore)
    ELSE IF abortedSince THEN Refused ELSE Finalized(call)

-----------------------------------------------------------------------------
(* A batch of calls                                                        *)

(* The signal is looked at in a fixed order; it is set after `quiet` looks. *)
Seen(look, quiet) == look > quiet

(* The calls up to the first one after which the batch stops               *)
Reached(calls, Stops(_)) ==
    {i \in DOMAIN calls : \A j \in 1..i - 1 : ~Stops(j)}

(* _execute_tool_calls_sequential: looks 2i - 1 while call i is prepared    *)
(* and 2i after its result.                                                *)
Sequential(calls, quiet) ==
    LET Stops(i) == Seen(2 * i, quiet)
    IN  [i \in Reached(calls, Stops) |->
            Resolved(calls[i], Seen(2 * i - 1, quiet), FALSE)]

(* _execute_tool_calls_parallel: looks 2i - 1 and 2i while call i is        *)
(* prepared, then one more when the call starts (_deferred_tool_call).     *)
Parallel(calls, quiet) ==
    LET Stops(i) == Seen(2 * i, quiet)
        Start(i) == 2 * Len(calls) + i
    IN  [i \in Reached(calls, Stops) |->
            Resolved(calls[i], Seen(2 * i - 1, quiet), Seen(Start(i), quiet))]

(* execute_tool_calls: one tool that runs alone makes the batch sequential. *)
Execute(calls, alone, quiet) ==
    IF alone THEN Sequential(calls, quiet) ELSE Parallel(calls, quiet)

(* fail_truncated_tool_calls *)
FailTruncated(calls) == [i \in DOMAIN calls |-> Refused]

(* Mutant: the word of one call ends the run.                              *)
MutAnyEnds(results) == \E i \in DOMAIN results : results[i].ends

(* _should_terminate_tool_batch *)
Terminates(results) ==
    results # <<>> /\ \A i \in DOMAIN results : results[i].ends

-----------------------------------------------------------------------------
(* Chains of handlers                                                      *)

(* What a handler says of an event: nothing, a failure, or a result.        *)
Nothing == [says |-> "nothing"]
Failure == [says |-> "failure"]
Says(answer) == answer.says = "result"

(* A chain folds its handlers, a snapshot taken when the step began         *)
(* (_snapshot), into a state; a stopped chain asks no further handler.      *)
Chain(handlers, start, Step(_, _)) ==
    FoldLeft(LAMBDA s, h : IF s.stopped THEN s ELSE Step(s, h),
             start, handlers)

(* Every failure is reported (_error).                                     *)
Reports(s, answer) ==
    [s EXCEPT !.reports = @ + IF answer = Failure THEN 1 ELSE 0]

(* _before_run: later handlers see the prompt with what earlier ones added. *)
BeforeRun(handlers, prompt) ==
    Chain(handlers, [prompt |-> prompt, added |-> <<>>, reports |-> 0,
                     stopped |-> FALSE],
          LAMBDA s, h :
             LET answer == h[s.prompt]
             IN  IF ~Says(answer) THEN Reports(s, answer)
                 ELSE [s EXCEPT !.prompt = @ \o answer.messages,
                                !.added = @ \o answer.messages])

(* _before_run_end, _transform_context and _after_response: the last word   *)
(* counts; a later handler of the last two sees what an earlier one said.   *)
BeforeRunEnd(handlers) ==
    Chain(handlers, [followUp |-> Unset, reports |-> 0, stopped |-> FALSE],
          LAMBDA s, h : IF ~Says(h) THEN Reports(s, h)
                        ELSE [s EXCEPT !.followUp = h.followUp])
Transform(handlers, value) ==
    Chain(handlers, [value |-> value, changed |-> FALSE, reports |-> 0,
                     stopped |-> FALSE],
          LAMBDA s, h :
             LET answer == h[s.value]
             IN  IF ~Says(answer) THEN Reports(s, answer)
                 ELSE [s EXCEPT !.value = IF answer.value = Unset THEN @
                                          ELSE answer.value,
                                !.changed = TRUE])

AfterResponse(handlers, message) == Transform(handlers, message)

(* _before_tool: the first block ends the chain, and so does a failure,     *)
(* which blocks the call.                                                  *)
BeforeTool(handlers, args) ==
    Chain(handlers, [args |-> args, blocked |-> FALSE, reports |-> 0,
                     stopped |-> FALSE],
          LAMBDA s, h :
             LET answer == h[s.args]
                 next == Reports(s, answer)
             IN  IF answer = Nothing THEN next
                 ELSE IF answer = Failure
                 THEN [next EXCEPT !.blocked = TRUE, !.stopped = TRUE]
                 ELSE [next EXCEPT !.args = IF answer.args = Unset THEN @
                                            ELSE answer.args,
                                   !.blocked = answer.block,
                                   !.stopped = answer.block])

(* A patch of a tool's result names some fields: _merge_after_tool makes    *)
(* one patch of two, _apply_after_tool changes the event.                  *)
Patched(value, patch) ==
    [f \in DOMAIN value |-> IF patch[f] = Unset THEN value[f] ELSE patch[f]]

(* An event has no "terminate" to show a handler.                          *)
ShownFields(fields) == fields \ {"terminate"}
Shown(result) == [f \in ShownFields(DOMAIN result) |-> result[f]]

(* _after_tool: the handlers' patches, as one                              *)
AfterTool(handlers, result) ==
    Chain(handlers,
          [patch |-> [f \in DOMAIN result |-> Unset], event |-> Shown(result),
           reports |-> 0, stopped |-> FALSE],
          LAMBDA s, h :
             LET answer == h[s.event]
             IN  IF ~Says(answer) THEN Reports(s, answer)
                 ELSE [s EXCEPT !.patch = Patched(@, answer.patch),
                                !.event = Patched(@, answer.patch)])

(* _execute_tool, after the chain: the result that is staged               *)
Staged(handlers, result) == Patched(result, AfterTool(handlers, result).patch)

(* The first handler that declines or provides a summary decides; one that  *)
(* does both has failed.                                                   *)
Decision(handlers) ==
    Chain(handlers, [says |-> "none", reports |-> 0, stopped |-> FALSE],
          LAMBDA s, h :
             LET both == Says(h) /\ h.decline /\ h.provides
             IN  IF both THEN [s EXCEPT !.reports = @ + 1]
                 ELSE IF Says(h) /\ (h.decline \/ h.provides)
                 THEN [s EXCEPT !.says = IF h.decline THEN "decline" ELSE "provide",
                                !.stopped = TRUE]
                 ELSE Reports(s, h))

BeforeCompaction(handlers) == Decision(handlers)
BeforeNavigation(handlers) == Decision(handlers)

(* _invoke_all; a failing before_drive handler fails the drive (closed).    *)
InvokeAll(handlers, closed) ==
    Chain(handlers, [failed |-> FALSE, reports |-> 0, stopped |-> FALSE],
          LAMBDA s, h :
             LET fails == closed /\ h = Failure
             IN  [Reports(s, h) EXCEPT !.failed = fails, !.stopped = fails])

-----------------------------------------------------------------------------
(* Registrations                                                           *)

(* HookRegistry.on *)
Registered(registrations, r) == Append(registrations, r)

(* unsubscribe removes the first registration equal to its own: a handler   *)
(* and an id (list.remove of a frozen dataclass), not its own place.        *)
Unsubscribed(registrations, r) ==
    LET equal == {i \in DOMAIN registrations : registrations[i] = r}
    IN  IF equal = {} THEN registrations
        ELSE RemoveAt(registrations, CHOOSE i \in equal : \A j \in equal : i <= j)
=============================================================================

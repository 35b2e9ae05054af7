---------------------------- MODULE MCAgentLoop ----------------------------
(* AgentLoop for TLC: inputs are numbered, so no symmetry.  What becomes of *)
(* a batch of calls, and of an event in a chain of handlers, is evaluated   *)
(* for every script of two calls and every chain of up to three handlers.   *)
EXTENDS AgentLoop

LOCAL INSTANCE SequencesExt
T == INSTANCE ToolCalls

-----------------------------------------------------------------------------
(* Batches                                                                 *)

Script(found, valid, before, executes, after) ==
    [found |-> found, valid |-> valid, before |-> before,
     executes |-> executes, after |-> after]

(* Calls that could run, and one of each kind that could not               *)
Calls == {c \in T!Scripts : (c.found /\ c.valid /\ c.before # "fails")
                              \/ (c.before = "passes" /\ c.executes = "done"
                                     /\ c.after = "keeps")}
Batches == {<<c>> : c \in Calls} \union {<<c, d>> : c \in Calls, d \in Calls}
Looks(batch) == 3 * Len(batch)

(* A batch answers its calls from the first, all of them unless it is       *)
(* aborted, and an abort only takes answers away or refuses calls           *)
(* (execute_tool_calls).                                                   *)
AbortRefusesOrLeavesOut ==
    \A batch \in Batches, alone \in BOOLEAN :
        LET whole == T!Execute(batch, alone, Looks(batch))
        IN  /\ DOMAIN whole = DOMAIN batch
            /\ \A quiet \in 0..Looks(batch) :
                 LET results == T!Execute(batch, alone, quiet)
                 IN  /\ \E n \in 1..Len(batch) : DOMAIN results = 1..n
                     /\ \A i \in DOMAIN results :
                          results[i] \in {whole[i], T!Refused}

(* Undisturbed, a batch has the same answers in both modes.                *)
ModesAgree ==
    \A batch \in Batches :
        T!Execute(batch, TRUE, Looks(batch)) = T!Execute(batch, FALSE, Looks(batch))

(* An aborted batch may still end the run on the word of the calls that     *)
(* were answered, but a truncated one never does.                          *)
WhoEndsTheRun ==
    /\ \A batch \in Batches : ~T!Terminates(T!FailTruncated(batch))
    /\ \E batch \in Batches, quiet \in 0..6 :
         /\ T!Terminates(T!Execute(batch, TRUE, quiet))
         /\ ~T!Terminates(T!Execute(batch, TRUE, Looks(batch)))

-----------------------------------------------------------------------------
(* Chains                                                                  *)

Chains(Handlers, n) == UNION {[1..k -> Handlers] : k \in 0..n}
Silent(answer) == answer \in {T!Nothing, T!Failure}

Fields == {"content", "is_error", "terminate"}
Values == {"old", "new"}
Results == [Fields -> {"old"}]
Answers(S) == {T!Nothing, T!Failure} \union S
Patches == Answers({[says |-> "result", patch |-> p] :
                       p \in [Fields -> {"new", T!Unset}]})
(* Handlers that look at the content, the field a patch may have changed    *)
Events == [T!ShownFields(Fields) -> Values]
Patchers == {[e \in Events |-> IF e["content"] = "old" THEN p ELSE q] :
                p \in Patches, q \in Patches}

(* What a handler of the chain is shown, changed by its own patch, is what  *)
(* is staged, although the event and the patch are kept apart.             *)
StagedIsWhatHandlersSaw ==
    \A handlers \in Chains(Patchers, 2), result \in Results :
        T!AfterTool(handlers, result).event = T!Shown(T!Staged(handlers, result))

(* A handler that fails leaves nothing behind but its report, except before *)
(* a tool call and before a drive, where it stops the call or the drive.    *)
FailuresLeaveOnlyReports ==
    LET ends == Answers({[says |-> "result", followUp |-> f] : f \in {"f", T!Unset}})
        decides == Answers({[says |-> "result", decline |-> d, provides |-> p] :
                               d \in BOOLEAN, p \in BOOLEAN})
        Speaking(h) == SelectSeq(h, LAMBDA answer : ~Silent(answer))
    IN  /\ \A h \in Chains(ends, 3) :
             T!BeforeRunEnd(h).followUp = T!BeforeRunEnd(Speaking(h)).followUp
        /\ \A h \in Chains(decides, 3) :
             T!BeforeCompaction(h).says = T!BeforeNavigation(Speaking(h)).says
        /\ \A h \in Chains({T!Nothing, T!Failure}, 3) :
             /\ ~T!InvokeAll(h, FALSE).failed
             /\ T!InvokeAll(h, TRUE).failed <=> T!Failure \in Range(h)

(* A call is blocked exactly if a handler blocks it or fails, and what      *)
(* comes after that handler is not asked.                                  *)
OneBlockIsEnough ==
    LET says == Answers({[says |-> "result", args |-> a, block |-> b] :
                            a \in {"new", T!Unset}, b \in BOOLEAN})
        Stops(answer) == answer = T!Failure \/ (T!Says(answer) /\ answer.block)
        handlers == {[a \in Values |-> IF a = "old" THEN x ELSE y] :
                        x \in says, y \in says}
    IN  \A h \in Chains(handlers, 2) :
          LET s == T!BeforeTool(h, "old")
          IN  /\ s.blocked =>
                   \A g \in handlers : T!BeforeTool(Append(h, g), "old") = s
              /\ ~s.blocked =>
                   \A g \in handlers :
                      T!BeforeTool(Append(h, g), "old").blocked <=> Stops(g[s.args])

(* What a run injects is what the last handler saw after the prompt.        *)
InjectedFollowsPrompt ==
    LET adds == Answers({[says |-> "result", messages |-> m] :
                            m \in {<<>>, <<"m">>, <<"n">>}})
        prompts == {<<"p">>, <<"p", "m">>, <<"p", "n">>} \union
                   {<<"p", x, y>> : x \in {"m", "n"}, y \in {"m", "n"}}
        handlers == {[p \in prompts |-> IF Len(p) = 1 THEN x ELSE y] :
                        x \in adds, y \in adds}
    IN  \A h \in Chains(handlers, 2) :
          LET s == T!BeforeRun(h, <<"p">>)
          IN  s.prompt = <<"p">> \o s.added

(* Of two equal registrations the later one's unsubscribe takes the earlier *)
(* place, and the same unsubscribe called twice takes both.                *)
UnsubscribeTakesFirstEqual ==
    /\ T!Unsubscribed(<<"h", "g", "h">>, "h") = <<"g", "h">>
    /\ T!Unsubscribed(T!Unsubscribed(<<"h", "g", "h">>, "h"), "h") = <<"g">>

(* What becomes of a batch of calls and of an event in a chain of handlers,  *)
(* together: an abort only takes answers away or refuses calls, and a      *)
(* handler that fails stops nothing but a call or a drive.  It depends on  *)
(* no state, so it is evaluated in the first ones.                         *)
CallsSound ==
    DialogueInit =>
        /\ AbortRefusesOrLeavesOut /\ ModesAgree /\ WhoEndsTheRun
        /\ StagedIsWhatHandlersSaw /\ FailuresLeaveOnlyReports /\ OneBlockIsEnough
        /\ InjectedFollowsPrompt /\ UnsubscribeTakesFirstEqual
=============================================================================

--------------------------- MODULE ProviderRequest ---------------------------
(***************************************************************************)
(* The request that carries a transcript to a provider: system messages    *)
(* replayed into one (llm/utils/transcript.py), images taken out for a     *)
(* model that cannot see them (llm/transform_messages.py), and every       *)
(* message turned into the parameters of a completions request             *)
(* (convert_messages of llm/api/openai_completions.py).                    *)
(*                                                                         *)
(* A message's content is a sequence of blocks, each "text" or "image" or  *)
(* a "placeholder" for an image left out.  Tools are a function from names *)
(* to declarations.  An assistant message has flags for visible text and   *)
(* for thinking, and the ids of its tool calls.                            *)
(***************************************************************************)
EXTENDS Naturals, Sequences, SequencesExt, Functions

System(text, added, removed) ==
    [role |-> "system", text |-> text, added |-> added, removed |-> removed]
User(content) == [role |-> "user", content |-> content]
Assistant(text, thinking, calls) ==
    [role |-> "assistant", text |-> text, thinking |-> thinking, calls |-> calls]
ToolResult(call, content) == [role |-> "toolResult", call |-> call, content |-> content]

NoTools == <<>>

-----------------------------------------------------------------------------
(* The tools that hold after every change the transcript tells of.          *)
Changed(tools, m) ==
    IF m.role # "system" THEN tools
    ELSE m.added @@ [n \in DOMAIN tools \ m.removed |-> tools[n]]

CurrentTools(messages) == FoldLeft(Changed, NoTools, messages)

(* get_current_system_message and collapse_system_messages: one leading     *)
(* system message that says what all of them say together.                  *)
CollapseSystemMessages(messages) ==
    LET isSystem(m) == m.role = "system"
        others == SelectSeq(messages, LAMBDA m : ~isSystem(m))
        said   == FoldLeft(LAMBDA text, m : IF isSystem(m) THEN text \o m.text ELSE text,
                           <<>>, messages)
    IN  IF \E i \in DOMAIN messages : isSystem(messages[i])
        THEN <<System(said, CurrentTools(messages), {})>> \o others
        ELSE others

(* transform_messages: a run of images becomes one placeholder.             *)
ReplaceImages(content) ==
    FoldLeft(LAMBDA done, block :
                IF block # "image" THEN Append(done, block)
                ELSE IF done # <<>> /\ Last(done) = "placeholder" THEN done
                ELSE Append(done, "placeholder"),
             <<>>, content)

TransformMessages(messages, vision) ==
    [i \in DOMAIN messages |->
        IF vision \/ messages[i].role \notin {"user", "toolResult"} THEN messages[i]
        ELSE [messages[i] EXCEPT !.content = ReplaceImages(@)]]

-----------------------------------------------------------------------------
(* convert_messages.  The compatibility flags: midSystem (system messages   *)
(* may stand in the middle), afterTool (an assistant message is needed      *)
(* between a tool result and a user message), asText (thinking is replayed  *)
(* as text), reasoning (every assistant message carries reasoning).         *)

Acknowledgement == [role |-> "assistant", content |-> <<"text">>, calls |-> <<>>,
                    reasoning |-> FALSE]

AssistantParam(m, compat) ==
    [role |-> "assistant",
     content |-> (IF m.thinking /\ compat.asText THEN <<"thinking">> ELSE <<>>)
                 \o (IF m.text THEN <<"text">> ELSE <<>>),
     calls |-> m.calls,
     reasoning |-> (m.thinking /\ ~compat.asText) \/ compat.reasoning]

Images(content) == SelectSeq(content, LAMBDA block : block = "image")
NotImages(content) == SelectSeq(content, LAMBDA block : block # "image")

(* Mutant: the images follow each result at once.                           *)
MutImagesAtOnce(acc, m, next, compat, vision) ==
    LET params == Append(acc.params, [role |-> "tool", call |-> m.call,
                                      content |-> NotImages(m.content)])
        images == IF vision THEN acc.images \o Images(m.content) ELSE acc.images
        acknowledged == IF compat.afterTool THEN Append(params, Acknowledgement) ELSE params
    IN  IF images # <<>>
        THEN [params |-> Append(acknowledged,
                                [role |-> "user", content |-> <<"text">> \o images]),
              last |-> "user", images |-> <<>>]
        ELSE [params |-> params, last |-> "toolResult", images |-> images]

(* acc: the parameters so far, the role of the last message, and the images *)
(* of tool results that still wait for the end of their run of results.     *)
ConvertResult(acc, m, next, compat, vision) ==
    LET params == Append(acc.params, [role |-> "tool", call |-> m.call,
                                      content |-> NotImages(m.content)])
        images == IF vision THEN acc.images \o Images(m.content) ELSE acc.images
        acknowledged == IF compat.afterTool THEN Append(params, Acknowledgement) ELSE params
    IN  IF images # <<>> /\ next # "toolResult"
        THEN [params |-> Append(acknowledged,
                                [role |-> "user", content |-> <<"text">> \o images]),
              last |-> "user", images |-> <<>>]
        ELSE [params |-> params, last |-> "toolResult", images |-> images]

ConvertMessage(acc, m, compat) ==
    LET before == IF compat.afterTool /\ acc.last = "toolResult" /\ m.role = "user"
                  THEN Append(acc.params, Acknowledgement) ELSE acc.params
        param  == CASE m.role = "system" -> [role |-> "instructions", content |-> m.text]
                    [] m.role = "user" -> [role |-> "user", content |-> m.content]
                    [] m.role = "assistant" -> AssistantParam(m, compat)
        empty  == param.content = <<>> /\ (m.role # "assistant" \/ m.calls = <<>>)
    IN  [acc EXCEPT !.params = IF empty THEN before ELSE Append(before, param),
                    !.last = m.role]

ConvertMessages(messages, compat, vision) ==
    LET normalized  == IF compat.midSystem THEN messages ELSE CollapseSystemMessages(messages)
        transformed == TransformMessages(normalized, vision)
        next(i) == IF i < Len(transformed) THEN transformed[i + 1].role ELSE "none"
        step(acc, i) ==
            IF transformed[i].role = "toolResult"
            THEN ConvertResult(acc, transformed[i], next(i), compat, vision)
            ELSE ConvertMessage(acc, transformed[i], compat)
    IN  FoldLeft(step, [params |-> <<>>, last |-> "none", images |-> <<>>],
                 [i \in 1 .. Len(transformed) |-> i]).params

(* build_params: the declarations that go with the messages.                *)
HasToolHistory(messages) ==
    \E i \in DOMAIN messages :
        \/ messages[i].role = "toolResult"
        \/ messages[i].role = "assistant" /\ messages[i].calls # <<>>

BuildParams(messages, compat, vision) ==
    [messages |-> ConvertMessages(messages, compat, vision),
     tools |-> CurrentTools(messages),
     declares |-> CurrentTools(messages) # NoTools \/ HasToolHistory(messages)]
=============================================================================

-------------------------- MODULE CompletionStream --------------------------
(***************************************************************************)
(* One model request: the request is built from a transcript, the answer   *)
(* arrives in chunks and becomes a message and a stream of events          *)
(* (stream of llm/api/openai_completions.py), the events wait in a queue   *)
(* (llm/utils/event_stream.py) until a consumer takes them and records     *)
(* them as frames.  The answer may stop at any chunk, fail at any chunk,   *)
(* and the caller may abort at any moment.                                 *)
(*                                                                         *)
(* The provider is the environment: it sends text, thinking and parts of   *)
(* tool calls in any interleaving, and tells calls apart by a stream index *)
(* ("index") or by repeating their id ("id").  A third style of producer,  *)
(* "external", is an adapter of an embedder's own, whose blocks may start  *)
(* with content that the deltas after them repeat.                         *)
(***************************************************************************)
EXTENDS ProviderRequest, MessageFrames, FiniteSetsExt

CONSTANTS
    Transcripts,      \* transcripts a request may carry
    Compats,          \* compatibility settings a model may have
    Styles,           \* how the provider tells tool calls apart
    Silent,           \* those of them that need not name a finish reason
    MaxPieces,        \* bound: pieces of text or thinking, or chunks about calls, of an answer
    MaxCalls,         \* bound: tool calls of an answer
    MaxExternal       \* bound: blocks of an external producer's answer

VARIABLES
    phase,      \* "prepare", "request", "streaming", "ended"
    request,    \* the transcript, its settings and the parameters built from it
    style,      \* how the producer works
    sent,       \* what the provider has sent: texts, chunks, and of each call
    answer,     \* the adapter's message, its tables of calls and the events it pushed
    aborted,    \* the caller's abort signal
    taken,      \* how many events the consumer has taken
    recorder,   \* the consumer's frame encoder
    frames      \* the frames recorded so far

vars == <<phase, request, style, sent, answer, aborted, taken, recorder, frames>>

SupportsFinish == style \notin Silent
Blocks == {"text", "thinking", "toolCall"}
Terminal == {"done", "error"}

NoRequest == [messages |-> <<>>, compat |-> <<>>, vision |-> FALSE, params |-> <<>>]

NewAnswer == [content |-> <<>>, ids |-> <<>>, byIndex |-> <<>>, byId |-> <<>>, args |-> <<>>,
              stop |-> "pending", finished |-> FALSE, events |-> <<>>]

Init ==
    /\ phase = "prepare"
    /\ \E m \in Transcripts, c \in Compats, v \in BOOLEAN :
         request = [messages |-> m, compat |-> c, vision |-> v, params |-> <<>>]
    /\ style = "none"
    /\ sent = [pieces |-> 0, calls |-> <<>>, last |-> "none"]
    /\ answer = NewAnswer
    /\ aborted = FALSE
    /\ taken = 0
    /\ recorder = NewEncoder
    /\ frames = <<>>

-----------------------------------------------------------------------------
(* The adapter's message and its events.  ids[i] is the id of the call at   *)
(* position i.  content_index finds a block by equality, so it finds the    *)
(* first of two equal ones.                                                 *)

Done(a) == a.events # <<>> /\ Last(a.events).type \in Terminal

(* AssistantMessageEventStream.push: each event is frozen as it is pushed,  *)
(* and nothing is pushed after the last one.                                *)
Push(a, e) ==
    IF Done(a) THEN a
    ELSE [a EXCEPT !.events = Append(@, [e EXCEPT !.partial = a.content])]

Event(type, kind, index, data) ==
    [type |-> type, kind |-> kind, index |-> index, data |-> data, partial |-> <<>>]

Equal(a, i, j) == a.content[i] = a.content[j] /\ a.ids[i] = a.ids[j]
ContentIndex(a, i) == Min({j \in 1 .. i : Equal(a, i, j)})

WithBlockOf(a, kind, id) ==
    [a EXCEPT !.content = Append(@, [kind |-> kind, data |-> <<>>]), !.ids = Append(@, id)]

(* ensure_text and ensure_thinking: one block of each kind per message.     *)
EnsureBlock(a, kind) ==
    IF \E i \in DOMAIN a.content : a.content[i].kind = kind THEN a
    ELSE LET b == WithBlockOf(a, kind, "") IN
         Push(b, Event("start", kind, ContentIndex(b, Len(b.content)), <<>>))

AddText(a, kind, piece) ==
    LET b == EnsureBlock(a, kind)
        i == CHOOSE j \in DOMAIN b.content : b.content[j].kind = kind
        c == [b EXCEPT !.content[i].data = Append(@, piece)]
    IN  Push(c, Event("delta", kind, ContentIndex(c, i), <<piece>>))

(* Mutant: a call without a stream index is not found by its id.            *)
MutByIndexOnly(a, delta) ==
    IF delta.index \in DOMAIN a.byIndex THEN a.byIndex[delta.index] ELSE 0

(* ensure_tool: the call's block, by its stream index, else by its id, else *)
(* a new one.  delta = [index, id, args]; no index is 0, no id is "".       *)
Known(a, delta) ==
    IF delta.index \in DOMAIN a.byIndex THEN a.byIndex[delta.index]
    ELSE IF delta.id # "" /\ delta.id \in DOMAIN a.byId THEN a.byId[delta.id]
    ELSE 0

Mapped(f, k, v) == [x \in DOMAIN f \cup {k} |-> IF x = k THEN v ELSE f[x]]

NewCall(a, delta) ==
    LET b == WithBlockOf(a, "toolCall", delta.id)
        i == Len(b.content)
        c == [b EXCEPT !.args = Mapped(@, ContentIndex(b, i), <<>>),
                       !.byIndex = IF delta.index = 0 THEN @ ELSE Mapped(@, delta.index, i)]
    IN  Push(c, Event("start", "toolCall", ContentIndex(b, i), <<>>))

EnsureTool(a, delta) ==
    LET b == IF Known(a, delta) = 0 THEN NewCall(a, delta) ELSE a
        i == IF Known(a, delta) = 0 THEN Len(b.content) ELSE Known(a, delta)
    IN  IF delta.id = "" THEN b
        ELSE [b EXCEPT !.ids[i] = delta.id, !.byId = Mapped(@, delta.id, i)]

AddCallDelta(a, delta) ==
    LET b == EnsureTool(a, delta)
        i == IF Known(a, delta) = 0 THEN Len(b.content) ELSE Known(a, delta)
        k == ContentIndex(b, i)
        args == (IF k \in DOMAIN b.args THEN b.args[k] ELSE <<>>) \o delta.args
        c == [b EXCEPT !.args = Mapped(@, k, args),
                       !.content[i].data = ParseStreamingJson(args)]
    IN  Push(c, Event("delta", "toolCall", k, delta.args))

(* _map_stop_reason *)
MapStopReason(reason) ==
    CASE reason \in {"stop", "end"} -> "stop"
      [] reason = "length" -> "length"
      [] reason \in {"function_call", "tool_calls"} -> "toolUse"
      [] reason \in {"content_filter", "other"} -> "error"

Finished(a, reason) ==
    IF reason = "none" THEN a
    ELSE [a EXCEPT !.stop = MapStopReason(reason), !.finished = TRUE]

(* One chunk, in the code's order: finish reason, text, thinking, calls.    *)
Read(a, chunk) ==
    LET b == Finished(a, chunk.finish)
        c == IF chunk.text = <<>> THEN b ELSE AddText(b, "text", chunk.text[1])
        d == IF chunk.thinking = <<>> THEN c ELSE AddText(c, "thinking", chunk.thinking[1])
    IN  FoldLeft(AddCallDelta, d, chunk.calls)

(* finish_block, for every block in order.                                  *)
FinishBlock(a, i) ==
    LET k == ContentIndex(a, i)
        b == IF a.content[i].kind = "toolCall" /\ k \in DOMAIN a.args
             THEN [a EXCEPT !.content[i].data = ParseStreamingJson(a.args[k])] ELSE a
    IN  Push(b, Event("end", a.content[i].kind, k, b.content[i].data))

FinishBlocks(a) == FoldLeft(FinishBlock, a, [i \in 1 .. Len(a.content) |-> i])

(* What the stream ends with once no chunk is left.                         *)
Verdict(a) ==
    LET stop == IF a.finished \/ SupportsFinish THEN a.stop
                ELSE IF \E i \in DOMAIN a.content : a.content[i].kind = "toolCall"
                THEN "toolUse" ELSE "stop"
    IN  CASE aborted -> "aborted"
          [] ~aborted /\ (stop \in {"error", "pending"} \/ (SupportsFinish /\ ~a.finished)) -> "error"
          [] OTHER -> stop

Ended(a, stop) ==
    Push([a EXCEPT !.stop = stop],
         Event(IF stop \in {"aborted", "error"} THEN "error" ELSE "done", "none", 0, stop))

-----------------------------------------------------------------------------
(* The request is built and sent; what was built is not looked at again.    *)
BuildRequest ==
    /\ phase = "prepare" /\ ~aborted
    /\ request' = [request EXCEPT !.params = BuildParams(request.messages, request.compat,
                                                         request.vision)]
    /\ phase' = "request"
    /\ UNCHANGED <<style, sent, answer, aborted, taken, recorder, frames>>

Respond ==
    /\ phase = "request" /\ ~aborted
    /\ phase' = "streaming"
    /\ request' = NoRequest
    /\ style' \in Styles
    /\ answer' = Push(answer, Event("message_start", "none", 0, <<>>))
    /\ UNCHANGED <<sent, aborted, taken, recorder, frames>>

(* What was built is of no use any more once the caller aborts.             *)
Abort ==
    /\ ~aborted /\ phase # "ended"
    /\ aborted' = TRUE
    /\ request' = NoRequest
    /\ UNCHANGED <<phase, style, sent, answer, taken, recorder, frames>>

(* The provider's side of a chunk: call c's next part of its JSON text.     *)
CallText(c) == <<"{", "k", <<"v1", "v2", "v3">>[c], "}">>
CallIds == <<"t1", "t2", "t3">>

(* Its n next pieces.  A call's first delta names the call.                 *)
CallDelta(c, n) ==
    LET opens == c \notin DOMAIN sent.calls
        from == IF opens THEN 0 ELSE sent.calls[c]
    IN  [index |-> IF style = "id" THEN 0 ELSE c,
         id    |-> IF style = "id" \/ (style = "index" /\ opens) THEN CallIds[c] ELSE "",
         args  |-> SubSeq(CallText(c), from + 1, Min({from + n, Len(CallText(c))}))]

(* A chunk carries nothing but a finish reason, or one piece of text, of    *)
(* thinking or of both, or a part of one call, or the start of a call       *)
(* together with a part of the call before it.                              *)
Chunks ==
    LET chunk(finish, text, thinking, calls) ==
            [finish |-> finish, text |-> text, thinking |-> thinking, calls |-> calls]
        piece == <<sent.pieces + 1>>
        new == Len(sent.calls) + 1
        starts == IF new > MaxCalls THEN {} ELSE {CallDelta(new, n) : n \in 0 .. 1}
        parts == {CallDelta(c, n) : c \in DOMAIN sent.calls, n \in 1 .. 2}
        more == {d \in parts : d.args # <<>>}
    IN  {chunk(f, <<>>, <<>>, <<>>) : f \in {"stop", "tool_calls", "length", "content_filter"}}
        \cup (IF sent.pieces = MaxPieces THEN {}
              ELSE {chunk("none", piece, <<>>, <<>>), chunk("none", <<>>, piece, <<>>),
                    chunk("none", piece, piece, <<>>)}
                   \cup {chunk("none", <<>>, <<>>, <<d>>) : d \in starts \cup more}
                   \cup {chunk("none", <<>>, <<>>, <<d, e>>) : d \in more, e \in starts})

Received(chunk) ==
    LET called(calls, d) ==
            LET c == CHOOSE n \in 1 .. MaxCalls : n \in {d.index} \cup
                                                  {m \in 1 .. MaxCalls : CallIds[m] = d.id}
            IN  IF c > Len(calls) THEN Append(calls, Len(d.args))
                ELSE [calls EXCEPT ![c] = @ + Len(d.args)]
    IN  [pieces |-> sent.pieces + (IF chunk.finish = "none" THEN 1 ELSE 0),
         calls |-> FoldLeft(called, sent.calls, chunk.calls),
         last |-> IF chunk.finish = "none" THEN sent.last ELSE chunk.finish]

(* A line of the response that is a chunk.  Comments, empty lines and what  *)
(* is no JSON object are passed over and change nothing.                    *)
ReadChunk ==
    /\ phase = "streaming" /\ style # "external" /\ ~aborted
    /\ \E chunk \in Chunks :
         /\ sent.last = "none" \/ chunk.finish = "none"
         /\ answer' = Read(answer, chunk)
         /\ sent' = Received(chunk)
    /\ UNCHANGED <<phase, request, style, aborted, taken, recorder, frames>>

(* "[DONE]", or the response ends: with or without a finish reason.         *)
FinishStream ==
    /\ phase = "streaming" /\ style # "external"
    /\ LET a == FinishBlocks(answer) IN answer' = Ended(a, Verdict(a))
    /\ phase' = "ended"
    /\ UNCHANGED <<request, style, sent, aborted, taken, recorder, frames>>

(* Anything that is raised on the way, the cancellation by the abort signal *)
(* included, ends the stream with one error event.                          *)
FailStream ==
    /\ phase \in {"prepare", "request", "streaming"}
    /\ answer' = Ended(answer, IF aborted THEN "aborted" ELSE "error")
    /\ phase' = "ended"
    /\ request' = NoRequest
    /\ UNCHANGED <<style, sent, aborted, taken, recorder, frames>>

-----------------------------------------------------------------------------
(* An embedder's adapter: a block starts with some of its content already   *)
(* there; its deltas repeat that and go on.                                 *)
OpenBlocks(a) ==
    {i \in DOMAIN a.content :
        ~\E k \in DOMAIN a.events : a.events[k].type = "end" /\ a.events[k].index = i}

Told(events, i) ==
    FoldLeft(LAMBDA told, e : IF e.type = "delta" /\ e.index = i THEN told \o e.data ELSE told,
             <<>>, events)

(* The text a block will have in the end.                                   *)
WholeText(kind, i) == IF kind = "toolCall" THEN CallText(i) ELSE <<1, 2, 3>>
Holding(kind, text) == IF kind = "toolCall" THEN ParseStreamingJson(text) ELSE text

ExternalStart ==
    /\ phase = "streaming" /\ style = "external" /\ Len(answer.content) < MaxExternal
    /\ \E kind \in Blocks, n \in 0 .. 3 :
         LET i == Len(answer.content) + 1
             whole == WholeText(kind, i)
             held == Holding(kind, SubSeq(whole, 1, Min({n, Len(whole)})))
             a == [answer EXCEPT !.content = Append(@, [kind |-> kind, data |-> held])]
         IN  answer' = Push(a, Event("start", kind, i, <<>>))
    /\ UNCHANGED <<phase, request, style, sent, aborted, taken, recorder, frames>>

ExternalDelta ==
    /\ phase = "streaming" /\ style = "external" /\ sent.pieces < MaxPieces
    /\ sent' = [sent EXCEPT !.pieces = @ + 1]
    /\ \E i \in OpenBlocks(answer), n \in 1 .. 2 :
         LET kind == answer.content[i].kind
             told == Told(answer.events, i)
             text == SubSeq(WholeText(kind, i), 1, Len(told) + n)
             held == Holding(kind, text)
             a == IF Len(held) > Len(answer.content[i].data)
                  THEN [answer EXCEPT !.content[i].data = held] ELSE answer
         IN  /\ Len(told) + n <= Len(WholeText(kind, i))
             /\ answer' = Push(a, Event("delta", kind, i, SubSeq(text, Len(told) + 1, Len(text))))
    /\ UNCHANGED <<phase, request, style, aborted, taken, recorder, frames>>

ExternalEnd ==
    /\ phase = "streaming" /\ style = "external"
    /\ \E i \in OpenBlocks(answer) :
         LET kind == answer.content[i].kind
             a == [answer EXCEPT !.content[i].data = Holding(kind, WholeText(kind, i))]
         IN  answer' = Push(a, Event("end", kind, i, a.content[i].data))
    /\ UNCHANGED <<phase, request, style, sent, aborted, taken, recorder, frames>>

ExternalDone ==
    /\ phase = "streaming" /\ style = "external" /\ OpenBlocks(answer) = {}
    /\ answer' = Ended(answer, "stop")
    /\ phase' = "ended"
    /\ UNCHANGED <<request, style, sent, aborted, taken, recorder, frames>>

-----------------------------------------------------------------------------
(* The consumer takes the next event, in its own time, and records it.      *)
TakeEvent ==
    /\ taken < Len(answer.events)
    /\ taken' = taken + 1
    /\ LET done == Encode(recorder, answer.events[taken + 1]) IN
         /\ recorder' = done.enc
         /\ frames' = IF done.frame = NoFrame THEN frames ELSE Append(frames, done.frame)
    /\ UNCHANGED <<phase, request, style, sent, answer, aborted>>

Next ==
    \/ BuildRequest \/ Respond \/ Abort \/ ReadChunk \/ FinishStream \/ FailStream
    \/ ExternalStart \/ ExternalDelta \/ ExternalEnd \/ ExternalDone
    \/ TakeEvent

Spec == Init /\ [][Next]_vars

(* The event loop runs the consumer whenever an event waits, and delivers   *)
(* the cancellation of an aborted request; that an answer ends otherwise is *)
(* up to the provider.                                                      *)
FairSpec == Spec /\ WF_vars(TakeEvent) /\ WF_vars(aborted /\ FailStream)

-----------------------------------------------------------------------------
(* PROPERTIES *)

TypeOK ==
    /\ phase \in {"prepare", "request", "streaming", "ended"}
    /\ style \in Styles \cup {"none"}
    /\ aborted \in BOOLEAN
    /\ taken \in 0 .. Len(answer.events)
    /\ \A i \in DOMAIN answer.content : answer.content[i].kind \in Blocks

(* What a request says of its transcript, and what a provider requires of   *)
(* it.  Every result follows at once the message that made its call, in the *)
(* order of the calls; every call the transcript answers has its result     *)
(* there, and none is invented for a call it leaves open: the turn of a     *)
(* request that failed, or a run that was cut off, may leave calls without  *)
(* results, and they reach the provider as they are.  No image the model    *)
(* can see is lost or sent twice; the instructions are said once, first,    *)
(* unless the model takes them anywhere; and tools are declared wherever    *)
(* the request holds results.                                               *)
Sent == request.params.messages
OpenCalls(messages, result) ==
    UNION {ToSet(m.calls) : m \in {x \in ToSet(messages) : x.role = "assistant"}}
        \ {m.call : m \in {x \in ToSet(messages) : x.role = result}}
ResultsFollowCalls ==
    /\ \A i \in DOMAIN Sent : Sent[i].role = "tool" =>
         \E j \in 1 .. i - 1 : /\ Sent[j].role = "assistant"
                              /\ i - j \in DOMAIN Sent[j].calls
                              /\ Sent[i].call = Sent[j].calls[i - j]
    /\ OpenCalls(Sent, "tool") = OpenCalls(request.messages, "toolResult")
CountBlocks(messages, block) ==
    FoldLeft(LAMBDA n, m : IF m.role \in {"user", "toolResult", "tool"}
                           THEN n + Len(SelectSeq(m.content, LAMBDA b : b = block)) ELSE n,
             0, messages)
SystemTexts == FoldLeft(LAMBDA said, m : IF m.role = "system" THEN said \o m.text ELSE said,
                        <<>>, request.messages)
Instructions == FoldLeft(LAMBDA said, m : IF m.role = "instructions" THEN said \o m.content
                                          ELSE said, <<>>, Sent)
RequestWellFormed ==
    phase = "request" /\ ~aborted =>
        /\ ResultsFollowCalls
        /\ request.vision => CountBlocks(Sent, "image") = CountBlocks(request.messages, "image")
        /\ ~request.vision => CountBlocks(Sent, "image") = 0
        /\ Instructions = SystemTexts
        /\ ~request.compat.midSystem =>
                \A i \in DOMAIN Sent : Sent[i].role = "instructions" => i = 1
        /\ (\E i \in DOMAIN Sent : Sent[i].role = "tool") => request.params.declares

(* The events alone tell the message: at every event the snapshot it        *)
(* carries is what the starts and deltas up to it add up to, so a block     *)
(* starts once, at the next free position, its deltas come in order and go  *)
(* to no other block, and nothing follows the terminal event.  And what the *)
(* provider sent of each call is what the message holds of that call.  (The *)
(* adapter never waits for its consumer, so every answer it can give is one *)
(* it gives with nothing taken yet.)                                        *)
Replayed(events) ==
    FoldLeft(LAMBDA m, e : IF e.type = "start" /\ e.index = Len(m) + 1
                           THEN Append(m, [kind |-> e.kind,
                                           data |-> Holding(e.kind, Told(events, e.index))])
                           ELSE m,
             <<>>, events)
CallsOf(a) == SelectSeq(a.content, LAMBDA b : b.kind = "toolCall")
EventsDescribeMessage ==
    style # "external" /\ taken = 0 =>
        /\ \A k \in DOMAIN answer.events :
             /\ answer.events[k].partial = Replayed(SubSeq(answer.events, 1, k))
             /\ answer.events[k].type \in Terminal => k = Len(answer.events)
             /\ answer.events[k].type = "end" =>
                  answer.events[k].data = answer.events[k].partial[answer.events[k].index].data
        /\ phase = "ended" /\ answer.stop \in {"stop", "length", "toolUse"} =>
             \A i \in DOMAIN answer.content :
                Cardinality({k \in DOMAIN answer.events :
                                answer.events[k].type = "end" /\ answer.events[k].index = i}) = 1
        /\ Len(CallsOf(answer)) = Len(sent.calls)
        /\ \A c \in DOMAIN sent.calls :
             CallsOf(answer)[c].data = Holding("toolCall", SubSeq(CallText(c), 1, sent.calls[c]))

(* However late the consumer is, the frames it recorded so far rebuild what *)
(* the events it took tell: of a block that ended its content, of an open   *)
(* one the longer of what its start carried and what its deltas add up to.  *)
(* Nothing is doubled, nothing is lost, and no event of a stream makes the  *)
(* encoder or the reducer raise.                                            *)
Shown(events, i) ==
    LET start == events[CHOOSE k \in DOMAIN events : events[k].type = "start" /\ events[k].index = i]
        ends == {k \in DOMAIN events : events[k].type = "end" /\ events[k].index = i}
        held == start.partial[i].data
        told == Holding(start.kind, Told(events, i))
    IN  [kind |-> start.kind,
         data |-> IF ends # {} THEN events[CHOOSE k \in ends : TRUE].data
                  ELSE IF Len(told) > Len(held) THEN told ELSE held]
FramesRebuildMessage ==
    LET events == SubSeq(answer.events, 1, taken)
        rebuilt == Reduce(frames)
        starts == {k \in DOMAIN events : events[k].type = "start"}
    IN  /\ ~recorder.raised /\ ~rebuilt.raised
        /\ Len(rebuilt.content) = Cardinality(starts)
        /\ \A i \in DOMAIN rebuilt.content : rebuilt.content[i] = Shown(events, i)

(* An answer that was cut off never passes for a whole one: a stream that   *)
(* ends as done was not aborted before its end, and, where the provider     *)
(* promises a finish reason, it gave a good one, which is the one reported. *)
CutOffIsError ==
    phase = "ended" /\ Last(answer.events).type = "done" /\ style # "external" =>
        /\ ~aborted
        /\ sent.last # "content_filter"
        /\ SupportsFinish => /\ sent.last # "none"
                             /\ answer.stop = MapStopReason(sent.last)
        /\ sent.last = "none" /\ sent.calls # <<>> => answer.stop = "toolUse"

(* An aborted request ends and its consumer is told, however the provider   *)
(* goes on.                                                                 *)
AbortEnds == aborted ~> (phase = "ended" /\ taken = Len(answer.events))

(* The answer a caller gets, together: its events tell its content, the     *)
(* frames that are recorded of them rebuild it, and a cut-off answer ends   *)
(* as an error.                                                             *)
AnswerFaithful == EventsDescribeMessage /\ FramesRebuildMessage /\ CutOffIsError

=============================================================================

---------------------------- MODULE MessageFrames ----------------------------
(***************************************************************************)
(* Recording a streamed assistant message as frames                        *)
(* (llm/utils/assistant_message_frame.py).  AssistantMessageFrameEncoder   *)
(* turns each event of a stream into at most one frame; a frame repeats    *)
(* nothing that an earlier frame already says, and                         *)
(* reduce_assistant_message_frames builds the message back from any prefix *)
(* of the frames.                                                          *)
(*                                                                         *)
(* A text is a sequence of pieces.  The JSON text of a tool call's         *)
(* arguments is a sequence over "{" , "k" (the key up to the opening quote *)
(* of its value), the pieces of the value, and "}" (the closing quote and  *)
(* brace).  A parsed argument object is the sequence of what it holds: <<>>*)
(* is {}, <<"k">> \o v is the object whose one key has the value v.        *)
(***************************************************************************)
EXTENDS Naturals, Sequences, SequencesExt

NoFrame == [type |-> "none"]

(* parse_streaming_json: an unfinished object is closed and parsed, what    *)
(* is no object at all is {}.                                               *)
Unfinished(json) ==
    /\ json # <<>>
    /\ \A i \in DOMAIN json : /\ (json[i] = "{") <=> (i = 1)
                              /\ (json[i] = "k") <=> (i = 2)
                              /\ (json[i] = "}") => (i = Len(json) /\ i > 2)

ParseStreamingJson(json) ==
    IF Unfinished(json) THEN SelectSeq(Tail(json), LAMBDA f : f # "}") ELSE <<>>

-----------------------------------------------------------------------------
(* The encoder: what it knows of each open block.  A text block: how much   *)
(* of it the start frame carried and how much the deltas have repeated.  A  *)
(* tool call: whether its deltas have caught up with the arguments that its *)
(* start frame carried.                                                     *)

NewEncoder == [started |-> FALSE, terminal |-> FALSE, raised |-> FALSE, blocks |-> <<>>]

Raise(enc) == [enc |-> [enc EXCEPT !.raised = TRUE], frame |-> NoFrame]

Open(enc, e) == e.index \in DOMAIN enc.blocks /\ enc.blocks[e.index].kind = e.kind

WithBlock(enc, i, b) ==
    [enc EXCEPT !.blocks = [j \in DOMAIN @ \cup {i} |-> IF j = i THEN b ELSE @[j]]]

WithoutBlock(enc, i) ==
    [enc EXCEPT !.blocks = [j \in DOMAIN @ \ {i} |-> @[j]]]

StartedBlock(e) ==
    LET held == e.partial[e.index].data IN
    IF e.kind = "toolCall"
    THEN [kind |-> e.kind, caughtUp |-> held = <<>>, catchup |-> <<>>, snapshot |-> held]
    ELSE [kind |-> e.kind, snapshot |-> Len(held), seen |-> 0]

EncodeStart(enc, e) ==
    IF e.index \in DOMAIN enc.blocks \/ e.index \notin DOMAIN e.partial
       \/ e.partial[e.index].kind # e.kind
    THEN Raise(enc)
    ELSE [enc |-> WithBlock(enc, e.index, StartedBlock(e)),
          frame |-> [type |-> "start", kind |-> e.kind, index |-> e.index,
                     block |-> e.partial[e.index]]]

(* A delta's part that the start frame already carried is left out.         *)
EncodeTextDelta(enc, e) ==
    LET b == enc.blocks[e.index]
        covered == IF b.snapshot > b.seen THEN b.snapshot - b.seen ELSE 0
    IN  [enc |-> WithBlock(enc, e.index, [b EXCEPT !.seen = @ + Len(e.data)]),
         frame |-> IF covered >= Len(e.data) THEN NoFrame
                   ELSE [type |-> "delta", kind |-> e.kind, index |-> e.index,
                         data |-> SubSeq(e.data, covered + 1, Len(e.data))]]

(* The deltas of a call are held back until they reach what its start frame *)
(* carried; then one checkpoint stands for all of them.                     *)
EncodeCallDelta(enc, e) ==
    LET b == enc.blocks[e.index]
        json == b.catchup \o e.data
        frame(type, text) == IF text = <<>> THEN NoFrame
                             ELSE [type |-> type, kind |-> e.kind, index |-> e.index,
                                   data |-> text]
    IN  IF b.caughtUp THEN [enc |-> enc, frame |-> frame("delta", e.data)]
        ELSE IF IsPrefix(b.snapshot, ParseStreamingJson(json))
        THEN [enc |-> WithBlock(enc, e.index, [b EXCEPT !.caughtUp = TRUE, !.catchup = <<>>,
                                                        !.snapshot = <<>>]),
              frame |-> frame("checkpoint", json)]
        ELSE [enc |-> WithBlock(enc, e.index, [b EXCEPT !.catchup = json]), frame |-> NoFrame]

EncodeEnd(enc, e) ==
    [enc |-> WithoutBlock(enc, e.index),
     frame |-> [type |-> "end", kind |-> e.kind, index |-> e.index, data |-> e.data]]

Encode(enc, e) ==
    CASE enc.raised -> [enc |-> enc, frame |-> NoFrame]
      [] enc.terminal -> Raise(enc)
      [] ~enc.raised /\ ~enc.terminal /\ e.type = "message_start" ->
            IF enc.started THEN Raise(enc)
            ELSE [enc |-> [enc EXCEPT !.started = TRUE], frame |-> [type |-> "message_start"]]
      [] ~enc.raised /\ ~enc.terminal /\ e.type \in {"done", "error"} ->
            IF e.type = "done" /\ ~enc.started THEN Raise(enc)
            ELSE [enc |-> [enc EXCEPT !.terminal = TRUE], frame |-> NoFrame]
      [] ~enc.raised /\ ~enc.terminal /\ e.type = "start" ->
            IF enc.started THEN EncodeStart(enc, e) ELSE Raise(enc)
      [] ~enc.raised /\ ~enc.terminal /\ e.type = "delta" ->
            IF ~enc.started \/ ~Open(enc, e) THEN Raise(enc)
            ELSE IF e.kind = "toolCall" THEN EncodeCallDelta(enc, e)
            ELSE EncodeTextDelta(enc, e)
      [] ~enc.raised /\ ~enc.terminal /\ e.type = "end" ->
            IF enc.started /\ Open(enc, e) THEN EncodeEnd(enc, e) ELSE Raise(enc)

-----------------------------------------------------------------------------
(* The reducer.  Its state: no message yet, a message with what is known of *)
(* each block, or an exception.                                             *)

NoMessage == [started |-> FALSE, early |-> FALSE, raised |-> FALSE, content |-> <<>>]

ReduceFrame(m, f) ==
    LET appends == f.type = "start" /\ f.index = Len(m.content) + 1
        active  == /\ f.type \in {"delta", "checkpoint", "end"}
                   /\ f.index \in DOMAIN m.content
                   /\ m.content[f.index].kind = f.kind
                   /\ ~m.content[f.index].ended
    IN  IF m.raised THEN m
        ELSE IF f.type = "message_start"
        THEN IF m.started \/ m.early THEN [m EXCEPT !.raised = TRUE]
             ELSE [m EXCEPT !.started = TRUE]
        ELSE IF ~m.started THEN [m EXCEPT !.early = TRUE]
        ELSE IF appends
        THEN [m EXCEPT !.content = Append(@, [kind |-> f.kind, data |-> f.block.data,
                                               ended |-> FALSE, json |-> <<>>])]
        ELSE IF ~active THEN [m EXCEPT !.raised = TRUE]
        ELSE IF f.type = "end"
        THEN [m EXCEPT !.content[f.index].data = f.data, !.content[f.index].ended = TRUE]
        ELSE IF f.type = "checkpoint"
        THEN [m EXCEPT !.content[f.index].data = ParseStreamingJson(f.data),
                       !.content[f.index].json = f.data]
        ELSE IF f.kind = "toolCall"
        THEN [m EXCEPT !.content[f.index].json = @ \o f.data]
        ELSE [m EXCEPT !.content[f.index].data = @ \o f.data]

(* The arguments of a call that never ended are what its text parses to.    *)
ReducedBlock(b) ==
    [kind |-> b.kind,
     data |-> IF b.kind # "toolCall" \/ b.ended \/ b.json = <<>> THEN b.data
              ELSE ParseStreamingJson(b.json)]

Reduce(frames) ==
    LET m == FoldLeft(ReduceFrame, NoMessage, frames) IN
    [m EXCEPT !.content = [i \in DOMAIN m.content |-> ReducedBlock(m.content[i])]]
=============================================================================

------------------------ MODULE MCCompletionStream ------------------------
(* CompletionStream for TLC.  The transcripts: instructions that change    *)
(* tools, then two turns, each a user message and an assistant message     *)
(* with its results, with images in both kinds of message.  A turn that    *)
(* failed, or was cut off, answers none or only the first of its calls.    *)
EXTENDS CompletionStream

Tool1 == "read" :> 1
Tool2 == "read" :> 2
Leads == {<<>>, <<System(<<"s1">>, Tool1, {})>>}
Changes == {<<>>, <<System(<<"s2">>, Tool2, {})>>, <<System(<<>>, NoTools, {"read"})>>}
Contents == {<<"text">>, <<"image", "image", "text">>}

Results(calls, images) ==
    [i \in DOMAIN images |-> ToolResult(calls[i], IF images[i] THEN <<"text", "image">> ELSE <<"text">>)]

(* One value of images for each call that has its result.                  *)
Turns(user, x, y, calls) ==
    {<<User(user), Assistant(x, y, calls)>> \o Results(calls, images) :
        images \in UNION {[1 .. n -> BOOLEAN] : n \in 0 .. Len(calls)}}

FirstTurns ==
    UNION {Turns(u, x, y, calls) : u \in Contents, x \in BOOLEAN, y \in BOOLEAN,
                                   calls \in {<<>>, <<"c1">>, <<"c1", "c2">>}}

SecondTurns ==
    {<<>>} \cup {<<User(<<"text">>)>>}
    \cup {<<Assistant(x, FALSE, <<"c3">>)>> \o s :
            x \in BOOLEAN, s \in {<<>>} \cup {<<ToolResult("c3", r)>> : r \in Contents}}

MCTranscripts ==
    {l \o f \o c \o s : l \in Leads, f \in FirstTurns, c \in Changes, s \in SecondTurns}

MCCompats ==
    {[midSystem |-> FALSE, afterTool |-> a, asText |-> t, reasoning |-> r] :
        a \in BOOLEAN, t \in BOOLEAN, r \in {FALSE}}
    \cup {[midSystem |-> TRUE, afterTool |-> FALSE, asText |-> FALSE, reasoning |-> TRUE]}

=============================================================================

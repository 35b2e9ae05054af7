---------------------------- MODULE MCToolBatch ----------------------------
(* ToolBatch for TLC: two calls, whose order matters, so no symmetry; and   *)
(* the output of a tool, for every text of up to five characters, the run   *)
(* of a command, for every six events of it, and the                        *)
(* edits of a file, for every text of up to four.                          *)
EXTENDS ToolBatch, ShellOutput

LOCAL INSTANCE SequencesExt

(* A letter, a letter of two bytes, a newline and a bell *)
CharWidth == [a |-> 1, e |-> 2, n |-> 1, b |-> 1, R |-> 3]

Texts(n) == SeqOf({"a", "e", "n"}, n)
MaxLinesOf == 1..2
MaxBytesOf == 1..3

(* A text in n chunks of bytes of about the same length                     *)
ChunksOf(bytes, n) ==
    [k \in 1..n |-> SubSeq(bytes, ((k - 1) * Len(bytes)) \div n + 1,
                           (k * Len(bytes)) \div n)]

Captured(retain, maxLines, maxBytes, chunks) ==
    LET state[k \in 0..Len(chunks)] ==
            IF k = 0 THEN NewCapture(retain, maxLines, maxBytes)
            ELSE Push(state[k - 1], chunks[k])
    IN  Finish(state[Len(chunks)])

(* Truncation stays within its limits, keeps whole lines unless the line at *)
(* the end does not fit alone, and drops nothing that would have fit        *)
(* (truncate.py, truncate_head and truncate_tail).                         *)
TruncationWithinLimits ==
    \A text \in Texts(5), ml \in MaxLinesOf, mb \in MaxBytesOf :
        LET head == TruncateHead(text, ml, mb)
            tail == TruncateTail(text, ml, mb)
            lines == Lines(text)
        IN  /\ \A kept \in {head, tail} :
                  /\ Fits(kept.content, ml, mb)
                  /\ (kept.by = "none") = Fits(text, ml, mb)
            /\ IsPrefix(head.content, text)
            /\ tail.content = text \/ IsSuffix(tail.content, Joined(lines))
            /\ LET cut == Len(Joined(lines)) - Len(tail.content)
               IN  tail.by = "none" \/ tail.partial \/ cut = 0 \/ text[cut] = "n"
            /\ (head.by # "none" /\ head.lines < ml /\ ~head.firstTooLong) =>
                   \/ head.lines = Len(lines)
                   \/ Size(Joined(SubSeq(lines, 1, head.lines + 1))) > mb

(* However the bytes of a text arrive, and although the buffer is trimmed   *)
(* on the way, the view shows the end of the whole text, or its beginning,  *)
(* and counts all of it, as long as a line may hold more than one of the    *)
(* widest character (output_capture.py, snapshot).                         *)
ViewShowsWhole ==
    \A text \in SeqOf({"e", "n"}, 8), ml \in MaxLinesOf :
        LET bytes == Encode(text)
            tail == TruncateTail(text, ml, 3)
        IN  \A n \in {1, 2, Len(bytes)} \ {0} :
                LET view == Snapshot(Captured("tail", ml, 3, ChunksOf(bytes, n)))
                    first == Snapshot(Captured("head", ml, 3, ChunksOf(bytes, n)))
                IN  /\ view.text = tail.content
                    /\ view.partial = tail.partial
                    /\ (view.partial /\ text[Len(text)] # "n")
                          => view.lastLineBytes = Size(Lines(text)[Len(Lines(text))])
                    /\ first.text = TruncateHead(text, ml, 3).content
                    /\ \A v \in {view, first} :
                          /\ v.truncated = ~Fits(text, ml, 3)
                          /\ v.totalBytes = Size(text)
                          /\ v.totalLines = Len(Lines(text))

(* With a smaller limit a trimmed buffer may pass for the whole: the view    *)
(* of five bytes in one line within one byte is the newline at their end.  *)
TinyLimitShowsNewline ==
    Snapshot(Captured("tail", 1, 1, <<Encode(<<"e", "e", "n">>)>>)).text = <<"n">>

(* A character may be split between chunks, but a chunk that also holds a   *)
(* byte that is no character loses it; so does one of another stream that   *)
(* comes between (output_capture.py, _IncrementalUtf8Decoder; local.py,     *)
(* where stdout and stderr share a view).                                  *)
BrokenBytesBreakNeighbours ==
    LET e == Encode(<<"e">>)
        split(before, between) ==
            Snapshot(Captured("tail", 9, 99,
                <<before \o <<e[1]>>, between, <<e[2]>> >>)).text
    IN  /\ split(Encode(<<"a">>), <<>>) = <<"a", "e">>
        /\ split(<<e[2]>>, <<>>) = <<"R", "R", "R">>
        /\ split(<<>>, Encode(<<"a">>)) = <<"R", "a", "R">>

(* Whichever views are published, their updates rebuild the last of them    *)
(* (_update_from, apply_shell_output_update).                              *)
UpdatesRebuildTexts ==
    \A before \in Texts(3), after \in Texts(3) :
        \A update \in Updates(before, after) : ApplyUpdate(before, update) = after
-----------------------------------------------------------------------------
(* The run of a command                                                    *)

Writes(stream, listener, fileOk) ==
    [is |-> "writes", stream |-> stream, chunk |-> Encode(<<"e">>),
     listener |-> listener, fileOk |-> fileOk]
Happenings ==
    {Writes("stdout", listener, TRUE) :
        listener \in {"fine", "raises", "raises at the path", "raises later"}}
    \union {Writes("stdout", "fine", FALSE), Writes("stderr", "fine", TRUE)}
    \union {[is |-> "child ends", child |-> child] : child \in {"grouped", "detached"}}
    \union {[is |-> e] : e \in {"exits", "reaped", "expires", "aborts", "cancels",
                                "grace", "cleanup"}}

(* The runs of up to six events, of a shell with any background children    *)
Runs ==
    LET after[k \in 0..6] ==
            IF k = 0 THEN {NewRun(c, NewCapture("tail", 9, 3)) :
                              c \in SUBSET {"grouped", "detached"}}
            ELSE after[k - 1] \union {Exec(x, e) : x \in after[k - 1], e \in Happenings}
    IN  after[6]

(* A run that is stopped in time stops the shell with its group and is no    *)
(* success; the file has the whole of an output of which a part is shown,   *)
(* or the run fails, but for a listener that raises as the path is          *)
(* published.  Once the shell has ended, neither the deadline nor an abort  *)
(* nor cleanup ends a run whose pipes a background child holds, and a       *)
(* cancellation ends it without being raised, where                         *)
(* docs/durable/public-api.md says that they "kill the subprocess group and *)
(* wait for it" (local.py, exec).                                          *)
RunsAccounted ==
    /\ \A x \in Runs :
          /\ x.phase # "waits" /\ (x.expired \/ x.cancelled) =>
                x.shell # "runs"
          /\ x.shell \in {"dying", "killed"} => "grouped" \notin x.children
          /\ x.phase = "ended" =>
                /\ x.aborted => ~Reported(x).text
                /\ Result(x) = "ok" =>
                      /\ Reported(x).named # "None"
                      /\ Reported(x).named = "file" =>
                            x.spill.file = x.read \/ x.spill.buffered # <<>>
          /\ x.phase = "drains" =>
                /\ \A e \in {"expires", "aborts", "cleanup"} :
                      Exec(x, [is |-> e]).phase = "drains"
                /\ LET y == Exec(x, [is |-> "cancels"])
                   IN  y.phase = "ended" /\ y.children = x.children
                         /\ Result(y) = Result(x)
    /\ \E x \in Runs : x.phase = "drains" /\ x.aborted /\ "grouped" \in x.children
    /\ \E x \in Runs : /\ x.phase = "ended" /\ Result(x) = "ok" /\ x.spill.open
                       /\ x.spill.file # x.read

-----------------------------------------------------------------------------
(* Edits                                                                   *)

E == INSTANCE EditDiff

Edit(old, new) == [old |-> old, new |-> new]
Letters == {"x", "sp", "lf"}
Files == UNION {[1..n -> Letters] : n \in 0..4}
Pieces == UNION {[1..n -> Letters] : n \in 1..2}

(* An edit that finds its text exactly replaces that text and nothing else,  *)
(* and only a text that occurs once, in a file that is not blank            *)
(* (edit_diff.py, apply_edits_to_normalized_content).                      *)
ExactEditReplacesOnce ==
    \A text \in Files, old \in Pieces :
        LET edited == E!ApplyEdits(text, <<Edit(old, <<"y">>)>>)
            places == E!Occurrences(text, old)
        IN  places # {} /\ E!Fuzzy(text) # <<>> =>
              /\ edited.ok => Cardinality(places) = 1
              /\ edited.ok =>
                   \E i \in places :
                      edited.text = SubSeq(text, 1, i - 1) \o <<"y">>
                                      \o SubSeq(text, i + Len(old), Len(text))

(* Two edits are made against the same text, in either order, and never to  *)
(* a common character.                                                     *)
EditsCommute ==
    \A text \in Files, one \in Pieces, two \in {<<"x">>, <<"lf">>, <<"x", "lf">>} :
        LET e == Edit(one, <<"y">>)
            f == Edit(two, <<"z", "z">>)
            ef == E!ApplyEdits(text, <<e, f>>)
        IN  /\ ef.ok => ef = E!ApplyEdits(text, <<f, e>>)
            /\ ef.ok => Len(SelectSeq(ef.text, LAMBDA c : c \in {"y", "z"})) = 3

(* An edit that needs the normalization keeps every line it does not touch, *)
(* and makes of the lines it touches what it makes of them normalized.      *)
OtherLinesKept ==
    \A text \in UNION {[1..n -> {"x", "sp", "lf", "smart"}] : n \in 1..4},
       old \in {<<"quote">>, <<"quote", "x">>, <<"x", "lf">>, <<"lf", "quote">>} :
        LET edited == E!ApplyEdits(text, <<Edit(old, <<"y">>)>>)
            lines == E!Lines(text)
            Join(from, to) == FlattenSeq(SubSeq(lines, from, to))
        IN  edited.ok /\ E!Occurrences(text, old) = {} =>
              \E from, to \in DOMAIN lines :
                 LET touched == E!Fuzzy(Join(from, to))
                     i == CHOOSE i \in E!Occurrences(touched, E!Fuzzy(old)) : TRUE
                 IN  /\ from <= to /\ E!Occurrences(touched, E!Fuzzy(old)) # {}
                     /\ edited.text =
                          Join(1, from - 1) \o SubSeq(touched, 1, i - 1) \o <<"y">>
                            \o SubSeq(touched, i + Len(E!Fuzzy(old)), Len(touched))
                            \o Join(to + 1, Len(lines))

(* What the error text and the tool's description do not say: an old text   *)
(* that ends with a blank matches where there is none, an exact occurrence  *)
(* is refused for a second that only looks like it, the touched line loses  *)
(* its other blanks and quotes, an edit unifies mixed line endings, and in  *)
(* a file of blanks a blank counts as one whatever their number.           *)
EditsBeyondTheText ==
    /\ E!ApplyEdits(<<"sp", "sp">>, <<Edit(<<"sp">>, <<"z">>)>>).text = <<"z", "sp">>
    /\ E!ApplyEdits(<<"x", "y">>, <<Edit(<<"x", "sp">>, <<"z">>)>>).text = <<"z", "y">>
    /\ ~E!ApplyEdits(<<"quote", "lf", "smart">>, <<Edit(<<"quote">>, <<"z">>)>>).ok
    /\ E!ApplyEdits(<<"smart", "x", "smart", "y", "sp">>,
                    <<Edit(<<"quote", "x">>, <<"z">>)>>).text = <<"z", "quote", "y">>
    /\ E!EditFile(<<"x", "cr", "lf", "y", "lf">>, <<Edit(<<"x">>, <<"z">>)>>).text
         = <<"z", "cr", "lf", "y", "cr", "lf">>

(* A file whose line endings agree, with or without a byte order mark,      *)
(* keeps them: an edit that is undone gives the file back (edit.py).        *)
EditsUndo ==
    \A text \in UNION {[1..n -> {"x", "w", "lf"}] : n \in 1..4},
       ending \in {"lf", "crlf"}, mark \in {<<>>, <<"bom">>} :
        LET file == mark \o E!Restored(text, ending)
            done == E!EditFile(file, <<Edit(<<"w">>, <<"y">>)>>)
        IN  done.ok => E!EditFile(done.text, <<Edit(<<"y">>, <<"w">>)>>).text = file

-----------------------------------------------------------------------------
(* The display of a change                                                 *)

Kinds == {"equal", "removed", "added"}
Differences ==
    {d \in UNION {[1..n -> [kind : Kinds, n : 1..3]] : n \in 1..4} :
        \A i \in 1..Len(d) - 1 : d[i].kind # d[i + 1].kind
                                  /\ (d[i].kind = "added" => d[i + 1].kind = "equal")}

Marked(d, mark) == SelectSeq(E!Display(d, 1), LAMBDA row : row.mark = mark)
LinesOf(d, kinds) ==
    FlattenSeq([i \in DOMAIN d |-> IF d[i].kind \in kinds
                                   THEN [k \in 1..d[i].n |-> <<i, k>>] ELSE <<>>])
NumberOf(d, place, kinds) ==
    CHOOSE k \in DOMAIN LinesOf(d, kinds) : LinesOf(d, kinds)[k] = place
Next1(d, place) ==
    \/ place[2] = 1 /\ place[1] > 1
    \/ place[2] = d[place[1]].n /\ place[1] < Len(d)

(* The display shows every changed line and the unchanged lines next to a   *)
(* change, each with its own number, and "..." wherever lines are left out  *)
(* before, between or after (edit_diff.py, generate_diff_string).          *)
DisplayNumbersLines ==
    \A d \in Differences :
        LET Numbers(kind, side) ==
                [k \in DOMAIN LinesOf(d, {kind}) |->
                    NumberOf(d, LinesOf(d, {kind})[k], {"equal", side})]
            context == SelectSeq(LinesOf(d, {"equal"}), LAMBDA place : Next1(d, place))
            gaps == {i \in DOMAIN d : d[i].kind = "equal" /\ Len(d) > 1
                        /\ d[i].n > IF i \in {1, Len(d)} THEN 1 ELSE 2}
            Number(rows) == [k \in DOMAIN rows |-> rows[k].number]
        IN  /\ Number(Marked(d, "+")) = Numbers("added", "added")
            /\ Number(Marked(d, "-")) = Numbers("removed", "removed")
            /\ Number(Marked(d, " ")) =
                 [k \in DOMAIN context |->
                    NumberOf(d, context[k], {"equal", "removed"})]
            /\ Len(Marked(d, "...")) = Cardinality(gaps)

-----------------------------------------------------------------------------
(* The queue of a file                                                     *)

(* The queues that three mutations of a file can make of it; each of them   *)
(* takes at most three steps.                                              *)
Mutations == 1..3
QueuesOf(Queue(_, _, _), mayCancel) ==
    LET after[k \in 0..9] ==
            IF k = 0 THEN {E!Idle(Mutations)}
            ELSE after[k - 1] \union
                 UNION {Queue(q, m, mayCancel) : q \in after[k - 1], m \in Mutations}
    IN  after[9]
Exclusive(queues) == \A q \in queues : Cardinality(E!Running(q)) <= 1

(* Mutations of a file exclude each other unless one is cancelled while it  *)
(* waits, in the agent also then                                           *)
(* (tests/agent/test_coding_tools.py:322, a cancelled write does not bypass *)
(* its predecessor); in the harness the next one then joins the first.     *)
MutationsExclude ==
    /\ Exclusive(QueuesOf(E!HarnessQueue, FALSE))
    /\ \A mayCancel \in BOOLEAN : Exclusive(QueuesOf(E!AgentQueue, mayCancel))
    /\ ~Exclusive(QueuesOf(E!HarnessQueue, TRUE))

(* What the model is shown of a tool's output, and what an edit makes of a  *)
(* file, together: an output is within its limits, the end or the beginning *)
(* of the whole, and its updates rebuild it; a command that is stopped in   *)
(* time is no success, and a file has what the view has not; an edit        *)
(* replaces what it names, once, and keeps what it does not touch, and the  *)
(* mutations of a file take turns.  It depends on no state, so it is        *)
(* evaluated at the first steps only.                                      *)
TextsSound ==
    [][Init =>
        /\ TruncationWithinLimits /\ ViewShowsWhole /\ TinyLimitShowsNewline
        /\ BrokenBytesBreakNeighbours /\ UpdatesRebuildTexts /\ RunsAccounted
        /\ ExactEditReplacesOnce /\ EditsCommute /\ OtherLinesKept
        /\ EditsBeyondTheText /\ EditsUndo /\ DisplayNumbersLines
        /\ MutationsExclude]_vars
=============================================================================

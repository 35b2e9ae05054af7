----------------------------- MODULE ShellOutput -----------------------------
(***************************************************************************)
(* What a tool shows of a long output: the head or the tail of a text       *)
(* within a number of lines and bytes (durable/utils/truncate.py), the      *)
(* bounded view that is kept while a command writes its output, and the     *)
(* updates from which a client rebuilds the view (output_capture.py); and   *)
(* the run of the command itself, with its pipes, its deadline, its abort   *)
(* and the file that takes the whole output (durable/env/local.py).        *)
(*                                                                         *)
(* A character takes Width[c] bytes; its bytes are <<c, 1>> to              *)
(* <<c, Width[c]>>, and Replacement stands for bytes that are no character. *)
(* Lone surrogates, the size of an update in bytes and the file names are   *)
(* left out.                                                               *)
(***************************************************************************)
EXTENDS Integers, Sequences, FiniteSets

LOCAL INSTANCE SequencesExt

CONSTANTS
    Width,        \* bytes of each character
    Newline,      \* the character that ends a line
    Control,      \* characters that no text may hold
    Replacement   \* U+FFFD

ASSUME ShellOutputAssumption ==
    /\ Width \in [DOMAIN Width -> Nat \ {0}]
    /\ {Newline, Replacement} \subseteq DOMAIN Width
    /\ Newline # Replacement /\ Width[Newline] = 1
    /\ Control \subseteq DOMAIN Width \ {Newline, Replacement}

Chars == DOMAIN Width

Least(a, b) == IF a <= b THEN a ELSE b
Most(S) == CHOOSE x \in S : \A y \in S : x >= y
From(s, i) == SubSeq(s, i, Len(s))
LastOf(s, n) == SubSeq(s, Len(s) - n + 1, Len(s))

-----------------------------------------------------------------------------
(* Sizes and lines                                                         *)

(* utf8_byte_length *)
Size(text) ==
    LET sum[i \in 0..Len(text)] ==
            IF i = 0 THEN 0 ELSE sum[i - 1] + Width[text[i]]
    IN  sum[Len(text)]

Newlines(text) == {i \in DOMAIN text : text[i] = Newline}

(* _split_lines_for_counting: the last line may end without a newline.      *)
Lines(text) ==
    LET ends == SelectSeq([i \in DOMAIN text |-> i], LAMBDA i : text[i] = Newline)
        whole == [k \in 1..Len(ends) |->
                     SubSeq(text, IF k = 1 THEN 1 ELSE ends[k - 1] + 1, ends[k] - 1)]
        rest == From(text, IF ends = <<>> THEN 1 ELSE ends[Len(ends)] + 1)
    IN  IF rest = <<>> THEN whole ELSE Append(whole, rest)

(* The lines with the newlines between them *)
Joined(lines) ==
    LET join[k \in 0..Len(lines)] ==
            IF k = 0 THEN <<>>
            ELSE IF k = 1 THEN lines[1]
            ELSE join[k - 1] \o <<Newline>> \o lines[k]
    IN  join[Len(lines)]

Fits(text, maxLines, maxBytes) ==
    Len(Lines(text)) <= maxLines /\ Size(text) <= maxBytes

Whole(text) ==
    [content |-> text, lines |-> Len(Lines(text)), by |-> "none",
     partial |-> FALSE, firstTooLong |-> FALSE]

(* How many lines of a text fit, from either end, within maxLines           *)
Fitting(lines, maxLines, maxBytes, Part(_, _)) ==
    Most({k \in 0..Least(maxLines, Len(lines)) :
             k = 0 \/ Size(Joined(Part(lines, k))) <= maxBytes})

By(kept, lines, maxLines) ==
    IF kept < maxLines /\ kept < Len(lines) THEN "bytes" ELSE "lines"

(* truncate_head *)
TruncateHead(text, maxLines, maxBytes) ==
    LET lines == Lines(text)
        First(s, k) == SubSeq(s, 1, k)
        kept == Fitting(lines, maxLines, maxBytes, First)
    IN  IF Fits(text, maxLines, maxBytes) THEN Whole(text)
        ELSE IF Size(lines[1]) > maxBytes
        THEN [content |-> <<>>, lines |-> 0, by |-> "bytes", partial |-> FALSE,
              firstTooLong |-> TRUE]
        ELSE [content |-> Joined(First(lines, kept)), lines |-> kept,
              by |-> By(kept, lines, maxLines), partial |-> FALSE,
              firstTooLong |-> FALSE]

(* _truncate_string_to_bytes_from_end *)
EndOfLine(line, maxBytes) ==
    LastOf(line, Most({k \in 0..Len(line) : Size(LastOf(line, k)) <= maxBytes}))

(* truncate_tail *)
TruncateTail(text, maxLines, maxBytes) ==
    LET lines == Lines(text)
        kept == Fitting(lines, maxLines, maxBytes, LastOf)
    IN  IF Fits(text, maxLines, maxBytes) THEN Whole(text)
        ELSE IF kept = 0 /\ maxLines > 0
        THEN [content |-> EndOfLine(lines[Len(lines)], maxBytes), lines |-> 1,
              by |-> IF maxLines = 1 THEN "lines" ELSE "bytes",
              partial |-> TRUE, firstTooLong |-> FALSE]
        ELSE [content |-> Joined(LastOf(lines, kept)), lines |-> kept,
              by |-> By(kept, lines, maxLines), partial |-> FALSE,
              firstTooLong |-> FALSE]

-----------------------------------------------------------------------------
(* Bytes to characters                                                     *)

Encode(text) ==
    FlattenSeq([i \in DOMAIN text |-> [k \in 1..Width[text[i]] |-> <<text[i], k>>]])

(* The bytes from place i that follow each other as bytes of one character  *)
Run(bytes, i) ==
    Most({n \in 1..(Len(bytes) - i + 1) :
             \A k \in 1..n : n = 1 \/ bytes[i + k - 1] = <<bytes[i][1], k>>})
Starts(bytes, i) == bytes[i][2] = 1
Complete(bytes, i) == Starts(bytes, i) /\ Run(bytes, i) = Width[bytes[i][1]]
EndsEarly(bytes, i) ==
    Starts(bytes, i) /\ ~Complete(bytes, i) /\ i + Run(bytes, i) - 1 = Len(bytes)

(* bytes.decode with errors="replace" *)
Decoded(bytes) ==
    LET text[i \in 1..(Len(bytes) + 1)] ==
            IF i > Len(bytes) THEN <<>>
            ELSE <<IF Complete(bytes, i) THEN bytes[i][1] ELSE Replacement>>
                     \o text[i + IF Starts(bytes, i) THEN Run(bytes, i) ELSE 1]
    IN  text[1]

(* The places where characters start, as decoding finds them               *)
FirstError(bytes) ==
    LET next[i \in 1..(Len(bytes) + 1)] ==
            IF i > Len(bytes) THEN 0
            ELSE IF Complete(bytes, i) THEN next[i + Run(bytes, i)] ELSE i
    IN  next[1]

(* Mutant: a character that is cut off by the end of a chunk is decoded.    *)
MutNeverWaits(data) == FALSE

(* _IncrementalUtf8Decoder.decode: only a character cut off by the end of   *)
(* an otherwise sound chunk waits for the next chunk.                      *)
Waits(data) == FirstError(data) # 0 /\ EndsEarly(data, FirstError(data))
DecodeChunk(waiting, chunk) ==
    LET data == waiting \o chunk
    IN  IF Waits(data)
        THEN [text |-> Decoded(SubSeq(data, 1, FirstError(data) - 1)),
              waiting |-> From(data, FirstError(data))]
        ELSE [text |-> Decoded(data), waiting |-> <<>>]

(* finish asks for the rest without a chunk: a cut-off character stays       *)
(* waiting and is never shown.                                             *)
DecodeRest(waiting) == DecodeChunk(waiting, <<>>)

-----------------------------------------------------------------------------
(* The bounded view of an output                                           *)

NewCapture(retain, maxLines, maxBytes) ==
    [retain |-> retain, maxLines |-> maxLines, maxBytes |-> maxBytes,
     waiting |-> <<>>, buffer |-> <<>>, bytes |-> 0, newlines |-> 0,
     closed |-> TRUE, lineBytes |-> 0]

(* _trim_to_last_utf8_bytes and _trim_to_first_utf8_bytes *)
TrimLast(text, max) == EndOfLine(text, max)
TrimFirst(text, max) ==
    SubSeq(text, 1, Most({k \in 0..Len(text) : Size(SubSeq(text, 1, k)) <= max}))

Bounded(c, buffer) ==
    LET guard == 2 * c.maxBytes
    IN  IF Size(buffer) <= 2 * guard THEN buffer
        ELSE IF c.retain = "tail" THEN TrimLast(buffer, guard)
        ELSE TrimFirst(buffer, guard)

(* _append_text *)
AppendText(c, text) ==
    LET last == Most({0} \union Newlines(text))
    IN  IF text = <<>> THEN c
        ELSE [c EXCEPT !.buffer = Bounded(c, c.buffer \o text),
                       !.bytes = c.bytes + Size(text),
                       !.newlines = c.newlines + Cardinality(Newlines(text)),
                       !.closed = text[Len(text)] = Newline,
                       !.lineBytes = IF last = 0 THEN c.lineBytes + Size(text)
                                     ELSE Size(From(text, last + 1))]

(* push of bytes, push of a string, finish *)
Push(c, chunk) ==
    LET decoded == DecodeChunk(c.waiting, chunk)
    IN  AppendText([c EXCEPT !.waiting = decoded.waiting], decoded.text)
PushText(c, text) ==
    LET rest == DecodeRest(c.waiting)
    IN  AppendText(AppendText([c EXCEPT !.waiting = rest.waiting], rest.text), text)
Finish(c) == PushText(c, <<>>)

TotalLines(c) == c.newlines + IF c.closed \/ c.bytes = 0 THEN 0 ELSE 1
Truncated(c) == c.bytes > c.maxBytes \/ TotalLines(c) > c.maxLines

(* sanitize_shell_output *)
Sanitize(text) == SelectSeq(text, LAMBDA ch : ch \notin Control)

(* snapshot *)
Snapshot(c) ==
    LET kept == IF c.retain = "head"
                THEN TruncateHead(c.buffer, c.maxLines, c.maxBytes)
                ELSE TruncateTail(c.buffer, c.maxLines, c.maxBytes)
    IN  [text |-> Sanitize(kept.content), truncated |-> Truncated(c),
         by |-> IF ~Truncated(c) THEN "none"
                ELSE IF TotalLines(c) > c.maxLines THEN "lines" ELSE "bytes",
         totalLines |-> TotalLines(c), totalBytes |-> c.bytes,
         lines |-> kept.lines, partial |-> kept.partial,
         lastLineBytes |-> IF kept.partial THEN c.lineBytes ELSE -1]

-----------------------------------------------------------------------------
(* Updates of the view                                                     *)

(* _suffix_prefix_overlap: how much of the end of before begins after; the  *)
(* search looks at a few places only, so it may find any of them or none.   *)
Overlaps(before, after) ==
    {n \in 1..Least(Len(before), Len(after)) :
        LastOf(before, n) = SubSeq(after, 1, n)}

(* _update_from, with the overlap that was found, 0 for none                *)
UpdateBy(before, after, shared) ==
    IF before = after THEN [is |-> "metadata", drop |-> 0, text |-> <<>>]
    ELSE IF Len(before) <= Len(after) /\ SubSeq(after, 1, Len(before)) = before
    THEN [is |-> "append", drop |-> 0, text |-> From(after, Len(before) + 1)]
    ELSE IF shared > 0
    THEN [is |-> "slide", drop |-> Len(before) - shared,
          text |-> From(after, shared + 1)]
    ELSE [is |-> "replace", drop |-> 0, text |-> after]

Updates(before, after) ==
    {UpdateBy(before, after, n) : n \in {0} \union Overlaps(before, after)}

(* apply_shell_output_update *)
ApplyUpdate(current, update) ==
    IF update.is = "replace" THEN update.text
    ELSE IF update.is = "append" THEN current \o update.text
    ELSE IF update.is = "slide" THEN From(current, update.drop + 1) \o update.text
    ELSE current

-----------------------------------------------------------------------------
(* The run of a shell command                                              *)
(*                                                                         *)
(* A run has its shell, the background children that hold its pipes, in     *)
(* the group of the shell or detached in one of their own, and the streams  *)
(* a pump still reads.  exec waits for the shell, kills it, drains the      *)
(* pipes, and has ended.  read are the chunks the pumps have taken.         *)

(* What exec refuses before it starts a process, in its order               *)
Refusals == <<"aborted", "timeout", "shell_unavailable", "spawn_error", "unknown">>
Refusal(reasons) ==
    LET found == SelectSeq(Refusals, LAMBDA r : r \in reasons)
    IN  IF found = <<>> THEN "none" ELSE found[1]

NewSpill == [open |-> FALSE, buffered |-> <<>>, file |-> <<>>, error |-> FALSE]
NewRun(children, capture) ==
    [shell |-> "runs", children |-> children, phase |-> "waits",
     reading |-> {"stdout", "stderr"}, expired |-> FALSE, aborted |-> FALSE,
     cancelled |-> FALSE, failed |-> FALSE, capture |-> capture,
     spill |-> NewSpill, read |-> <<>>]

PipesHeld(x) == x.shell \in {"runs", "dying"} \/ x.children # {}

(* _kill_process_tree: once the shell is reaped its group is not found.     *)
KillGroup(x) ==
    IF x.shell # "runs" THEN x
    ELSE [x EXCEPT !.shell = "dying", !.children = @ \ {"grouped"}]

(* _SpillBuffer.write, for a chunk after which the view may be truncated.   *)
(* A file is tried again for every chunk, but never written once one failed. *)
(* Publishing its path may raise, before what was buffered is written.      *)
SpillWrite(spill, chunk, starts, fileOk, pathRaises) ==
    LET opened == IF spill.open \/ ~starts THEN spill
                  ELSE IF ~fileOk THEN [spill EXCEPT !.error = TRUE]
                  ELSE IF pathRaises \/ spill.error THEN [spill EXCEPT !.open = TRUE]
                  ELSE [spill EXCEPT !.open = TRUE, !.file = @ \o spill.buffered,
                                     !.buffered = <<>>]
    IN  IF ~opened.open THEN [opened EXCEPT !.buffered = Append(@, chunk)]
        ELSE IF opened.error \/ (pathRaises /\ ~spill.open) THEN opened
        ELSE IF ~fileOk THEN [opened EXCEPT !.error = TRUE]
        ELSE [opened EXCEPT !.file = Append(@, chunk)]

(* One turn of a pump.  The listener of the updates may raise while the     *)
(* chunk is taken, which ends the pump and fails the run; when the path of  *)
(* the file is published, which ends the pump alone; or from a timer.       *)
Pumped(x, stream, chunk, listener, fileOk) ==
    LET capture == Push(x.capture, chunk)
        starts == ~x.spill.open /\ (Truncated(capture) \/ Truncated(x.capture))
        usable == fileOk /\ ~x.aborted
        pathRaises == starts /\ usable /\ listener = "raises at the path"
        taken == [x EXCEPT !.capture = capture, !.read = Append(@, chunk)]
    IN  IF listener = "raises"
        THEN [taken EXCEPT !.failed = TRUE, !.reading = @ \ {stream}]
        ELSE [taken EXCEPT
                !.failed = @ \/ listener = "raises later",
                !.reading = IF pathRaises THEN @ \ {stream} ELSE @,
                !.spill = SpillWrite(@, chunk, starts,
                                     IF starts THEN usable ELSE fileOk, pathRaises)]

(* What exec does next of itself: the deadline and the abort count only     *)
(* while it waits for the shell; the pipes are then read to their end.      *)
Settled(x) ==
    LET stopped == x.expired \/ x.aborted \/ x.cancelled
        waited == CASE x.phase = "waits" /\ x.shell \in {"exited", "killed"} ->
                         [x EXCEPT !.phase = "drains"]
                    [] x.phase = "waits" /\ x.shell \notin {"exited", "killed"} /\ stopped ->
                         [KillGroup(x) EXCEPT !.phase = "kills"]
                    [] x.phase = "kills" /\ x.shell = "killed" ->
                         [x EXCEPT !.phase = "drains"]
                    [] OTHER -> x
    IN  IF waited.phase = "drains" /\ (waited.reading = {} \/ ~PipesHeld(waited))
        THEN [waited EXCEPT !.phase = "ended"] ELSE waited

(* The exec of LocalExecutionEnv, one event after the other.  A caller's    *)
(* cancellation is raised again only if it comes while exec waits; later it *)
(* ends the wait for the kill or the pumps, and is lost.                    *)
Happens(x, e) ==
    CASE e.is = "writes" ->
            IF e.stream \in x.reading /\ PipesHeld(x)
            THEN Pumped(x, e.stream, e.chunk, e.listener, e.fileOk) ELSE x
      [] e.is = "exits" -> IF x.shell = "runs" THEN [x EXCEPT !.shell = "exited"] ELSE x
      [] e.is = "reaped" -> IF x.shell = "dying" THEN [x EXCEPT !.shell = "killed"] ELSE x
      [] e.is = "child ends" -> [x EXCEPT !.children = @ \ {e.child}]
      [] e.is = "expires" -> [x EXCEPT !.expired = @ \/ x.phase = "waits"]
      [] e.is = "aborts" -> [x EXCEPT !.aborted = TRUE]
      [] e.is = "cancels" ->
            CASE x.phase = "waits" -> [x EXCEPT !.cancelled = TRUE]
              [] x.phase = "kills" -> [x EXCEPT !.phase = "drains"]
              [] OTHER -> [x EXCEPT !.reading = {}]
      [] e.is = "grace" -> IF x.phase = "kills" THEN [x EXCEPT !.phase = "drains"] ELSE x
      [] e.is = "cleanup" -> KillGroup(x)
Exec(x, e) == IF x.phase = "ended" THEN x ELSE Settled(Happens(x, e))

(* What an ended run returns                                               *)
Result(x) ==
    IF x.cancelled THEN "cancelled"
    ELSE IF x.failed THEN "callback_error"
    ELSE IF x.expired THEN "timeout"
    ELSE IF x.aborted THEN "aborted"
    ELSE IF x.spill.error THEN "unknown"
    ELSE "ok"

(* The bash tool: a text for a command that ended with 0, else an error;    *)
(* either names the file of the whole output where the view is truncated.   *)
Reported(x) ==
    [text |-> Result(x) = "ok" /\ x.shell = "exited",
     named |-> IF ~Truncated(x.capture) THEN "nothing"
               ELSE IF x.spill.open THEN "file" ELSE "None"]
=============================================================================

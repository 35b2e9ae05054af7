------------------------------ MODULE EditDiff -------------------------------
(***************************************************************************)
(* The edit tool (durable/tools/edit.py, edit_diff.py; the in-process       *)
(* agent's edit_diff.py is the same file): replacements of texts that occur *)
(* once in a file, found exactly or after a normalization, and the display  *)
(* of what changed.                                                        *)
(*                                                                         *)
(* A text is a sequence of characters.  "lf" and "cr" end lines, "sp" is    *)
(* any blank, and "smart" one of the characters that normalize to "quote"   *)
(* (normalizations that change the number of characters are left out).     *)
(***************************************************************************)
EXTENDS Integers, Sequences, FiniteSets

LOCAL INSTANCE SequencesExt
LOCAL INSTANCE TLC

First(S) == CHOOSE x \in S : \A y \in S : x <= y
Piece(text, from, to) == SubSeq(text, from, to)

-----------------------------------------------------------------------------
(* Line endings                                                            *)

(* detect_line_ending: the first newline decides.                          *)
Newlines(text) == {i \in DOMAIN text : text[i] = "lf"}
Returns(text) == {i \in Newlines(text) : i > 1 /\ text[i - 1] = "cr"}
DetectEnding(text) ==
    IF Returns(text) # {} /\ First(Returns(text)) = First(Newlines(text))
    THEN "crlf" ELSE "lf"

(* normalize_to_lf: "\r\n" and then "\r" become "\n".                       *)
Normalized(text) ==
    LET kept == SelectSeq([i \in DOMAIN text |-> i],
                          LAMBDA i : ~(text[i] = "cr" /\ i + 1 \in Newlines(text)))
    IN  [k \in DOMAIN kept |-> IF text[kept[k]] = "cr" THEN "lf" ELSE text[kept[k]]]

(* restore_line_endings *)
Restored(text, ending) ==
    IF ending = "lf" THEN text
    ELSE FlattenSeq([i \in DOMAIN text |->
                        IF text[i] = "lf" THEN <<"cr", "lf">> ELSE <<text[i]>>])

-----------------------------------------------------------------------------
(* Finding a text                                                          *)

(* normalize_for_fuzzy_match: blanks at the ends of lines go, and some      *)
(* characters are taken for others.                                        *)
Plain(c) == IF c = "smart" THEN "quote" ELSE c
Trailing(text, i) ==
    /\ text[i] = "sp"
    /\ \A j \in i..Len(text) :
         text[j] = "sp" \/ \E k \in i..j : text[k] = "lf"
Fuzzy(text) ==
    LET kept == SelectSeq([i \in DOMAIN text |-> i], LAMBDA i : ~Trailing(text, i))
    IN  [k \in DOMAIN kept |-> Plain(text[kept[k]])]

Occurrences(text, part) ==
    {i \in 1..(Len(text) - Len(part) + 1) :
        Piece(text, i, i + Len(part) - 1) = part}

(* fuzzy_find_text *)
NotFound == [found |-> FALSE]
At(where, part, fuzzy) ==
    [found |-> TRUE, at |-> First(where), length |-> Len(part), fuzzy |-> fuzzy]
Find(text, old) ==
    LET exact == Occurrences(text, old)
        fuzzy == Occurrences(Fuzzy(text), Fuzzy(old))
    IN  IF exact # {} THEN At(exact, old, FALSE)
        ELSE IF fuzzy # {} THEN At(fuzzy, Fuzzy(old), TRUE)
        ELSE NotFound

(* _count_occurrences: always after the normalization, overlaps included.   *)
Count(text, old) == Cardinality(Occurrences(Fuzzy(text), Fuzzy(old)))

-----------------------------------------------------------------------------
(* Replacing                                                               *)

(* _apply_replacements: from the last to the first, so that the earlier     *)
(* places stay where they are.                                             *)
Replaced(text, replacements, offset) ==
    FoldRight(LAMBDA r, done :
                 Piece(done, 1, r.at - offset - 1) \o r.new
                    \o Piece(done, r.at - offset + r.length, Len(done)),
              replacements, text)

(* _split_lines_with_endings: a text that ends with a newline has a last,   *)
(* empty line.                                                             *)
Lines(text) ==
    LET ends == SelectSeq([i \in DOMAIN text |-> i], LAMBDA i : text[i] = "lf")
        Start(k) == IF k = 1 THEN 1 ELSE ends[k - 1] + 1
        whole == [k \in DOMAIN ends |-> Piece(text, Start(k), ends[k])]
    IN  IF text = <<>> THEN <<>>
        ELSE Append(whole, Piece(text, Start(Len(ends) + 1), Len(text)))

(* _get_line_spans: first place, and the place after the last              *)
Spans(text) ==
    LET lines == Lines(text)
        upto[k \in 0..Len(lines)] == IF k = 0 THEN 1 ELSE upto[k - 1] + Len(lines[k])
    IN  [k \in DOMAIN lines |-> [from |-> upto[k - 1], to |-> upto[k]]]

(* _get_replacement_line_range *)
LineRange(spans, r) ==
    LET first == First({k \in DOMAIN spans : spans[k].from <= r.at
                                               /\ r.at < spans[k].to})
    IN  [first |-> first,
         last |-> First({k \in first..Len(spans) : spans[k].to >= r.at + r.length})]

(* Replacements on a common line are made together.                        *)
Groups(spans, replacements) ==
    FoldLeft(LAMBDA groups, r :
                LET range == LineRange(spans, r)
                    n == Len(groups)
                IN  IF groups # <<>> /\ range.first <= groups[n].last
                    THEN [groups EXCEPT ![n].last = IF range.last > @ THEN range.last
                                                    ELSE @,
                                        ![n].of = Append(@, r)]
                    ELSE Append(groups, [first |-> range.first, last |-> range.last,
                                         of |-> <<r>>]),
             <<>>, replacements)

(* apply_replacements_preserving_unchanged_lines: lines that no replacement *)
(* touches come from the original text, the others from the normalized one. *)
ReplaceLines(original, base, replacements) ==
    LET lines == Lines(original)
        spans == Spans(base)
        groups == Groups(spans, replacements)
        Between(from, to) == FlattenSeq(Piece(lines, from, to))
        result[g \in 0..Len(groups)] ==
            IF g = 0 THEN <<>>
            ELSE LET group == groups[g]
                     since == IF g = 1 THEN 1 ELSE groups[g - 1].last + 1
                     from == spans[group.first].from
                     to == spans[group.last].to
                 IN  result[g - 1] \o Between(since, group.first - 1)
                       \o Replaced(Piece(base, from, to - 1), group.of, from - 1)
    IN  result[Len(groups)] \o Between(groups[Len(groups)].last + 1, Len(lines))

-----------------------------------------------------------------------------
(* The tool                                                                *)

Rejected(why) == [ok |-> FALSE, why |-> why]

(* apply_edits_to_normalized_content: every edit is against the original    *)
(* text, and one edit that needs the normalization takes all with it.      *)
ApplyEdits(text, given) ==
    LET edits == [i \in DOMAIN given |-> [old |-> Normalized(given[i].old),
                                          new |-> Normalized(given[i].new)]]
        fuzzy == \E i \in DOMAIN edits :
                    LET m == Find(text, edits[i].old) IN m.found /\ m.fuzzy
        base == IF fuzzy THEN Fuzzy(text) ELSE text
        Match(i) == Find(base, edits[i].old)
        bad == {i \in DOMAIN edits :
                   ~Match(i).found \/ Count(base, edits[i].old) > 1}
        matched == SortSeq([i \in DOMAIN edits |->
                              [at |-> Match(i).at, length |-> Match(i).length,
                               new |-> edits[i].new]],
                           LAMBDA r, q : r.at < q.at)
        result == IF fuzzy THEN ReplaceLines(text, base, matched)
                  ELSE Replaced(base, matched, 0)
    IN  IF \E i \in DOMAIN edits : edits[i].old = <<>> THEN Rejected("empty")
        ELSE IF bad # {}
        THEN Rejected(IF Match(First(bad)).found THEN "duplicate" ELSE "not found")
        ELSE IF \E k \in 1..Len(edits) - 1 :
                   matched[k].at + matched[k].length > matched[k + 1].at
        THEN Rejected("overlap")
        ELSE IF result = text THEN Rejected("no change")
        ELSE [ok |-> TRUE, text |-> result]

(* _apply_edit: what is written for a file with this text                  *)
EditFile(text, edits) ==
    LET marked == text # <<>> /\ text[1] = "bom"
        content == IF marked THEN Tail(text) ELSE text
        applied == ApplyEdits(Normalized(content), edits)
    IN  IF ~applied.ok THEN applied
        ELSE [ok |-> TRUE,
              text |-> (IF marked THEN <<"bom">> ELSE <<>>)
                         \o Restored(applied.text, DetectEnding(content))]

-----------------------------------------------------------------------------
(* The display of a change                                                 *)

(* generate_diff_string, from the parts of the difference (_diff_lines): an *)
(* "equal" part shows its lines next to a change, "..." for the rest.       *)
Row(mark, number) == [mark |-> mark, number |-> number]
Rows(mark, from, n) == [k \in 1..n |-> Row(mark, from + k - 1)]
Skipped == <<Row("...", 0)>>

Equal(before, after, n, context, old) ==
    LET shown == IF n < context THEN n ELSE context
        head == Rows(" ", old, shown)
        tail == Rows(" ", old + n - shown, shown)
        Gap(m) == IF m > 0 THEN Skipped ELSE <<>>
    IN  IF before /\ after
        THEN IF n <= 2 * context THEN Rows(" ", old, n) ELSE head \o Skipped \o tail
        ELSE IF before THEN head \o Gap(n - shown)
        ELSE IF after THEN Gap(n - shown) \o tail
        ELSE <<>>

Display(parts, context) ==
    LET Change(i) == i \in DOMAIN parts /\ parts[i].kind # "equal"
        shown[i \in 0..Len(parts)] ==
            IF i = 0 THEN [rows |-> <<>>, old |-> 1, new |-> 1]
            ELSE LET s == shown[i - 1]
                     n == parts[i].n
                 IN  IF parts[i].kind = "added"
                     THEN [s EXCEPT !.rows = @ \o Rows("+", s.new, n),
                                    !.new = @ + n]
                     ELSE IF parts[i].kind = "removed"
                     THEN [s EXCEPT !.rows = @ \o Rows("-", s.old, n),
                                    !.old = @ + n]
                     ELSE [rows |-> s.rows \o Equal(Change(i - 1), Change(i + 1), n,
                                                    context, s.old),
                           old |-> s.old + n, new |-> s.new + n]
    IN  shown[Len(parts)].rows

-----------------------------------------------------------------------------
(* The queue of a file: its mutations run one after the other               *)

Idle(Mutations) ==
    [is |-> [m \in Mutations |-> "out"], behind |-> [m \in Mutations |-> 0],
     last |-> 0, line |-> <<>>]
Running(q) == {m \in DOMAIN q.is : q.is[m] = "runs"}

(* The harness (durable/tools/file_mutation_queue.py): a mutation waits for *)
(* the event of the one before it.  One that is cancelled while it waits    *)
(* sets its own event, and the next one goes on.                           *)
Released(q, m) ==
    [q EXCEPT !.is[m] = "done", !.last = IF @ = m THEN 0 ELSE @]
HarnessQueue(q, m, mayCancel) ==
    CASE q.is[m] = "out" ->
           {[q EXCEPT !.behind[m] = q.last, !.last = m,
                      !.is[m] = IF q.last = 0 THEN "runs" ELSE "waits"]}
      [] q.is[m] = "waits" ->
           (IF q.is[q.behind[m]] = "done" THEN {[q EXCEPT !.is[m] = "runs"]} ELSE {})
             \union IF mayCancel THEN {Released(q, m)} ELSE {}
      [] q.is[m] = "runs" -> {Released(q, m)}
      [] OTHER -> {}

(* The agent (agent/tools/file_mutation_queue.py): the mutations of a file  *)
(* are in line at one lock; one that is cancelled leaves the line.          *)
Left(q, m) ==
    [q EXCEPT !.is[m] = "done", !.line = SelectSeq(@, LAMBDA x : x # m)]
AgentQueue(q, m, mayCancel) ==
    CASE q.is[m] = "out" -> {[q EXCEPT !.is[m] = "waits", !.line = Append(@, m)]}
      [] q.is[m] = "waits" ->
           (IF q.line[1] = m THEN {[q EXCEPT !.is[m] = "runs"]} ELSE {})
             \union IF mayCancel THEN {Left(q, m)} ELSE {}
      [] q.is[m] = "runs" -> {Left(q, m)}
      [] OTHER -> {}
=============================================================================

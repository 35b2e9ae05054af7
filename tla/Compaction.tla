----------------------------- MODULE Compaction -----------------------------
(***************************************************************************)
(* What a compaction summarizes and what it keeps: the algorithms of       *)
(* durable/compaction (lanes and their branches) and of agent/compaction   *)
(* (the in-process agent).  Both walk back from the newest message until   *)
(* enough of them is kept, move the cut to a place where a message may     *)
(* begin, and treat the messages between the start of the cut turn and the *)
(* cut as a prefix of their own.                                           *)
(*                                                                         *)
(* A conversation is the newest compaction and the entries that count      *)
(* after it: the tail it retained, then what was appended.  An entry is    *)
(* its kind, a number of tokens, the usage its answer reported (0: none),  *)
(* whether its answer was cut off, and the files its calls read and        *)
(* modified.  A summary is the set of entries whose content it was made    *)
(* from.  Texts, prompts, timestamps and the serialization of the messages *)
(* in a request are left out.                                              *)
(***************************************************************************)
EXTENDS Integers, Sequences, FiniteSets, FiniteSetsExt

MessageKinds == {"user", "assistant", "result", "custom", "carried"}

(* A branch summary is an entry of its own; "other" entries (labels,       *)
(* settings, names) show nothing to the model.  A branch summary retained  *)
(* by a compaction is carried as a message.  A compaction is an entry only *)
(* for the summary of an abandoned branch.                                 *)
Kinds == MessageKinds \union {"branch", "compaction", "other"}

NoSummary ==
    [exists |-> FALSE, covers |-> {}, tokens |-> 0, read |-> {},
     modified |-> {}]

IsMessage(e) == e.kind \in MessageKinds
HasMessage(e) == IsMessage(e) \/ e.kind = "branch"

(* Tokens of the entries that hold a message, from place i on              *)
Weight(s, i) == MapThenSumSet(LAMBDA k : s[k].tokens,
                              {k \in i..Len(s) : IsMessage(s[k])})

-----------------------------------------------------------------------------
(* The cut of a lane's branch                                              *)

(* Mutant: the retained tail may begin with a result.                      *)
MutAnyPoint(s) == {i \in DOMAIN s : HasMessage(s[i])}

CutPoints(s) ==
    {i \in DOMAIN s : HasMessage(s[i]) /\ s[i].kind # "result"}

(* Places from which enough is kept                                        *)
Enough(s, keep) ==
    {i \in DOMAIN s : IsMessage(s[i]) /\ Weight(s, i) >= keep}

NextPoint(s, i) ==
    LET later == {p \in CutPoints(s) : p >= i}
    IN  IF later = {} THEN Max(CutPoints(s)) ELSE Min(later)

FirstPoint(s, keep) ==
    IF Enough(s, keep) = {} THEN Min(CutPoints(s))
    ELSE NextPoint(s, Max(Enough(s, keep)))

(* Entries that are no messages go with the message they stand before.     *)
PulledBack(s, c) ==
    {b \in 1..c : \A k \in b..(c - 1) : ~IsMessage(s[k])}

(* The first place that is kept                                            *)
Cut(s, keep) ==
    IF CutPoints(s) = {} THEN 1
    ELSE Min(PulledBack(s, FirstPoint(s, keep)))

(* Where the turn of place c begins, 0 when it began before                *)
TurnStart(s, c) ==
    LET starts == {k \in 1..c : s[k].kind \in {"user", "branch"}}
    IN  IF starts = {} THEN 0 ELSE Max(starts)

Split(s, keep) ==
    /\ CutPoints(s) # {}
    /\ s[Cut(s, keep)].kind # "user"
    /\ TurnStart(s, Cut(s, keep)) # 0

HistoryEnd(s, keep) ==
    IF Split(s, keep) THEN TurnStart(s, Cut(s, keep)) - 1 ELSE Cut(s, keep) - 1

(* prepare_compaction: the messages to summarize, those of the turn that   *)
(* is cut, and the retained tail                                           *)
History(s, keep) == {i \in 1..HistoryEnd(s, keep) : HasMessage(s[i])}
Prefix(s, keep) ==
    IF ~Split(s, keep) THEN {}
    ELSE {i \in TurnStart(s, Cut(s, keep))..(Cut(s, keep) - 1) :
             HasMessage(s[i])}
Retained(s, keep) == {i \in Cut(s, keep)..Len(s) : HasMessage(s[i])}

-----------------------------------------------------------------------------
(* The cut of the in-process agent: only records that are messages         *)

AgentPoints(s) == {i \in DOMAIN s : s[i].kind # "result"}

AgentCut(s, keep) ==
    LET enough == {i \in DOMAIN s : Weight(s, i) >= keep}
        later == {p \in AgentPoints(s) : p >= Max(enough)}
    IN  IF enough = {} THEN Min(AgentPoints(s))
        ELSE IF later = {} THEN Max(AgentPoints(s)) ELSE Min(later)

Opens(e) == e.kind \in {"user", "custom"}

AgentTurnStart(s, c) ==
    LET starts == {k \in 1..c : Opens(s[k])}
    IN  IF starts = {} THEN 0 ELSE Max(starts)

AgentSplit(s, keep) ==
    ~Opens(s[AgentCut(s, keep)]) /\ AgentTurnStart(s, AgentCut(s, keep)) # 0

AgentHistory(s, keep) ==
    1..((IF AgentSplit(s, keep) THEN AgentTurnStart(s, AgentCut(s, keep))
         ELSE AgentCut(s, keep)) - 1)
AgentPrefix(s, keep) ==
    IF AgentSplit(s, keep)
    THEN AgentTurnStart(s, AgentCut(s, keep))..(AgentCut(s, keep) - 1) ELSE {}

(* Nothing is compacted when the cut leaves nothing to summarize.          *)
AgentPrepares(s, keep) ==
    /\ AgentPoints(s) # {}
    /\ AgentHistory(s, keep) \union AgentPrefix(s, keep) # {}

-----------------------------------------------------------------------------
(* Files and the summary                                                   *)

FilesRead(s, places) == UNION {s[i].read : i \in places}
FilesModified(s, places) == UNION {s[i].modified : i \in places}

(* _file_operations                                                        *)
FileOperations(previous, s, places) ==
    LET modified == previous.modified \union FilesModified(s, places)
    IN  [read |-> (previous.read \union FilesRead(s, places)) \ modified,
         modified |-> modified]

Ids(s, places) == {s[i].id : i \in places}

(* compact_with_request of a lane: the summary of a split turn is made of  *)
(* a summary of the history and one of the prefix; the previous summary    *)
(* goes into the first, and there is none without a history.               *)
Covered(previous, s, keep) ==
    LET history == Ids(s, History(s, keep))
        prefix == Ids(s, Prefix(s, keep))
    IN  IF prefix # {} /\ history = {} THEN prefix
        ELSE previous.covers \union history \union prefix

(* compact_with_request of the agent carries the previous summary over.    *)
AgentCovered(previous, s, keep) ==
    previous.covers
        \union Ids(s, AgentHistory(s, keep) \union AgentPrefix(s, keep))

(* A retained branch summary is wrapped as a message.                      *)
Virtual(e) == IF e.kind = "branch" THEN [e EXCEPT !.kind = "carried"] ELSE e

TailFrom(s, from) ==
    [n \in 1..(Len(s) - from + 1) |-> Virtual(s[from + n - 1])]

(* The compaction entry, as it is read by the next preparation.  Entries   *)
(* without a message are not among the retained ones.                      *)
Kept(s, from) == SelectSeq(TailFrom(s, from), IsMessage)

Compacted(previous, s, keep, tokens) ==
    LET files == FileOperations(previous, s, History(s, keep) \union Prefix(s, keep))
    IN  [previous |-> [exists |-> TRUE, covers |-> Covered(previous, s, keep),
                       tokens |-> tokens, read |-> files.read,
                       modified |-> files.modified],
         entries |-> Kept(s, Cut(s, keep))]

AgentCompacted(previous, s, keep, tokens) ==
    LET files == FileOperations(previous, s,
                     AgentHistory(s, keep) \union AgentPrefix(s, keep))
    IN  [previous |-> [exists |-> TRUE,
                       covers |-> AgentCovered(previous, s, keep),
                       tokens |-> tokens, read |-> files.read,
                       modified |-> files.modified],
         entries |-> TailFrom(s, AgentCut(s, keep))]

(* The tokens a summary request of _generate_summary may answer with, in    *)
(* tenths of the reserve.                                                  *)
SummaryBudget(reserve, prefix, modelLimit) ==
    LET share == ((IF prefix THEN 5 ELSE 8) * reserve) \div 10
    IN  IF modelLimit > 0 THEN Min({share, modelLimit}) ELSE share

-----------------------------------------------------------------------------
(* What the properties compare: every result follows its call, and the     *)
(* entries that are retained or stand in the summary                       *)

Paired(s) ==
    \A i \in DOMAIN s : s[i].kind = "result" =>
        \E j \in 1..(i - 1) :
            /\ s[j].kind = "assistant"
            /\ \A k \in (j + 1)..(i - 1) : s[k].kind \in {"result", "other"}

Places(s) == {i \in DOMAIN s : HasMessage(s[i])}
Remembered(previous, s) == previous.covers \union Ids(s, Places(s))

-----------------------------------------------------------------------------
(* The size of a context                                                   *)

InContext(e) == HasMessage(e) /\ ~e.failed

ContextPlaces(s, i) == {k \in i..Len(s) : InContext(s[k])}
Estimate(s, i) == MapThenSumSet(LAMBDA k : s[k].tokens, ContextPlaces(s, i))

(* The latest answer at or after place i that reported a usage             *)
LastUsage(s, i) ==
    Max({0} \union {k \in ContextPlaces(s, i) : s[k].usage > 0})

(* estimate_context_tokens of a lane, of everything in its context         *)
ContextTokens(previous, s) ==
    LET last == LastUsage(s, 1)
    IN  IF last = 0 THEN previous.tokens + Estimate(s, 1)
        ELSE s[last].usage + Estimate(s, last + 1)

(* estimate_history_tokens of the agent: only answers after the retained   *)
(* entries measured a context that is still there.                         *)
HistoryTokens(previous, s, retained) ==
    LET last == LastUsage(s, retained + 1)
    IN  IF last = 0 THEN previous.tokens + Estimate(s, 1)
        ELSE s[last].usage + Estimate(s, last + 1)

ShouldCompact(tokens, window, reserve) ==
    window > reserve /\ tokens > window - reserve

-----------------------------------------------------------------------------
(* The path of a lane's branch, oldest first; a compaction on it holds its  *)
(* summary and the entries it retained.                                    *)

LastCompaction(path) ==
    Max({0} \union {i \in DOMAIN path : path[i].kind = "compaction"})

(* _read_bounded_path: nothing before the newest compaction is read.        *)
BoundedPath(path) ==
    SubSeq(path, Max({1, LastCompaction(path)}), Len(path))

(* prepare_compaction: a compaction at the tip leaves nothing to prepare.   *)
Prepares(path) == path # <<>> /\ path[Len(path)].kind # "compaction"

Conversation(path) ==
    LET last == LastCompaction(path)
        after == SubSeq(path, last + 1, Len(path))
    IN  IF last = 0 THEN [previous |-> NoSummary, entries |-> after]
        ELSE [previous |-> path[last].previous,
              entries |-> path[last].entries \o after]

CompactionEntry(c) == [kind |-> "compaction", previous |-> c.previous, entries |-> c.entries]

(* prepare_compaction_threshold, at a checkpoint *)
OverThreshold(path, enabled, window, reserve) ==
    LET c == Conversation(BoundedPath(path))
    IN  /\ enabled
        /\ Prepares(BoundedPath(path))
        /\ ShouldCompact(ContextTokens(c.previous, c.entries), window, reserve)

(* prepare_overflow_compaction, whether compaction is enabled or not *)
PreparesOverflow(path, recoveryUsed) ==
    ~recoveryUsed /\ Prepares(BoundedPath(path))

-----------------------------------------------------------------------------
(* The messages of an abandoned branch                                     *)

BranchMessages(s) == {i \in DOMAIN s : s[i].kind \notin {"result", "other"}}
BranchWeight(s, i) ==
    MapThenSumSet(LAMBDA k : s[k].tokens, {k \in BranchMessages(s) : k >= i})

(* prepare_branch_entries picks the newest messages within the budget, and *)
(* a summary that goes over it while a tenth of the budget is free; 0 is   *)
(* no budget.                                                              *)
Overflowing(s, budget) ==
    {i \in BranchMessages(s) : budget > 0 /\ BranchWeight(s, i) > budget}
Crossing(s, budget) ==
    IF Overflowing(s, budget) = {} THEN 0 ELSE Max(Overflowing(s, budget))
BranchPicked(s, budget) ==
    {i \in BranchMessages(s) :
        \/ i > Crossing(s, budget)
        \/ /\ i = Crossing(s, budget) /\ s[i].kind \in {"branch", "compaction"}
           /\ 10 * BranchWeight(s, i + 1) < 9 * budget}

(* The files of every branch summary, and those of the messages up to and  *)
(* with the one that did not fit                                           *)
BranchFiles(s, budget) ==
    FileOperations(NoSummary, s,
        {i \in DOMAIN s : s[i].kind = "branch"}
            \union {i \in BranchMessages(s) :
                       s[i].kind = "assistant" /\ i >= Crossing(s, budget)})
=============================================================================

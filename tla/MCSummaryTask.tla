--------------------------- MODULE MCSummaryTask ---------------------------
(* SummaryTask for TLC, with the records its states are stored as; and what *)
(* Compaction computes, for every conversation of up to four entries.      *)
EXTENDS SummaryRecords, SequencesExt

C == INSTANCE Compaction

Stored == Ops \union 0..5 \union {99}

-----------------------------------------------------------------------------
(* An entry's number of tokens depends on its kind; an answer reads one     *)
(* file and modifies another.                                              *)
TokensOf == [k \in C!Kinds |-> CASE k = "result" -> 2 [] k = "other" -> 0 [] OTHER -> 1]

EntryAt(kinds, i) ==
    [id |-> i, kind |-> kinds[i], tokens |-> TokensOf[kinds[i]],
     usage |-> IF kinds[i] = "assistant" THEN 9 ELSE 0, failed |-> FALSE,
     read |-> IF kinds[i] = "assistant" THEN {i} ELSE {},
     modified |-> IF kinds[i] = "assistant" THEN {i - 1} ELSE {}]

Conversations(kinds) ==
    {s \in {[i \in DOMAIN k |-> EntryAt(k, i)] : k \in SeqOf(kinds, 4)} :
        C!Paired(s)}

LaneConversations == Conversations({"user", "assistant", "result", "branch", "other"})
AgentConversations ==
    Conversations({"user", "assistant", "result", "custom"}) \ {<<>>}
Branches == Conversations({"user", "assistant", "result", "branch", "compaction"})

Budgets == 0..4
Earlier == [exists |-> TRUE, covers |-> {0}, tokens |-> 1, read |-> {1},
            modified |-> {7}]

(* After a compaction every retained result still follows its call, files   *)
(* that were modified once are never listed as only read, and the previous *)
(* summary is forgotten just where the first turn itself is cut            *)
(* (compaction.py, compact_with_request).                                  *)
LaneCompacts ==
    \A s \in LaneConversations, keep \in Budgets :
        LET after == C!Compacted(Earlier, s, keep, 1)
            kept == {after.entries[i].id : i \in DOMAIN after.entries}
        IN  /\ C!Paired(after.entries)
            /\ {1, 7} \subseteq after.previous.read \union after.previous.modified
            /\ after.previous.read \intersect after.previous.modified = {}
            /\ after.previous.covers \union kept
                  = IF C!Prefix(s, keep) # {} /\ C!History(s, keep) = {}
                    THEN C!Ids(s, C!Places(s)) ELSE C!Remembered(Earlier, s)

(* The agent's tail begins as well with no result, and nothing is lost; the *)
(* usage of a retained answer no longer measures the context               *)
(* (preparation.py, prepare_compaction and estimate_history_tokens).       *)
AgentCompacts ==
    \A s \in AgentConversations, keep \in Budgets :
        C!AgentPoints(s) # {} =>
            LET after == C!AgentCompacted(Earlier, s, keep, 1)
                kept == {after.entries[i].id : i \in DOMAIN after.entries}
            IN  /\ C!Paired(after.entries)
                /\ after.previous.covers \union kept = C!Remembered(Earlier, s)
                /\ C!HistoryTokens(after.previous, after.entries, Len(after.entries))
                      = 1 + C!Estimate(after.entries, 1)

(* Compacting again and again: what the path holds up to the newest         *)
(* compaction is all a preparation needs, a compaction is not compacted at *)
(* once, and a lane that is compacted has no overflow left to prepare      *)
(* (structural.py, _read_bounded_path).                                    *)
NewestCompactionIsEnough ==
    \A s \in LaneConversations, keep \in 0..2 :
        LET path == Append(s, C!CompactionEntry(C!Compacted(Earlier, s, keep, 1)))
            grown == Append(path, EntryAt(<<"user">>, 1))
            twice == C!CompactionEntry(C!Compacted(Earlier, C!Conversation(grown).entries, keep, 1))
        IN  /\ ~C!Prepares(path) /\ ~C!PreparesOverflow(path, FALSE)
            /\ C!PreparesOverflow(grown, FALSE)
            /\ C!BoundedPath(grown) = SubSeq(grown, Len(path), Len(grown))
            /\ \A p \in {s, path, grown, Append(grown, twice)} :
                   C!Conversation(C!BoundedPath(p)) = C!Conversation(p)

(* A lane measures its context by a retained answer's usage, taken before   *)
(* the compaction: just compacted, it may seem as full as before.          *)
LaneUsageGoesStale ==
    \E s \in LaneConversations, keep \in Budgets :
        LET after == C!Compacted(Earlier, s, keep, 1)
        IN  /\ C!ContextTokens(after.previous, after.entries) >= 9
            /\ 1 + C!Estimate(after.entries, 1) < 9
            /\ C!OverThreshold(<<C!CompactionEntry(after), EntryAt(<<"user">>, 1)>>,
                               TRUE, 12, 4)

(* The messages of an abandoned branch are its newest, within the budget or *)
(* over it by one summary (branch_summarization.py, prepare_branch_entries).*)
BranchWithinBudget ==
    \A s \in Branches, budget \in Budgets :
        LET picked == C!BranchPicked(s, budget)
            messages == C!BranchMessages(s)
            oldest == IF picked = {} THEN 0 ELSE C!Min(picked)
        IN  /\ picked # {} => picked = {i \in messages : i >= oldest}
            /\ budget = 0 => picked = messages
            /\ (budget > 0 /\ picked # {} /\ C!BranchWeight(s, oldest) > budget)
                  => /\ s[oldest].kind \in {"branch", "compaction"}
                     /\ C!BranchWeight(s, oldest + 1) < budget

(* A summary and the messages it left room for fit the reserve.             *)
SummariesFit ==
    \A reserve \in 0..20, limit \in 0..20 :
        /\ C!SummaryBudget(reserve, FALSE, limit) <= reserve
        /\ C!SummaryBudget(reserve, TRUE, limit) <= C!SummaryBudget(reserve, FALSE, limit)

(* What a compaction or a branch summary covers, together: every result that *)
(* is kept follows its call, and what is dropped is covered by the summary *)
(* but where the turn itself is cut.  It depends on no state, so it is     *)
(* evaluated in the first ones.                                            *)
CompactionSound ==
    Init =>
        /\ LaneCompacts /\ AgentCompacts /\ NewestCompactionIsEnough
        /\ LaneUsageGoesStale /\ BranchWithinBudget /\ SummariesFit
=============================================================================

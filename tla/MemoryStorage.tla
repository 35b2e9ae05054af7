--------------------------- MODULE MemoryStorage ---------------------------
(***************************************************************************)
(* The store of one session as the in-memory backend keeps it: entries     *)
(* with parent links, usage rows, one scalar value and one list, and the   *)
(* statistics.  It is what a backend promises; SqliteStorage implements    *)
(* it.  A stored value is told apart by the sequence that wrote it.        *)
(***************************************************************************)
EXTENDS Integers, FiniteSets, SequencesExt

CONSTANTS
    Ids,      \* ids of entries and usage rows, numbered
    Types,    \* types of entries, "message" and "compaction" among them
    MaxSeq,   \* bound: sequences that commits assign
    MaxOther  \* bound: writes among them that insert no entry

None == 0

VARIABLES
    state,  \* "open" or "closed"
    store,  \* the records
    failed  \* whether the last commit raised

vars == <<state, store, failed>>

-----------------------------------------------------------------------------
(* Records                                                                 *)

Entry == [parent : Ids \union {None}, seq : 1..MaxSeq, type : Types]

(* f maps some elements of D into R.                                       *)
Maps(f, D, R) == DOMAIN f \subseteq D /\ \A x \in DOMAIN f : f[x] \in R

IsStore(s) ==
    /\ Maps(s.entries, Ids, Entry)
    /\ Maps(s.usage, Ids, 1..MaxSeq)
    /\ s.scalar \in 0..MaxSeq
    /\ s.list \in Seq(1..MaxSeq)
    /\ s.messages \in Nat
    /\ s.used \in Nat
    /\ s.nextSeq \in 1..MaxSeq + 1

EmptyStore ==
    [entries |-> <<>>, usage |-> <<>>, scalar |-> None, list |-> <<>>,
     messages |-> 0, used |-> 0, nextSeq |-> 1]

HasEntry(s, id) == id \in DOMAIN s.entries

(* InMemoryStorageState.has_entry_or_usage_id                              *)
HasEntryOrUsage(s, id) == HasEntry(s, id) \/ id \in DOMAIN s.usage

Extended(f, id, row) ==
    [i \in DOMAIN f \union {id} |-> IF i = id THEN row ELSE f[i]]

-----------------------------------------------------------------------------
(* Writes                                                                  *)

EntryWrites(ids, parents) ==
    [kind : {"entry"}, id : ids, parent : parents, type : Types]
UsageWrites(ids) == [kind : {"usage"}, id : ids]
StateWrites == [kind : {"set", "delete", "append", "clear"}]

(* _apply: one write with its sequence                                     *)
Applied(s, w, seq) ==
    [CASE w.kind = "entry" ->
            [s EXCEPT !.entries = Extended(@, w.id,
                          [parent |-> w.parent, seq |-> seq,
                           type |-> w.type]),
                      !.messages = @ + (IF w.type = "message" THEN 1 ELSE 0)]
       [] w.kind = "usage" -> [s EXCEPT !.usage = Extended(@, w.id, seq),
                                        !.used = @ + 1]
       [] w.kind = "set" -> [s EXCEPT !.scalar = seq]
       [] w.kind = "delete" -> [s EXCEPT !.scalar = None]
       [] w.kind = "append" -> [s EXCEPT !.list = Append(@, seq)]
       [] w.kind = "clear" -> [s EXCEPT !.list = <<>>]
     EXCEPT !.nextSeq = seq + 1]

(* The store after the first n writes of a commit                          *)
AppliedUpTo(s, writes, n) ==
    FoldLeft(LAMBDA t, w : Applied(t, w, t.nextSeq), s, SubSeq(writes, 1, n))

Duplicate(s, w) ==
    w.kind \in {"entry", "usage"} /\ HasEntryOrUsage(s, w.id)

MissingParent(s, w) ==
    w.kind = "entry" /\ w.parent # None /\ ~HasEntry(s, w.parent)

(* validate_committed_writes: every write, after the ones before it        *)
Acceptable(s, writes) ==
    \A n \in 1..Len(writes) :
        LET before == AppliedUpTo(s, writes, n - 1) IN
        ~Duplicate(before, writes[n]) /\ ~MissingParent(before, writes[n])

-----------------------------------------------------------------------------
(* Branch scans                                                            *)

(* The entry and its ancestors, newest first                               *)
Path(s, start) ==
    LET upFrom[id \in DOMAIN s.entries] ==
            <<id>> \o (IF s.entries[id].parent = None THEN <<>>
                       ELSE upFrom[s.entries[id].parent])
    IN upFrom[start]

Stops(s, q, id) == id = q.stopId \/ s.entries[id].type = q.stopType

Passes(s, q, id) ==
    /\ q.type = "any" \/ s.entries[id].type = q.type
    /\ \/ q.cursor = None
       \/ q.order = "oldest" /\ s.entries[id].seq > q.cursor
       \/ q.order = "newest" /\ s.entries[id].seq < q.cursor

(* At most limit elements; -1 is no limit                                  *)
Limited(rows, limit) ==
    IF limit < 0 \/ limit >= Len(rows) THEN rows ELSE SubSeq(rows, 1, limit)

(* scan_branch                                                             *)
ScanBranch(s, q) ==
    LET newest == Path(s, q.start)
        path == IF q.order = "oldest" THEN Reverse(newest) ELSE newest
        stops == {n \in 1..Len(path) : Stops(s, q, path[n])}
        read == IF stops = {} THEN path
                ELSE SubSeq(path, 1, CHOOSE n \in stops :
                                        \A m \in stops : n <= m)
    IN Limited(SelectSeq(read, LAMBDA id : Passes(s, q, id)), q.limit)

-----------------------------------------------------------------------------

Init ==
    /\ state = "open"
    /\ store = EmptyStore
    /\ failed = FALSE

(* A failed commit changes no record and takes no sequence.                *)
Commit(writes) ==
    /\ state = "open"
    /\ failed' = ~Acceptable(store, writes)
    /\ store' = IF failed' THEN store
                ELSE AppliedUpTo(store, writes, Len(writes))
    /\ UNCHANGED state

(* Every operation asks first whether the storage is open.                 *)
Close ==
    /\ state = "open"
    /\ state' = "closed"
    /\ UNCHANGED <<store, failed>>

(* New ids are taken in order; the next is also the missing parent.        *)
Writes(s) ==
    LET used == DOMAIN s.entries \union DOMAIN s.usage
        ids == {id \in Ids : \A i \in Ids : i < id => i \in used}
    IN EntryWrites(ids, ids \union {None})
       \union (IF s.nextSeq - 1 - Cardinality(DOMAIN s.entries) < MaxOther
               THEN UsageWrites(ids) \union StateWrites ELSE {})

(* A commit is one write, or an entry and another below it, which may take *)
(* the same id by mistake.                                                 *)
Batches(s) ==
    {<<w>> : w \in Writes(s)}
    \union
    UNION {{<<w, next>> : next \in EntryWrites({w.id, w.id + 1} \intersect Ids,
                                               {w.id})} :
           w \in {x \in Writes(s) : x.kind = "entry"}}

Next ==
    \/ \E writes \in Batches(store) :
           store.nextSeq + Len(writes) <= MaxSeq + 1 /\ Commit(writes)
    \/ Close

Spec == Init /\ [][Next]_vars

=============================================================================

--------------------------- MODULE SqliteStorage ---------------------------
(***************************************************************************)
(* The SQLite backend of one session.  A commit is one transaction: its    *)
(* writes are applied one after the other against keys and triggers, and   *)
(* the first that fails rolls all of them back.  Nothing waits inside, so  *)
(* a commit is one step; a process lost in the middle of it leaves the     *)
(* file as it was.                                                         *)
(*                                                                         *)
(* Branches are read through an index of segments.  A segment has rows of  *)
(* its own and, below base_seq, those of the branch it was based on.  The  *)
(* first entry of a branch names it, and a row is named by the sequence of *)
(* its entry.                                                              *)
(***************************************************************************)
EXTENDS Integers, FiniteSets, SequencesExt

CONSTANTS Ids, Types, MaxSeq, MaxOther,
    Queries   \* branch scans but for start and stopId

ASSUME SqliteStorageAssumption ==
    /\ Ids \subseteq Nat \ {0}
    /\ {"message", "compaction"} \subseteq Types
    /\ MaxSeq \in Nat
    /\ MaxOther \in Nat

VARIABLES
    state,    \* SqliteStorage._state
    tables,   \* entries, usage_ledger, values, lists and the session row
    meta,     \* branch_meta: branch -> its tip and its base
    rows,     \* branch_entries: branch -> sequences
    raised    \* the error of the last commit

vars == <<state, tables, meta, rows, raised>>

M == INSTANCE MemoryStorage WITH
        store <- tables, failed <- raised # "nothing"

None == 0

TypeOK ==
    /\ state \in {"open", "closed"}
    /\ M!IsStore(tables)
    /\ M!Maps(meta, Ids, [tip : Ids, tipSeq : 1..MaxSeq,
                          base : Ids \union {None}, baseSeq : 0..MaxSeq])
    /\ M!Maps(rows, Ids, SUBSET (1..MaxSeq))
    /\ raised \in {"nothing", "duplicate", "missing parent", "driver error"}

Init ==
    /\ state = "open"
    /\ tables = M!EmptyStore
    /\ meta = <<>>
    /\ rows = <<>>
    /\ raised = "nothing"

-----------------------------------------------------------------------------
(* The branch index.  db is [tables, meta, rows].                          *)

Greatest(S) == CHOOSE n \in S : \A m \in S : m <= n
Least(S) == CHOOSE n \in S : \A m \in S : n <= m

SeqIn(db, id) == db.tables.entries[id].seq
IdOf(db, seq) == CHOOSE id \in DOMAIN db.tables.entries : SeqIn(db, id) = seq
TypeAt(db, seq) == db.tables.entries[IdOf(db, seq)].type

(* The branches whose own part has the row                                 *)
Holding(db, seq) ==
    {b \in DOMAIN db.meta :
        seq \in db.rows[b] /\ seq > db.meta[b].baseSeq
                           /\ seq <= db.meta[b].tipSeq}

(* _read_branch_membership: the one with the newest tip                    *)
Membership(db, id) ==
    CHOOSE b \in Holding(db, SeqIn(db, id)) :
        \A c \in Holding(db, SeqIn(db, id)) :
            db.meta[c].tipSeq <= db.meta[b].tipSeq

(* Mutant: the base is read up to its own tip.                             *)
MutBelow(db, b) == db.meta[db.meta[b].base].tipSeq

(* Where the part that a branch takes from its base ends                   *)
Below(db, b) == db.meta[b].baseSeq

(* _read_branch_segments_newest_first                                      *)
SegmentsNewestFirst(db, start) ==
    LET from[b \in DOMAIN db.meta, upper \in 0..MaxSeq] ==
            <<[branch |-> b, lower |-> db.meta[b].baseSeq, upper |-> upper]>>
            \o (IF db.meta[b].base = None THEN <<>>
                ELSE from[db.meta[b].base, Below(db, b)])
    IN from[Membership(db, start), SeqIn(db, start)]

RowsOf(db, segment) ==
    {n \in db.rows[segment.branch] :
        n > segment.lower /\ n <= segment.upper}

(* _read_newest_compaction_boundary: its segment, or none                  *)
CompactionsIn(db, segment) ==
    {n \in RowsOf(db, segment) : TypeAt(db, n) = "compaction"}

Boundary(db, segments) ==
    LET with == SelectSeq(segments,
                    LAMBDA s : CompactionsIn(db, s) # {}) IN
    IF with = <<>> THEN [branch |-> None, seq |-> 0]
    ELSE [branch |-> with[1].branch,
          seq |-> Greatest(CompactionsIn(db, with[1]))]

(* _copy_branch_entries_after_seq_through_parent                           *)
Copied(db, segments, after) ==
    {n \in UNION {RowsOf(db, segments[i]) : i \in 1..Len(segments)} :
        n > after}

Inserted(f, key, value) ==
    [k \in DOMAIN f \union {key} |-> IF k = key THEN value ELSE f[k]]

(* _create_root_branch_for_entry                                           *)
RootBranch(db, id, seq) ==
    [db EXCEPT !.meta = Inserted(@, id, [tip |-> id, tipSeq |-> seq,
                                         base |-> None, baseSeq |-> 0]),
               !.rows = Inserted(@, id, {seq})]

(* _append_entry_to_existing_branch                                        *)
AppendToBranch(db, b, id, seq) ==
    [db EXCEPT !.meta[b] = [@ EXCEPT !.tip = id, !.tipSeq = seq],
               !.rows[b] = @ \union {seq}]

(* _create_divergent_branch_for_entry                                      *)
DivergentBranch(db, parent, id, seq) ==
    LET segments == SegmentsNewestFirst(db, parent)
        boundary == Boundary(db, segments)
    IN [db EXCEPT !.meta = Inserted(@, id, [tip |-> id, tipSeq |-> seq,
                                            base |-> boundary.branch,
                                            baseSeq |-> boundary.seq]),
                  !.rows = Inserted(@, id,
                      Copied(db, segments, boundary.seq) \union {seq})]

(* append_entry_to_branch_index                                            *)
Indexed(db, w, seq) ==
    LET tips == {b \in DOMAIN db.meta : db.meta[b].tip = w.parent} IN
    IF w.parent = None THEN RootBranch(db, w.id, seq)
    ELSE IF tips = {} THEN DivergentBranch(db, w.parent, w.id, seq)
    ELSE AppendToBranch(db, CHOOSE b \in tips : TRUE, w.id, seq)

-----------------------------------------------------------------------------
(* Commits                                                                 *)

(* The triggers look for the parent before the key is checked, and         *)
(* _translate_integrity_error knows the parents of messages and custom     *)
(* entries only.                                                           *)
ErrorOf(db, w) ==
    IF M!MissingParent(db.tables, w)
    THEN IF w.type \in {"compaction", "branch_summary"} THEN "driver error"
         ELSE "missing parent"
    ELSE IF M!Duplicate(db.tables, w) THEN "duplicate" ELSE "nothing"

(* _write.  The session row moves to the next sequence when the commit     *)
(* ends; no write of the commit reads it before.                           *)
Written(db, w) ==
    LET after == [db EXCEPT !.tables = M!Applied(@, w, @.nextSeq)] IN
    IF w.kind = "entry" THEN Indexed(after, w, db.tables.nextSeq) ELSE after

(* Mutant: the writes before the one that failed stay.                     *)
MutRollback(before, failed) == failed

(* Sqlite3Database.transaction, on an exception                            *)
Rollback(before, failed) == before

(* The writes one after the other up to the first that fails               *)
Run(db, writes) ==
    FoldLeft(LAMBDA r, w :
                 IF r.raised # "nothing" THEN r
                 ELSE IF ErrorOf(r.db, w) # "nothing"
                 THEN [r EXCEPT !.raised = ErrorOf(r.db, w)]
                 ELSE [r EXCEPT !.db = Written(r.db, w)],
             [db |-> db, raised |-> "nothing"], writes)

Database == [tables |-> tables, meta |-> meta, rows |-> rows]

(* commit and _apply_commit                                                *)
Commit(writes) ==
    LET run == Run(Database, writes)
        db == IF run.raised = "nothing" THEN run.db
              ELSE Rollback(Database, run.db)
    IN /\ state = "open"
       /\ tables' = db.tables
       /\ meta' = db.meta
       /\ rows' = db.rows
       /\ raised' = run.raised
       /\ UNCHANGED state

(* close: nobody can have the commit lock.                                 *)
Close ==
    /\ state = "open"
    /\ state' = "closed"
    /\ UNCHANGED <<tables, meta, rows, raised>>

Next ==
    \/ \E writes \in M!Batches(tables) :
           /\ tables.nextSeq + Len(writes) <= MaxSeq + 1
           /\ Commit(writes)
    \/ Close

Spec == Init /\ [][Next]_vars

-----------------------------------------------------------------------------
(* Reading a branch                                                        *)

(* _read_stop_seq: the first row of the segment that stops the scan, or 0  *)
StopSeq(db, segment, q) ==
    LET stops == {n \in RowsOf(db, segment) :
                     M!Stops(db.tables, q, IdOf(db, n))}
    IN IF stops = {} THEN 0
       ELSE IF q.order = "oldest" THEN Least(stops) ELSE Greatest(stops)

(* _scan_entry_segment_rows                                                *)
SegmentRows(db, segment, q, stop, limit) ==
    LET found == {n \in RowsOf(db, segment) :
            /\ stop = 0 \/ (IF q.order = "oldest" THEN n <= stop
                            ELSE n >= stop)
            /\ M!Passes(db.tables, q, IdOf(db, n))}
        ascending == SelectSeq([n \in 1..MaxSeq |-> n],
                               LAMBDA n : n \in found)
        ordered == IF q.order = "oldest" THEN ascending
                   ELSE Reverse(ascending)
    IN M!Limited([n \in 1..Len(ordered) |-> IdOf(db, ordered[n])], limit)

(* The segment that stopped the scan is the last, and so is a full page.   *)
Ended(stop, q, read) == stop # 0 \/ (q.limit >= 0 /\ Len(read) >= q.limit)

(* scan_branch_entries                                                     *)
ScanBranch(db, q) ==
    LET newest == SegmentsNewestFirst(db, q.start)
        segments == IF q.order = "oldest" THEN Reverse(newest) ELSE newest
        scanned == FoldLeft(
            LAMBDA r, segment :
                IF r.ended THEN r
                ELSE LET stop == StopSeq(db, segment, q)
                         limit == IF q.limit < 0 THEN q.limit
                                  ELSE q.limit - Len(r.read)
                         read == r.read \o SegmentRows(db, segment, q, stop,
                                                       limit)
                     IN [read |-> read, ended |-> Ended(stop, q, read)],
            [read |-> <<>>, ended |-> q.limit = 0], segments)
    IN scanned.read

-----------------------------------------------------------------------------
(* Properties                                                              *)

(* Scans from an entry, and scans that stop at one                         *)
QueriesFrom(start) ==
    {[start |-> start, stopId |-> None, order |-> q.order, type |-> q.type,
      stopType |-> q.stopType, cursor |-> q.cursor, limit |-> q.limit] :
        q \in Queries}
    \union [start : {start}, stopId : DOMAIN tables.entries,
            order : {"newest", "oldest"}, type : {"any"},
            stopType : {"none"}, cursor : {None}, limit : {-1}]

(* Every scan of every branch reads through the segments what following    *)
(* the parent links reads, whatever was appended and forked before         *)
(* (branch_entries.py, "Memory walks parent pointers in RAM").             *)
ScansAgree ==
    state = "open" /\ raised = "nothing" =>
        \A start \in DOMAIN tables.entries : \A q \in QueriesFrom(start) :
            ScanBranch(Database, q) = M!ScanBranch(tables, q)

(* A fork copies what came after the newest compaction and no more, so no  *)
(* compaction is ever in the rows of two branches ("The copy bound").      *)
CopyBounded ==
    \A b, c \in DOMAIN meta : b # c =>
        \A n \in rows[b] \intersect rows[c] :
            TypeAt(Database, n) # "compaction"

(* What is derived from the rows agrees with them, after failed commits    *)
(* too: the statistics and the next sequence of the session row, and the   *)
(* index, which has a row for every entry and for nothing else.            *)
CachesMatch ==
    LET entries == DOMAIN tables.entries
        seqs == {tables.entries[id].seq : id \in entries}
    IN /\ tables.messages = Cardinality(
              {id \in entries : tables.entries[id].type = "message"})
       /\ tables.used = Cardinality(DOMAIN tables.usage)
       /\ Cardinality(seqs) = Cardinality(entries)
       /\ \A n \in seqs : n < tables.nextSeq
       /\ UNION {rows[b] : b \in DOMAIN rows} = seqs

(* The backend does what the in-memory store does: the same commits        *)
(* succeed, with the same sequences and statistics, and a failed one       *)
(* leaves every record as it was (storage.md, invariants.md).              *)
ImplementsMemory == M!Spec

(* "shared duplicate-id and missing-parent failures map to the common      *)
(* ValueError contract" (docs/durable/storage.md).                         *)
FailuresTranslated == raised # "driver error"

(* What the caches of branches owe, together: every scan through them is   *)
(* the scan of the parents' chain, and a commit copies no more than bound. *)
BranchCachesSound ==
    TypeOK /\ ScansAgree /\ CachesMatch /\ CopyBounded

=============================================================================

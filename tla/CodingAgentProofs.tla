------------------------- MODULE CodingAgentProofs -------------------------
(***************************************************************************)
(* Proofs about the coding agent's session runtime (CodingSession) and its *)
(* interactive screen (InteractiveSession).                                *)
(*                                                                         *)
(* CodingSession, for every set of paths and every number of sessions,     *)
(* entries, saves and faults.  A file is written in two ways, whole or by   *)
(* one more entry, and by two kinds of writers, the holder of its lock in  *)
(* this process or another process when nobody here has it; the invariant  *)
(* says what the holder knows of its file, and what a candidate that       *)
(* borrows its lock may count on until publication or until the lender     *)
(* gives the file up.  Of the files given up so, only what they are made   *)
(* of and who has their locks is known.                                    *)
(*                                                                         *)
(* InteractiveSession, for all sets of texts, images and conversations and *)
(* every number of commands and failed saves.  The invariant says where    *)
(* each item is and which conversation it belongs to; for that it needs to *)
(* know which task still has something, that nothing else is under way     *)
(* while a conversation is replaced, and that a fork copies one message of *)
(* the history shown.                                                      *)
(***************************************************************************)
EXTENDS CodingSession, InteractiveSession, SequenceTheorems, TLAPS

-----------------------------------------------------------------------------
(* The invariant                                                           *)

Numbered(n) == [kind : {"setup", "message"}, n : 1..n, parent : 0..n]
Headers == [kind : {"header"}, n : Nat, parent : {0}]
WholeLines(n) == Headers \union Numbered(n)

(* A history whose entries are all numbered                                *)
History(h, n) == h \in Seq(Numbered(n)) /\ ValidHistory(h)

(* A file of such entries                                                  *)
FileOK(file, n) ==
    /\ file \in [made : BOOLEAN, lines : Seq(WholeLines(n)),
                 rest : Seq(WholeLines(n)) \union {<<Torn>>}]
    /\ ~file.made => file = NoFile

(* Nothing but the history is in the file, and the next line may follow.   *)
FileIs(file, h) == Readable(file) /\ Decoded(file) = h /\ file.rest = <<>>

DiskInv ==
    /\ files = [p \in Paths |-> files[p]]
    /\ \A p \in Paths : FileOK(files[p], entries)
    /\ acknowledged \in [Paths -> Seq(Numbered(entries))]
    /\ SavedSurvives

HistoryInv ==
    /\ \A i \in 1..Len(sessions) : History(sessions[i].hist, entries)
    /\ History(switch.hist, entries)

(* A manager that says "saved" and has its lock                            *)
SavedInv ==
    \A i \in 1..Len(sessions) :
        sessions[i].save = "saved"
                /\ sessions[i].writer \notin {NoPath} \union forsaken =>
            FileIs(files[sessions[i].writer], sessions[i].hist)

(* A lock is had by an open session for the file it is bound to, one       *)
(* session for each; the former sessions are closed.                       *)
LockInv ==
    /\ \A i \in 1..Len(sessions) :
        /\ sessions[i].writer # NoPath =>
            ~sessions[i].closed /\ sessions[i].writer = sessions[i].path
        /\ i \notin {current, Candidate} => sessions[i].closed
        /\ \A j \in 1..Len(sessions) :
            sessions[i].writer # NoPath /\ sessions[j].writer = sessions[i].writer
                => i = j
    /\ HoldsItsFile(forsaken)

(* The candidate is as it was prepared, and is not the current session.    *)
Prepared == switch.phase \in {"prepared", "owned", "retiring"}

CandidateInv ==
    Prepared =>
        LET s == sessions[Candidate] IN
        /\ sessions # <<>>
        /\ current # Candidate
        /\ s = Session(s.hist, switch.path, s.writer,
                       IF switch.kind = "open" THEN "saved" ELSE "pending")
        /\ switch.kind # "open" => s.hist = switch.hist
        /\ s.writer # switch.path => switch.kind = "open" /\ s.writer = NoPath

(* What was derived from the current session is still a part of it when    *)
(* its Agent has been closed.                                              *)
DeriveInv ==
    switch.phase # "none" /\ switch.kind = "derive" =>
        /\ current # 0
        /\ switch.hist \in Ancestors(switch.previous)
        /\ switch.path = NoPath \/ switch.path # sessions[current].path

(* The current session keeps its records while another one is prepared.    *)
SwitchInv ==
    switch.phase # "none" /\ switch.kind = "open" =>
        /\ switch.path # NoPath
        /\ current # 0 => Len(switch.previous) <= Len(sessions[current].hist)

(* A candidate without a lock counts on the current session's, and on      *)
(* what it read from the file as long as the current history is what it    *)
(* was: that is looked at before the Agent is closed, and nothing is       *)
(* recorded afterwards.  (When the lock is given up, nothing is left to     *)
(* count on.)                                                              *)
Borrowed ==
    /\ Prepared
    /\ switch.path # sessions[Candidate].writer
    /\ switch.path \notin forsaken

BorrowInv ==
    /\ Borrowed =>
        /\ current # 0
        /\ sessions[current].writer = switch.path
        /\ sessions[current].hist = switch.previous =>
            FileIs(files[switch.path], sessions[Candidate].hist)
    /\ switch.phase = "retiring" /\ (Borrowed \/ switch.kind = "derive") =>
        /\ sessions[current].hist = switch.previous
        /\ sessions[current].agent = "closed"

IInv ==
    /\ TypeOK /\ DiskInv /\ HistoryInv /\ SavedInv /\ LockInv
    /\ CandidateInv /\ DeriveInv /\ SwitchInv /\ BorrowInv

-----------------------------------------------------------------------------
(* Histories                                                               *)

(* What is numbered so far is numbered later.                              *)
LEMMA NumberedGrows ==
    ASSUME NEW n \in Nat, NEW m \in Nat, n <= m
    PROVE  /\ Numbered(n) \subseteq Numbered(m)
           /\ Seq(Numbered(n)) \subseteq Seq(Numbered(m))
           /\ \A h : History(h, n) => History(h, m)
           /\ \A file : FileOK(file, n) => FileOK(file, m)
  <1>1. Numbered(n) \subseteq Numbered(m)
    BY DEF Numbered
  <1>2. Seq(Numbered(n)) \subseteq Seq(Numbered(m))
    BY <1>1, SeqMonotonic
  <1>3. WholeLines(n) \subseteq WholeLines(m)
    BY <1>1 DEF WholeLines
  <1>4. Seq(WholeLines(n)) \subseteq Seq(WholeLines(m))
    BY <1>3, SeqMonotonic
  <1> QED
    BY <1>1, <1>2, <1>4 DEF History, FileOK

(* A new entry has a number of its own and a known parent.                 *)
LEMMA EntryAppended ==
    ASSUME NEW n \in Nat, NEW h, History(h, n),
           NEW kind \in {"setup", "message"},
           NEW e, e = Line(kind, n + 1, IF h = <<>> THEN 0 ELSE Last(h).n)
    PROVE  /\ e \in Numbered(n + 1)
           /\ History(Append(h, e), n + 1)
           /\ Len(Append(h, e)) = Len(h) + 1
  <1>1. h \in Seq(Numbered(n)) /\ ValidHistory(h) /\ Len(h) \in Nat
    BY LenProperties DEF History
  <1>2. \A i \in 1..Len(h) : h[i] \in Numbered(n)
    BY <1>1, ElementOfSeq
  <1>3. h # <<>> => Len(h) \in 1..Len(h)
    BY <1>1, EmptySeq
  <1>4. e \in Numbered(n + 1)
    BY <1>2, <1>3 DEF Numbered, Line, Last
  <1>5. h \in Seq(Numbered(n + 1))
    BY <1>1, NumberedGrows
  <1>6. /\ Append(h, e) \in Seq(Numbered(n + 1))
        /\ Len(Append(h, e)) = Len(h) + 1
        /\ \A i \in 1..Len(h) : Append(h, e)[i] = h[i]
        /\ Append(h, e)[Len(h) + 1] = e
    BY <1>4, <1>5, AppendProperties
  <1>7. e.n = n + 1 /\ e.parent = (IF h = <<>> THEN 0 ELSE Last(h).n)
    BY DEF Line
  <1>8. ASSUME NEW i \in 1..Len(h) + 1
        PROVE  /\ \A j \in 1..i - 1 :
                    Append(h, e)[j].n # Append(h, e)[i].n
               /\ Append(h, e)[i].parent # 0 =>
                    \E j \in 1..i - 1 :
                        Append(h, e)[j].n = Append(h, e)[i].parent
    <2>1. CASE i \in 1..Len(h)
      BY <1>1, <1>6, <2>1 DEF ValidHistory
    <2>2. CASE i = Len(h) + 1
      <3>1. \A j \in 1..Len(h) : Append(h, e)[j].n # e.n
        BY <1>1, <1>2, <1>6, <1>7 DEF Numbered
      <3>2. e.parent # 0 => Append(h, e)[Len(h)].n = e.parent
        BY <1>3, <1>6, <1>7 DEF Last
      <3> QED
        BY <1>1, <1>3, <1>6, <1>7, <2>2, <3>1, <3>2
    <2> QED
      BY <1>1, <2>1, <2>2
  <1> QED
    BY <1>4, <1>6, <1>8 DEF History, ValidHistory

(* The beginning of a history is a history.                                *)
LEMMA HistoryCut ==
    ASSUME NEW n \in Nat, NEW h, History(h, n), NEW k \in 0..Len(h)
    PROVE  History(SubSeq(h, 1, k), n)
  <1>1. h \in Seq(Numbered(n)) /\ ValidHistory(h) /\ Len(h) \in Nat
    BY LenProperties DEF History
  <1>2. \A i \in 1..k : h[i] \in Numbered(n)
    BY <1>1, ElementOfSeq
  <1>3. /\ SubSeq(h, 1, k) \in Seq(Numbered(n))
        /\ Len(SubSeq(h, 1, k)) = k
        /\ \A i \in 1..k : SubSeq(h, 1, k)[i] = h[i]
    BY <1>1, <1>2, SubSeqProperties, k \in Int
  <1> QED
    BY <1>1, <1>3 DEF History, ValidHistory

LEMMA PrefixGrows ==
    ASSUME NEW S, NEW a \in Seq(S), NEW h \in Seq(S), NEW e \in S
    PROVE  /\ IsPrefix(h, h)
           /\ IsPrefix(a, h) => IsPrefix(a, Append(h, e))
  <1>1. /\ Len(a) \in Nat /\ Len(h) \in Nat
        /\ Len(Append(h, e)) = Len(h) + 1
        /\ Append(h, e) = h \o <<e>> /\ <<e>> \in Seq(S)
    BY LenProperties, AppendProperties, AppendIsConcat
  <1>2. ASSUME IsPrefix(a, h) PROVE IsPrefix(a, Append(h, e))
    <2>1. CASE Len(a) = 0
      <3>1. /\ SubSeq(a, 1, Len(a)) = <<>>
            /\ SubSeq(Append(h, e), 1, Len(a)) = <<>>
        BY <2>1, SubSeqEmpty
      <3> QED
        BY <1>1, <2>1, <3>1 DEF IsPrefix
    <2>2. CASE Len(a) # 0
      <3>1. Len(a) \in 1..Len(h) /\ 1 \in 1..Len(h)
        BY <1>1, <1>2, <2>2 DEF IsPrefix
      <3>2. SubSeq(h \o <<e>>, 1, Len(a)) = SubSeq(h, 1, Len(a))
        BY <1>1, <3>1, SubSeqOfConcat1
      <3> QED
        BY <1>1, <1>2, <3>2 DEF IsPrefix
    <2> QED
      BY <2>1, <2>2
  <1> QED
    BY <1>1, <1>2 DEF IsPrefix

-----------------------------------------------------------------------------
(* Files                                                                   *)

(* A header and a history behind it is a sequence of lines.                *)
LEMMA HeaderAndHistory ==
    ASSUME NEW n \in Nat, NEW h, History(h, n), NEW c \in Headers
    PROVE  /\ <<c>> \o h \in Seq(WholeLines(n))
           /\ Len(<<c>> \o h) = Len(h) + 1
           /\ (<<c>> \o h)[1] = c
           /\ \A i \in 2..Len(<<c>> \o h) : (<<c>> \o h)[i] = h[i - 1]
           /\ Tail(<<c>> \o h) = h
           /\ <<c>> \o h # <<>>
  <1>1. h \in Seq(Numbered(n)) /\ Len(h) \in Nat
    BY LenProperties DEF History
  <1>2. h \in Seq(WholeLines(n)) /\ <<c>> \in Seq(WholeLines(n))
    <2>1. Numbered(n) \subseteq WholeLines(n) /\ c \in WholeLines(n)
      BY DEF WholeLines
    <2> QED
      BY <1>1, <2>1, SeqMonotonic
  <1>3. Len(<<c>>) = 1 /\ <<c>>[1] = c
    OBVIOUS
  <1>4. /\ <<c>> \o h \in Seq(WholeLines(n))
        /\ Len(<<c>> \o h) = 1 + Len(h)
        /\ \A i \in 1..1 + Len(h) :
             (<<c>> \o h)[i] = IF i <= 1 THEN <<c>>[i] ELSE h[i - 1]
    BY <1>2, <1>3, ConcatProperties
  <1>5. <<c>> \o h # <<>>
    BY <1>1, <1>4
  <1>6. Tail(<<c>> \o h) = h
    <2>1. /\ Tail(<<c>> \o h) \in Seq(WholeLines(n))
          /\ Len(Tail(<<c>> \o h)) = Len(h)
          /\ \A i \in 1..Len(h) : Tail(<<c>> \o h)[i] = (<<c>> \o h)[i + 1]
      BY <1>1, <1>4, <1>5, HeadTailProperties
    <2>2. \A i \in 1..Len(h) : Tail(<<c>> \o h)[i] = h[i]
      BY <1>1, <1>4, <2>1
    <2> QED
      BY <1>2, <2>1, <2>2, SeqEqual
  <1> QED
    BY <1>1, <1>3, <1>4, <1>5, <1>6

(* Whoever reads a file with a header and a long enough history gets it.   *)
LEMMA FileRead ==
    ASSUME NEW n \in Nat, NEW h, History(h, n), NEW c \in Headers,
           c.n <= Len(h), NEW file, Records(file) = <<c>> \o h
    PROVE  Readable(file) /\ Decoded(file) = h
  <1>1. Decoded(file) = h /\ Len(h) \in Nat
    BY HeaderAndHistory, LenProperties DEF Decoded, History
  <1>2. \A i \in 1..Len(h) : h[i].kind # "header"
    <2>1. \A i \in 1..Len(h) : h[i] \in Numbered(n)
      BY ElementOfSeq DEF History
    <2> QED
      BY <2>1 DEF Numbered
  <1>3. /\ Records(file) # <<>>
        /\ Records(file)[1] = c
        /\ Len(Records(file)) = Len(h) + 1
        /\ \A i \in 2..Len(Records(file)) : Records(file)[i] = h[i - 1]
    BY HeaderAndHistory
  <1>4. \A i \in 2..Len(Records(file)) : Records(file)[i].kind # "header"
    BY <1>1, <1>2, <1>3
  <1>5. c.kind = "header"
    BY DEF Headers
  <1> QED
    BY <1>1, <1>3, <1>4, <1>5 DEF Readable, History

(* The lines of a readable file, taken apart                               *)
LEMMA ReadableParts ==
    ASSUME NEW n \in Nat, NEW file, FileOK(file, n), Readable(file)
    PROVE  /\ History(Decoded(file), n)
           /\ \E c \in Headers :
                c.n <= Len(Decoded(file))
                    /\ Records(file) = <<c>> \o Decoded(file)
           /\ Records(file) \in Seq(WholeLines(n))
           /\ file.made
  <1> DEFINE R == Records(file)
  <1>1. R \in Seq(WholeLines(n))
    BY ConcatProperties, EmptySeq DEF FileOK, Records
  <1>2. /\ R # <<>> /\ R[1].kind = "header"
        /\ \A i \in 2..Len(R) : R[i].kind # "header"
        /\ R[1].n <= Len(Tail(R)) /\ ValidHistory(Tail(R))
    BY DEF Readable, Decoded
  <1>3. /\ Len(R) \in Nat \ {0}
        /\ Tail(R) \in Seq(WholeLines(n)) /\ Len(Tail(R)) = Len(R) - 1
        /\ \A i \in 1..Len(Tail(R)) : Tail(R)[i] = R[i + 1]
    BY <1>1, <1>2, EmptySeq, HeadTailProperties
  <1>4. \A i \in 1..Len(R) : R[i] \in WholeLines(n)
    BY <1>1, ElementOfSeq
  <1>5. \A i \in 1..Len(Tail(R)) : Tail(R)[i] \in Numbered(n)
    BY <1>2, <1>3, <1>4 DEF WholeLines, Headers
  <1>6. Tail(R) \in Seq(Numbered(n))
    <2>1. Tail(R) \in [1..Len(Tail(R)) -> WholeLines(n)] /\ Len(Tail(R)) \in Nat
      BY <1>3, LenProperties
    <2>2. Tail(R) \in [1..Len(Tail(R)) -> Numbered(n)]
      BY <1>5, <2>1
    <2> QED
      BY <2>1, <2>2, SeqDef
  <1>7. R[1] \in Headers
    BY <1>2, <1>3, <1>4 DEF WholeLines, Numbered
  <1>8. R = <<R[1]>> \o Tail(R)
    <2>1. /\ <<R[1]>> \o Tail(R) \in Seq(WholeLines(n))
          /\ Len(<<R[1]>> \o Tail(R)) = Len(R)
          /\ (<<R[1]>> \o Tail(R))[1] = R[1]
          /\ \A i \in 2..Len(R) : (<<R[1]>> \o Tail(R))[i] = R[i]
      <3>1. History(Tail(R), n)
        BY <1>2, <1>6 DEF History
      <3>2. PICK c \in Headers, h \in Seq(Numbered(n)) :
                c = R[1] /\ h = Tail(R) /\ History(h, n)
        BY <1>7, <3>1 DEF History
      <3>3. /\ <<c>> \o h \in Seq(WholeLines(n))
            /\ Len(<<c>> \o h) = Len(h) + 1
            /\ (<<c>> \o h)[1] = c
            /\ \A i \in 2..Len(<<c>> \o h) : (<<c>> \o h)[i] = h[i - 1]
        <4>1. <<c>> \o h \in Seq(WholeLines(n))
          BY <3>2, HeaderAndHistory
        <4>2. Len(<<c>> \o h) = Len(h) + 1
          BY <3>2, HeaderAndHistory
        <4>3. (<<c>> \o h)[1] = c
          BY <3>2, HeaderAndHistory
        <4>4. \A i \in 2..Len(<<c>> \o h) : (<<c>> \o h)[i] = h[i - 1]
          BY <3>2, HeaderAndHistory
        <4> QED
          BY <4>1, <4>2, <4>3, <4>4
      <3> HIDE DEF R
      <3> QED
        BY <1>3, <3>2, <3>3
    <2>2. \A i \in 1..Len(R) : (<<R[1]>> \o Tail(R))[i] = R[i]
      BY <1>3, <2>1
    <2> HIDE DEF R
    <2> QED
      BY <1>1, <2>1, <2>2, SeqEqual
  <1>9. file.made
    <2>1. CASE ~file.made
      <3>1. R = <<>>
        BY <2>1 DEF FileOK, NoFile, Records, Torn
      <3> QED
        BY <1>2, <3>1
    <2> QED
      BY <2>1 DEF FileOK
  <1> QED
    BY <1>1, <1>2, <1>6, <1>7, <1>8, <1>9 DEF History, Decoded

(* A file that is written anew is its history.                             *)
LEMMA WrittenWhole ==
    ASSUME NEW n \in Nat, NEW h, History(h, n)
    PROVE  FileOK(Whole(h), n) /\ FileIs(Whole(h), h)
  <1> DEFINE c == Line("header", Len(h), 0)
  <1>1. c \in Headers /\ c.n <= Len(h)
    BY LenProperties DEF History, Headers, Line
  <1>2. <<c>> \o h \in Seq(WholeLines(n))
    BY <1>1, HeaderAndHistory
  <1>3. Whole(h) = [made |-> TRUE, lines |-> <<c>> \o h, rest |-> <<>>]
    BY DEF Whole, Text
  <1>4. Records(Whole(h)) = <<c>> \o h
    BY <1>2, <1>3, ConcatEmptySeq DEF Records
  <1>5. FileOK(Whole(h), n)
    <2>1. <<>> \in Seq(WholeLines(n))
      BY EmptySeq
    <2> QED
      BY <1>2, <1>3, <2>1 DEF FileOK
  <1> QED
    <2>1. Readable(Whole(h)) /\ Decoded(Whole(h)) = h
      BY <1>1, <1>4, FileRead
    <2> QED
      BY <1>3, <1>5, <2>1 DEF FileIs

(* Separating the tail changes nothing of what is read.                    *)
LEMMA SeparatedReads ==
    ASSUME NEW n \in Nat, NEW file, FileOK(file, n), Readable(file)
    PROVE  /\ FileOK(Separated(file), n)
           /\ FileIs(Separated(file), Decoded(file))
  <1>1. /\ Records(file) \in Seq(WholeLines(n)) /\ file.made
        /\ History(Decoded(file), n)
    BY ReadableParts
  <1>2. PICK c \in Headers :
            c.n <= Len(Decoded(file)) /\ Records(file) = <<c>> \o Decoded(file)
    BY ReadableParts
  <1>3. /\ Separated(file).made /\ Separated(file).rest = <<>>
        /\ Separated(file).lines = Records(file)
        /\ Separated(file) \in [made : BOOLEAN, lines : Seq(WholeLines(n)),
                                rest : Seq(WholeLines(n)) \union {<<Torn>>}]
    <2>1. <<>> \in Seq(WholeLines(n))
      BY EmptySeq
    <2> QED
      BY <1>1, <2>1 DEF Separated, FileOK
  <1>4. Records(Separated(file)) = Records(file)
    BY <1>1, <1>3, ConcatEmptySeq DEF Records
  <1> QED
    BY <1>1, <1>2, <1>3, <1>4, FileRead DEF FileOK, FileIs

(* One more entry at the end of a file that is its history                 *)
LEMMA EntryWritten ==
    ASSUME NEW n \in Nat, NEW file, FileOK(file, n),
           NEW h, FileIs(file, h), NEW e \in Numbered(n),
           History(Append(h, e), n)
    PROVE  LET g == Appended(file, <<e>>) IN
           FileOK(g, n) /\ FileIs(g, Append(h, e))
  <1> DEFINE g == Appended(file, <<e>>)
  <1>1. /\ Readable(file) /\ Decoded(file) = h /\ file.rest = <<>>
        /\ History(h, n) /\ h \in Seq(Numbered(n)) /\ Len(h) \in Nat
    BY ReadableParts, LenProperties DEF FileIs, History
  <1>2. PICK c \in Headers : c.n <= Len(h) /\ Records(file) = <<c>> \o h
    BY <1>1, ReadableParts
  <1>3. file.lines \in Seq(WholeLines(n))
    BY DEF FileOK
  <1>4. file.lines = <<c>> \o h
    <2>1. Records(file) = file.lines \o <<>>
      BY <1>1 DEF Records
    <2> QED
      BY <1>2, <1>3, <2>1, ConcatEmptySeq
  <1>5. g = [made |-> TRUE, rest |-> <<>>, lines |-> file.lines \o <<e>>]
    <2>1. <<e>> # <<>>
      OBVIOUS
    <2> QED
      BY <1>1, <2>1 DEF Appended
  <1>6. file.lines \o <<e>> = <<c>> \o Append(h, e)
    <2>1. e \in WholeLines(n) /\ c \in WholeLines(n)
      BY DEF WholeLines
    <2>2. Numbered(n) \subseteq WholeLines(n)
      BY DEF WholeLines
    <2>3. h \in Seq(WholeLines(n))
      BY <1>1, <2>2, SeqMonotonic
    <2>4. <<c>> \in Seq(WholeLines(n)) /\ <<e>> \in Seq(WholeLines(n))
      BY <2>1
    <2>5. (<<c>> \o h) \o <<e>> = <<c>> \o (h \o <<e>>)
      BY <2>3, <2>4, ConcatAssociative
    <2>6. Append(h, e) = h \o <<e>>
      BY <1>1, AppendIsConcat
    <2> QED
      BY <1>4, <2>5, <2>6
  <1>7. Len(h) <= Len(Append(h, e))
    BY <1>1, AppendProperties
  <1>8. <<c>> \o Append(h, e) \in Seq(WholeLines(n))
    BY HeaderAndHistory
  <1>9. Records(g) = <<c>> \o Append(h, e)
    <2>1. g.rest = <<>> /\ g.lines = file.lines \o <<e>>
      BY <1>5
    <2> HIDE DEF g
    <2>2. Records(g) = g.lines \o <<>>
      BY <2>1 DEF Records
    <2> QED
      BY <1>6, <1>8, <2>1, <2>2, ConcatEmptySeq
  <1>10. c.n <= Len(Append(h, e))
    <2>1. c.n \in Nat /\ Len(Append(h, e)) \in Nat
      BY LenProperties DEF Headers, History
    <2> QED
      BY <1>1, <1>2, <1>7, <2>1
  <1>11. Readable(g) /\ Decoded(g) = Append(h, e)
    <2> HIDE DEF g
    <2> QED
      BY <1>9, <1>10, FileRead
  <1>12. FileOK(g, n)
    <2>1. <<>> \in Seq(WholeLines(n))
      BY EmptySeq
    <2>2. file.lines \o <<e>> \in Seq(WholeLines(n))
      BY <1>6, <1>8
    <2>3. g \in [made : BOOLEAN, lines : Seq(WholeLines(n)),
                 rest : Seq(WholeLines(n)) \union {<<Torn>>}]
      <3>1. [made |-> TRUE, rest |-> <<>>, lines |-> file.lines \o <<e>>]
                \in [made : BOOLEAN, lines : Seq(WholeLines(n)),
                    rest : Seq(WholeLines(n)) \union {<<Torn>>}]
        BY <2>1, <2>2
      <3> HIDE DEF g
      <3> QED
        BY <1>5, <3>1
    <2>4. g.made
      BY <1>5
    <2> HIDE DEF g
    <2> QED
      BY <2>3, <2>4 DEF FileOK
  <1> QED
    BY <1>5, <1>11, <1>12 DEF FileIs

(* An append of one entry that stops anywhere leaves the history or the    *)
(* longer one to be read.                                                  *)
LEMMA EntryCutShort ==
    ASSUME NEW n \in Nat, NEW file, FileOK(file, n),
           NEW h, FileIs(file, h), NEW e \in Numbered(n),
           History(Append(h, e), n), NEW g \in CutShort(file, <<e>>)
    PROVE  /\ FileOK(g, n) /\ Readable(g)
           /\ Decoded(g) = h \/ Decoded(g) = Append(h, e)
  <1>1. /\ Readable(file) /\ Decoded(file) = h /\ file.rest = <<>>
        /\ file.made
    BY ReadableParts DEF FileIs
  <1>2. Len(<<e>>) = 1 /\ <<e>>[1] = e
    OBVIOUS
  <1>3. SubSeq(<<e>>, 1, 0) = <<>> /\ SubSeq(<<e>>, 1, 1) = <<e>>
    <2>1. SubSeq(<<e>>, 1, 0) = <<>>
      BY SubSeqEmpty, 0 < 1
    <2>2. <<e>> \in Seq(Numbered(n))
      OBVIOUS
    <2>3. SubSeq(<<e>>, 1, Len(<<e>>)) = <<e>>
      BY <2>2, SubSeqFull
    <2> QED
      BY <1>2, <2>1, <2>3
  <1>4. Appended(file, <<>>) = file
    BY <1>1 DEF Appended, FileOK
  <1>5. \/ g \in {file, Appended(file, <<e>>)}
        \/ g = Broken(file, e)
        \/ g = Broken(file, Torn)
    <2>1. 0..Len(<<e>>) = {0, 1} /\ 0..Len(<<e>>) - 1 = {0}
      BY <1>2
    <2>2. \/ \E k \in {0, 1} : g = Appended(file, SubSeq(<<e>>, 1, k))
          \/ \E k \in {0} : g = Broken(Appended(file, SubSeq(<<e>>, 1, k)),
                                      <<e>>[k + 1])
          \/ \E k \in {0} : g = Broken(Appended(file, SubSeq(<<e>>, 1, k)), Torn)
      BY <2>1 DEF CutShort
    <2>3. 0 + 1 = 1
      OBVIOUS
    <2> QED
      BY <1>2, <1>3, <1>4, <2>2, <2>3
  <1>6. CASE g \in {file, Appended(file, <<e>>)}
    BY <1>1, <1>6, EntryWritten DEF FileIs
  <1>7. CASE g = Broken(file, e)
    <2>1. /\ g.made /\ g.lines = file.lines /\ g.rest = <<e>>
          /\ g = [file EXCEPT !.made = TRUE, !.rest = <<e>>]
      BY <1>1, <1>7 DEF Broken, FileOK
    <2>2. <<e>> # <<Torn>> /\ <<e>> \in Seq(WholeLines(n)) /\ <<e>> # <<>>
      <3>1. e # Torn /\ e \in WholeLines(n)
        BY DEF Numbered, Torn, Line, WholeLines
      <3> QED
        BY <3>1
    <2>3. Records(g) = Records(Appended(file, <<e>>))
      <3>1. Records(g) = file.lines \o <<e>>
        BY <2>1, <2>2 DEF Records
      <3>2. Appended(file, <<e>>) =
                [made |-> TRUE, rest |-> <<>>, lines |-> file.lines \o <<e>>]
        BY <1>1, <2>2 DEF Appended
      <3>3. Records(Appended(file, <<e>>)) = (file.lines \o <<e>>) \o <<>>
        <4>1. /\ Appended(file, <<e>>).rest = <<>>
              /\ Appended(file, <<e>>).lines = file.lines \o <<e>>
          BY <3>2
        <4> QED
          BY <4>1 DEF Records
      <3>4. file.lines \in Seq(WholeLines(n))
        BY DEF FileOK
      <3> QED
        BY <2>2, <3>1, <3>3, <3>4, ConcatProperties, ConcatEmptySeq
    <2>4. Readable(Appended(file, <<e>>))
            /\ Decoded(Appended(file, <<e>>)) = Append(h, e)
      BY EntryWritten DEF FileIs
    <2>5. Readable(g) /\ Decoded(g) = Append(h, e)
      BY <2>3, <2>4 DEF Readable, Decoded
    <2> QED
      BY <2>1, <2>2, <2>5 DEF FileOK
  <1>8. CASE g = Broken(file, Torn)
    <2>1. /\ g.made /\ g.lines = file.lines /\ g.rest = <<Torn>>
          /\ g = [file EXCEPT !.made = TRUE, !.rest = <<Torn>>]
      BY <1>1, <1>8 DEF Broken, FileOK
    <2>2. Records(g) = Records(file)
      <3>1. <<>> # <<Torn>>
        OBVIOUS
      <3> QED
        BY <1>1, <2>1, <3>1 DEF Records
    <2>3. Readable(g) /\ Decoded(g) = h
      BY <1>1, <2>2 DEF Readable, Decoded
    <2> QED
      BY <2>1, <2>3 DEF FileOK
  <1> QED
    BY <1>5, <1>6, <1>7, <1>8

(* An append to any file, and one that stops anywhere, leaves a file.      *)
LEMMA AnyAppend ==
    ASSUME NEW n \in Nat, NEW file, FileOK(file, n),
           NEW text \in Seq(WholeLines(n))
    PROVE  /\ FileOK(Appended(file, text), n)
           /\ \A g \in CutShort(file, text) : FileOK(g, n)
  <1>1. <<>> \in Seq(WholeLines(n)) /\ Len(text) \in Nat
    BY EmptySeq, LenProperties
  <1>2. ASSUME NEW s \in Seq(WholeLines(n)) PROVE FileOK(Appended(file, s), n)
    <2>1. CASE s = <<>>
      BY <2>1 DEF Appended, FileOK
    <2>2. CASE s # <<>>
      <3>1. Tail(s) \in Seq(WholeLines(n))
        BY <1>2, <2>2, HeadTailProperties
      <3>2. PICK u \in Seq(WholeLines(n)) :
                u = file.lines \o (IF file.rest = <<>> THEN s ELSE Tail(s))
        BY <1>2, <3>1, ConcatProperties DEF FileOK
      <3>3. Appended(file, s) = [made |-> TRUE, rest |-> <<>>, lines |-> u]
        BY <2>2, <3>2 DEF Appended
      <3> QED
        BY <1>1, <3>2, <3>3 DEF FileOK
    <2> QED
      BY <2>1, <2>2
  <1>3. ASSUME NEW k \in 0..Len(text)
        PROVE  FileOK(Appended(file, SubSeq(text, 1, k)), n)
    <2>1. k \in Int /\ \A i \in 1..k : text[i] \in WholeLines(n)
      BY <1>1, ElementOfSeq
    <2>2. SubSeq(text, 1, k) \in Seq(WholeLines(n))
      BY <2>1, SubSeqProperties
    <2> QED
      BY <1>2, <2>2
  <1>4. ASSUME NEW f, FileOK(f, n), NEW line \in WholeLines(n) \union {Torn}
        PROVE  FileOK(Broken(f, line), n)
    <2>1. <<line>> \in Seq(WholeLines(n)) \union {<<Torn>>}
      OBVIOUS
    <2>2. PICK r \in Seq(WholeLines(n)) \union {<<Torn>>} :
              r = IF f.rest = <<>> THEN <<line>> ELSE <<Torn>>
      BY <2>1
    <2>3. Broken(f, line) = [f EXCEPT !.made = TRUE, !.rest = r]
      BY <1>4, <2>2 DEF Broken, FileOK
    <2> QED
      BY <1>4, <2>3 DEF FileOK
  <1>5. ASSUME NEW g \in CutShort(file, text) PROVE FileOK(g, n)
    <2>1. \/ \E k \in 0..Len(text) : g = Appended(file, SubSeq(text, 1, k))
          \/ \E k \in 0..Len(text) - 1 :
                g = Broken(Appended(file, SubSeq(text, 1, k)), text[k + 1])
          \/ \E k \in 0..Len(text) - 1 :
                g = Broken(Appended(file, SubSeq(text, 1, k)), Torn)
      BY DEF CutShort
    <2>2. \A k \in 0..Len(text) - 1 :
            k \in 0..Len(text) /\ text[k + 1] \in WholeLines(n)
      BY <1>1, ElementOfSeq
    <2> QED
      BY <1>3, <1>4, <2>1, <2>2
  <1> QED
    BY <1>2, <1>5

(* The first write of a history, and what it leaves when it stops          *)
LEMMA FirstWrite ==
    ASSUME NEW n \in Nat, NEW h, History(h, n)
    PROVE  /\ Appended(NoFile, Text(h)) = Whole(h)
           /\ \A g \in CutShort(NoFile, Text(h)) : FileOK(g, n)
  <1> DEFINE c == Line("header", Len(h), 0)
  <1>1. c \in Headers
    BY LenProperties DEF History, Headers, Line
  <1>2. /\ Text(h) \in Seq(WholeLines(n)) /\ Text(h) # <<>>
        /\ Len(Text(h)) \in Nat
    BY <1>1, HeaderAndHistory, LenProperties DEF Text
  <1>3. Appended(NoFile, Text(h)) = Whole(h)
    BY <1>2, ConcatEmptySeq DEF Appended, NoFile, Whole
  <1>4. FileOK(NoFile, n)
    BY EmptySeq DEF FileOK, NoFile
  <1> QED
    BY <1>2, <1>3, <1>4, AnyAppend

-----------------------------------------------------------------------------
(* The beginning                                                           *)

LEMMA EmptyHistory ==
    ASSUME NEW n \in Nat
    PROVE  History(<<>>, n) /\ <<>> \in Seq(Numbered(n)) /\ FileOK(NoFile, n)
  <1>1. <<>> \in Seq(Numbered(n)) /\ <<>> \in Seq(WholeLines(n))
    BY EmptySeq
  <1>2. Len(<<>>) = 0
    OBVIOUS
  <1> QED
    BY <1>1, <1>2 DEF History, ValidHistory, FileOK, NoFile

LEMMA InitIInv == Init => IInv
  <1> SUFFICES ASSUME Init PROVE IInv
    OBVIOUS
  <1> USE CodingSessionAssumption
  <1>1. /\ sessions = <<>> /\ Len(sessions) = 0 /\ current = 0
        /\ switch = NoSwitch /\ entries = 0
    BY DEF Init
  <1>2. ~Prepared /\ switch.phase = "none" /\ switch.hist = <<>> /\ Candidate = 0
    BY <1>1 DEF Prepared, NoSwitch, Candidate
  <1>3. TypeOK
    <2>1. sessions \in Seq(Sessions) /\ <<>> \in Seq(Entries)
      BY <1>1, EmptySeq
    <2>2. switch \in Switches
      BY <1>1, <2>1 DEF NoSwitch, Switches
    <2> QED
      BY <1>1, <2>1, <2>2 DEF TypeOK, Init
  <1>4. DiskInv
    <2>1. History(<<>>, entries) /\ FileOK(NoFile, entries)
            /\ <<>> \in Seq(Numbered(entries))
      BY <1>1, EmptyHistory
    <2>2. files = [p \in Paths |-> NoFile]
            /\ acknowledged = [p \in Paths |-> <<>>]
      BY DEF Init
    <2> QED
      BY <2>1, <2>2 DEF DiskInv, SavedSurvives
  <1>5. HistoryInv
    BY <1>1, <1>2, EmptyHistory DEF HistoryInv
  <1>6. SavedInv /\ LockInv
    BY <1>1 DEF SavedInv, LockInv, HoldsItsFile
  <1>7. CandidateInv /\ DeriveInv /\ SwitchInv /\ BorrowInv
    BY <1>2 DEF CandidateInv, DeriveInv, SwitchInv, BorrowInv, Borrowed
  <1> QED
    BY <1>3, <1>4, <1>5, <1>6, <1>7 DEF IInv

-----------------------------------------------------------------------------
(* Steps that leave the files alone                                        *)

LEMMA Basics ==
    ASSUME IInv
    PROVE  /\ sessions \in Seq(Sessions) /\ Len(sessions) \in Nat
           /\ \A i \in 1..Len(sessions) : sessions[i] \in Sessions
           /\ current \in 0..Len(sessions) /\ switch \in Switches
           /\ entries \in Nat /\ MaxEntries \in Nat /\ entries <= MaxEntries
           /\ NoPath \notin Paths
           /\ Prepared => Candidate = Len(sessions) /\ Candidate # 0
           /\ ~Prepared => Candidate = 0
           /\ Prepared <=> Candidate # 0
           /\ Candidate \in 0..Len(sessions)
           /\ switch.phase = "none" => ~Prepared
           /\ switch.phase = "retiring" => Prepared
  <1>1. /\ sessions \in Seq(Sessions) /\ switch \in Switches
        /\ current \in 0..Len(sessions) /\ entries \in 0..MaxEntries
    BY DEF IInv, TypeOK
  <1>2. Len(sessions) \in Nat /\ (sessions # <<>> => Len(sessions) # 0)
    BY <1>1, LenProperties, EmptySeq
  <1>3. \A i \in 1..Len(sessions) : sessions[i] \in Sessions
    BY <1>1, ElementOfSeq
  <1>4. MaxEntries \in Nat /\ NoPath \notin Paths
    BY CodingSessionAssumption
  <1>5. Prepared => sessions # <<>>
    BY DEF IInv, CandidateInv
  <1> QED
    BY <1>1, <1>2, <1>3, <1>4, <1>5 DEF Candidate, Prepared

(* The sessions keep what the files and the locks depend on.               *)
Alike(s, t) ==
    /\ s.hist = t.hist /\ s.path = t.path /\ s.writer = t.writer
    /\ s.closed = t.closed /\ s.save = t.save

Quiet ==
    /\ sessions' \in Seq(Sessions)
    /\ Len(sessions') = Len(sessions)
    /\ \A i \in 1..Len(sessions) : Alike(sessions[i], sessions'[i])
    /\ UNCHANGED <<current, files, acknowledged, entries, forsaken>>

LEMMA QuietFiles ==
    ASSUME IInv, Quiet
    PROVE  /\ DiskInv' /\ SavedInv'
           /\ \A i \in 1..Len(sessions') : History(sessions'[i].hist, entries')
  <1>1. DiskInv'
    BY DEF IInv, DiskInv, SavedSurvives, Quiet
  <1>2. SavedInv'
    BY DEF IInv, SavedInv, Quiet, Alike
  <1> QED
    BY <1>1, <1>2 DEF IInv, HistoryInv, Quiet, Alike

LEMMA QuietLocks ==
    ASSUME IInv, Quiet, Candidate' = Candidate
    PROVE  LockInv'
  BY Basics DEF IInv, LockInv, HoldsItsFile, Quiet, Alike

(* Nor is anything of the switch concerned but who asked for it.           *)
SameSwitch ==
    /\ switch' \in Switches
    /\ switch'.phase = switch.phase /\ switch'.kind = switch.kind
    /\ switch'.path = switch.path /\ switch'.hist = switch.hist
    /\ switch'.previous = switch.previous
    /\ Prepared => sessions'[Candidate] = sessions[Candidate]
    /\ switch.phase # "none" /\ current # 0 =>
        (sessions[current].agent = "closed" =>
            sessions'[current].agent = "closed")

LEMMA QuietStep ==
    ASSUME IInv, Quiet, SameSwitch,
           closing' \in {"no", "asked", "session"},
           saves' \in 0..MaxSaves, mishaps' \in 0..MaxMishaps
    PROVE  IInv'
  <1>1. Candidate' = Candidate /\ (Prepared' <=> Prepared)
    BY DEF Candidate, Prepared, SameSwitch, Quiet
  <1>2. DiskInv' /\ SavedInv'
    BY QuietFiles
  <1>3. HistoryInv'
    BY QuietFiles DEF IInv, HistoryInv, SameSwitch, Quiet
  <1>4. LockInv'
    BY <1>1, QuietLocks
  <1>5. TypeOK'
    BY DEF IInv, TypeOK, Quiet, SameSwitch
  <1>6. CandidateInv'
    <2>1. Prepared => sessions # <<>> /\ sessions' # <<>>
      <3>1. Prepared => Len(sessions) # 0
        BY Basics
      <3> QED
        BY <3>1, EmptySeq, Len(<<>>) = 0 DEF Quiet
    <2> QED
      BY <1>1, <2>1 DEF IInv, CandidateInv, SameSwitch, Quiet
  <1>7. DeriveInv' /\ SwitchInv'
    <2>1. current # 0 => Alike(sessions[current], sessions'[current])
      BY Basics DEF Quiet
    <2> QED
      BY <2>1 DEF IInv, DeriveInv, SwitchInv, SameSwitch, Quiet, Alike
  <1>8. BorrowInv'
    <2>1. current # 0 => Alike(sessions[current], sessions'[current])
      BY Basics DEF Quiet
    <2>2. switch.phase = "retiring" => Prepared
      BY Basics
    <2>3. switch.phase = "retiring" /\ switch.kind = "derive" => current # 0
      BY DEF IInv, DeriveInv
    <2>4. Borrowed' <=> Borrowed
      BY <1>1 DEF Borrowed, SameSwitch, Quiet
    <2> QED
      BY <1>1, <2>1, <2>2, <2>3, <2>4
      DEF IInv, BorrowInv, SameSwitch, Quiet, Alike, Borrowed
  <1> QED
    BY <1>2, <1>3, <1>4, <1>5, <1>6, <1>7, <1>8 DEF IInv

(* One session changes its Agent or is asked to close.                     *)
LEMMA AgentChanges ==
    ASSUME IInv, NEW i \in 1..Len(sessions), i # Candidate,
           NEW s \in Sessions, Alike(sessions[i], s),
           sessions' = [sessions EXCEPT ![i] = s],
           UNCHANGED <<current, files, acknowledged, entries, saves, mishaps,
                       forsaken>>,
           switch' = switch \/ \E b \in BOOLEAN : switch' = [switch EXCEPT !.inner = b],
           closing' \in {"no", "asked", "session"},
           sessions[i].agent = "closed" => s.agent = "closed"
    PROVE  IInv'
  <1>1. /\ sessions' \in Seq(Sessions) /\ Len(sessions') = Len(sessions)
        /\ \A j \in 1..Len(sessions) :
             sessions'[j] = IF j = i THEN s ELSE sessions[j]
    BY Basics, ExceptSeq
  <1>2. Quiet
    BY <1>1 DEF Quiet, Alike
  <1>3. SameSwitch
    <2>1. /\ Prepared => sessions'[Candidate] = sessions[Candidate]
          /\ current # 0 /\ current # i => sessions'[current] = sessions[current]
          /\ current = i => sessions'[current] = s
      BY <1>1, Basics
    <2>2. switch' \in Switches /\ switch \in Switches
      BY Basics DEF Switches
    <2>3. /\ switch'.phase = switch.phase /\ switch'.kind = switch.kind
          /\ switch'.path = switch.path /\ switch'.hist = switch.hist
          /\ switch'.previous = switch.previous
      BY <2>2 DEF Switches
    <2> QED
      BY <2>1, <2>2, <2>3 DEF SameSwitch
  <1>4. saves' \in 0..MaxSaves /\ mishaps' \in 0..MaxMishaps
    BY DEF IInv, TypeOK
  <1> QED
    BY <1>2, <1>3, <1>4, QuietStep

LEMMA PromptKeeps ==
    ASSUME IInv, NEW i \in 1..Len(sessions), Prompt(i)
    PROVE  IInv'
  <1> DEFINE s == [sessions[i] EXCEPT !.agent = "busy"]
  <1>1. /\ sessions[i] \in Sessions /\ sessions[i].agent = "idle"
        /\ sessions' = [sessions EXCEPT ![i] = s] /\ i = current
    BY Basics DEF Prompt
  <1>2. s \in Sessions /\ Alike(sessions[i], s) /\ s.shut = sessions[i].shut
    BY <1>1 DEF Sessions, Alike
  <1>3. i # Candidate
    BY <1>1, Basics DEF IInv, LockInv, CandidateInv
  <1>4. /\ UNCHANGED <<current, files, acknowledged, entries, saves, mishaps,
                       forsaken>>
        /\ switch' = switch /\ closing' = closing
    BY DEF Prompt, disk, counts
  <1>5. closing \in {"no", "asked", "session"}
    BY DEF IInv, TypeOK
  <1> HIDE DEF s
  <1> QED
    BY <1>1, <1>2, <1>3, <1>4, <1>5, AgentChanges

LEMMA FinishKeeps ==
    ASSUME IInv, NEW i \in 1..Len(sessions), FinishActivity(i)
    PROVE  IInv'
  <1> DEFINE s == [sessions[i] EXCEPT !.agent =
                      IF @ = "closing" THEN "closed" ELSE "idle"]
  <1>1. /\ sessions[i] \in Sessions /\ sessions[i].agent \in {"busy", "closing"}
        /\ sessions' = [sessions EXCEPT ![i] = s]
    BY Basics DEF FinishActivity, Busy
  <1>2. s \in Sessions /\ Alike(sessions[i], s) /\ s.shut = sessions[i].shut
    BY <1>1 DEF Sessions, Alike
  <1>3. i # Candidate
    <2>1. Candidate # 0 => sessions[Candidate].agent = "idle"
      BY Basics DEF IInv, CandidateInv, Session
    <2> QED
      BY <1>1, <2>1, Basics
  <1>4. /\ UNCHANGED <<current, files, acknowledged, entries, saves, mishaps,
                       forsaken>>
        /\ switch' = switch \/ \E b \in BOOLEAN :
                switch' = [switch EXCEPT !.inner = b]
        /\ closing' = closing
    BY DEF FinishActivity, disk, counts
  <1>5. closing \in {"no", "asked", "session"}
    BY DEF IInv, TypeOK
  <1> HIDE DEF s
  <1> QED
    BY <1>1, <1>2, <1>3, <1>4, <1>5, AgentChanges

LEMMA ShutSession ==
    ASSUME NEW s \in Sessions
    PROVE  /\ AgentClosing(s) \in Sessions /\ Alike(s, AgentClosing(s))
           /\ AgentClosing(s).shut = s.shut
           /\ Shut(s) \in Sessions /\ Alike(s, Shut(s))
           /\ s.agent = "closed" =>
                AgentClosing(s).agent = "closed" /\ Shut(s).agent = "closed"
           /\ s.agent \notin {"busy", "closing"} =>
                AgentClosing(s).agent = "closed"
  <1>1. AgentClosing(s) \in Sessions /\ Alike(s, AgentClosing(s))
          /\ AgentClosing(s).shut = s.shut
          /\ (s.agent = "closed" => AgentClosing(s).agent = "closed")
          /\ (s.agent \notin {"busy", "closing"} =>
                AgentClosing(s).agent = "closed")
    BY DEF AgentClosing, Sessions, Alike
  <1>2. PICK t : t = AgentClosing(s)
    OBVIOUS
  <1>3. Shut(s) = [t EXCEPT !.shut = TRUE] /\ t \in Sessions
    BY <1>1, <1>2 DEF Shut
  <1>4. Shut(s) \in Sessions /\ Alike(t, Shut(s)) /\ Shut(s).agent = t.agent
    BY <1>3 DEF Sessions, Alike
  <1> QED
    BY <1>1, <1>2, <1>4 DEF Alike

LEMMA CloseSessionKeeps ==
    ASSUME IInv, CloseSession
    PROVE  IInv'
  <1>1. /\ current \in 1..Len(sessions) /\ sessions[current] \in Sessions
        /\ sessions' = [sessions EXCEPT ![current] = Shut(sessions[current])]
    BY Basics DEF CloseSession
  <1>2. current # Candidate
    BY <1>1, Basics DEF IInv, CandidateInv
  <1>3. /\ UNCHANGED <<current, files, acknowledged, entries, saves, mishaps,
                       forsaken>>
        /\ switch' = switch /\ closing' \in {"no", "asked", "session"}
    BY DEF CloseSession, disk, counts, IInv, TypeOK
  <1> QED
    BY <1>1, <1>2, <1>3, ShutSession, AgentChanges

LEMMA NothingChanges ==
    ASSUME IInv,
           UNCHANGED <<sessions, current, switch, disk, entries, forsaken>>,
           closing' \in {"no", "asked", "session"},
           saves' \in 0..MaxSaves, mishaps' \in 0..MaxMishaps
    PROVE  IInv'
  <1>1. Quiet /\ SameSwitch
    BY Basics DEF Quiet, Alike, SameSwitch, disk
  <1> QED
    BY <1>1, QuietStep

LEMMA CloseKeeps ==
    ASSUME IInv, Close \/ CloseCurrent \/ Closed
    PROVE  IInv'
  <1>1. saves \in 0..MaxSaves /\ mishaps \in 0..MaxMishaps
    BY DEF IInv, TypeOK
  <1>2. CASE Close \/ Closed
    BY <1>1, <1>2, NothingChanges DEF Close, Closed, counts
  <1>3. CASE CloseCurrent
    <2>1. CASE current = 0
      BY <1>1, <1>3, <2>1, NothingChanges DEF CloseCurrent, counts
    <2>2. CASE current # 0
      <3>1. /\ current \in 1..Len(sessions) /\ sessions[current] \in Sessions
            /\ switch.phase = "none"
            /\ sessions' = [sessions EXCEPT ![current] = Shut(sessions[current])]
        BY <1>3, <2>2, Basics DEF CloseCurrent
      <3>2. current # Candidate
        BY <3>1, Basics
      <3>3. /\ UNCHANGED <<current, files, acknowledged, entries, saves, mishaps,
                       forsaken>>
            /\ switch' = switch /\ closing' \in {"no", "asked", "session"}
        BY <1>3, <2>2 DEF CloseCurrent, disk, counts
      <3> QED
        BY <3>1, <3>2, <3>3, ShutSession, AgentChanges
    <2> QED
      BY <2>1, <2>2
  <1> QED
    BY <1>2, <1>3

-----------------------------------------------------------------------------
(* The course of a switch                                                  *)

(* What is derived is a history, and an ancestor of the current one.       *)
LEMMA AncestorsAreHistories ==
    ASSUME NEW n \in Nat, NEW h, History(h, n), NEW a \in Ancestors(h)
    PROVE  History(a, n)
  <1>1. CASE a = h
    BY <1>1
  <1>2. CASE a # h
    <2>1. PICK m \in 1..Len(h) : a = SubSeq(h, 1, m - 1)
      BY <1>2 DEF Ancestors
    <2>2. m - 1 \in 0..Len(h)
      BY LenProperties DEF History
    <2> QED
      BY <2>1, <2>2, HistoryCut
  <1> QED
    BY <1>1, <1>2

LEMMA HistoriesAreTyped ==
    ASSUME NEW n \in Nat, n <= MaxEntries, NEW h, History(h, n)
    PROVE  h \in Seq(Entries)
  <1>1. MaxEntries \in Nat
    BY CodingSessionAssumption
  <1>2. Numbered(n) \subseteq Entries
    BY <1>1 DEF Numbered, Entries
  <1> QED
    BY <1>2, SeqMonotonic DEF History

LEMMA AdmittedKeeps ==
    ASSUME IInv, Admissible,
           NEW kind \in {"new", "open", "derive"},
           NEW path \in Paths \union {NoPath}, NEW h, History(h, entries),
           Admitted(kind, path, h),
           kind = "open" => path # NoPath,
           kind = "derive" =>
                /\ current # 0 /\ h \in Ancestors(sessions[current].hist)
                /\ Fresh(path)
    PROVE  IInv'
  <1>1. PICK inner \in BOOLEAN :
            switch' = [phase |-> "admitted", kind |-> kind, path |-> path,
                hist |-> h, inner |-> inner,
                previous |-> IF current = 0 \/ kind = "new" THEN <<>>
                             ELSE sessions[current].hist]
    BY DEF Admitted
  <1>2. /\ UNCHANGED <<sessions, current, closing, files, acknowledged,
                       entries, saves, mishaps, forsaken>>
        /\ switch.phase = "none"
    BY DEF Admitted, Admissible, disk, counts
  <1>3. ~Prepared /\ ~Prepared' /\ Candidate = 0 /\ Candidate' = 0
    BY <1>1, <1>2 DEF Prepared, Candidate
  <1>4. current # 0 => current \in 1..Len(sessions)
                         /\ sessions[current] \in Sessions
    BY Basics
  <1>5. switch' \in Switches
    <2>1. h \in Seq(Entries) /\ <<>> \in Seq(Entries)
      BY Basics, HistoriesAreTyped, EmptySeq
    <2>2. current # 0 => sessions[current].hist \in Seq(Entries)
      BY <1>4 DEF Sessions
    <2> QED
      BY <1>1, <2>1, <2>2 DEF Switches
  <1>6. Quiet
    BY <1>2, Basics DEF Quiet, Alike
  <1>7. DiskInv' /\ SavedInv' /\ LockInv'
    BY <1>3, <1>6, QuietFiles, QuietLocks
  <1>8. HistoryInv'
    BY <1>1, <1>2 DEF IInv, HistoryInv
  <1>9. TypeOK'
    BY <1>2, <1>5 DEF IInv, TypeOK
  <1>10. CandidateInv' /\ BorrowInv'
    BY <1>1, <1>3 DEF CandidateInv, BorrowInv, Borrowed
  <1>11. DeriveInv'
    <2>1. kind = "derive" /\ path # NoPath => path # sessions[current].path
      BY <1>4 DEF Fresh
    <2> QED
      BY <1>1, <1>2, <2>1 DEF DeriveInv
  <1>12. SwitchInv'
    <2>1. current # 0 =>
            Len(sessions[current].hist) <= Len(sessions[current].hist)
      BY <1>4, LenProperties DEF Sessions
    <2> QED
      BY <1>1, <1>2, <2>1 DEF SwitchInv
  <1> QED
    BY <1>7, <1>8, <1>9, <1>10, <1>11, <1>12 DEF IInv

LEMMA AskedKeeps ==
    ASSUME IInv, NEW path \in Paths \union {NoPath},
           NewSession(path) \/ OpenSession(path) \/ DeriveSession(path)
    PROVE  IInv'
  <1>1. entries \in Nat /\ History(<<>>, entries)
    BY Basics, EmptyHistory
  <1>2. CASE NewSession(path)
    BY <1>1, <1>2, AdmittedKeeps DEF NewSession
  <1>3. CASE OpenSession(path)
    BY <1>1, <1>3, AdmittedKeeps DEF OpenSession
  <1>4. CASE DeriveSession(path)
    <2>1. PICK h \in Ancestors(sessions[current].hist) :
              Admitted("derive", path, h)
      BY <1>4 DEF DeriveSession
    <2>2. current # 0 /\ Admissible /\ Fresh(path)
      BY <1>4 DEF DeriveSession
    <2>3. History(sessions[current].hist, entries)
      BY <2>2, Basics DEF IInv, HistoryInv
    <2>4. History(h, entries)
      BY <1>1, <2>3, AncestorsAreHistories
    <2> QED
      BY <2>1, <2>2, <2>4, AdmittedKeeps
  <1> QED
    BY <1>2, <1>3, <1>4

(* The candidate, if there is one, is given up.                            *)
LEMMA FailureKeeps ==
    ASSUME IInv, SwitchFails,
           UNCHANGED <<current, closing, disk, counts, forsaken>>
    PROVE  IInv'
  <1>1. UNCHANGED <<current, closing, files, acknowledged, entries, saves,
                    mishaps, forsaken>>
    BY DEF disk, counts
  <1>2. /\ switch' = NoSwitch /\ switch'.phase = "none" /\ switch'.hist = <<>>
        /\ ~Prepared' /\ Candidate' = 0 /\ switch' \in Switches
    <2>1. <<>> \in Seq(Entries)
      BY EmptySeq
    <2> QED
      BY <2>1 DEF SwitchFails, NoSwitch, Prepared, Candidate, Switches
  <1>3. /\ sessions' \in Seq(Sessions)
        /\ Len(sessions') = IF Candidate = 0 THEN Len(sessions)
                            ELSE Len(sessions) - 1
        /\ \A i \in 1..Len(sessions') : sessions'[i] = sessions[i]
    <2>1. CASE Candidate = 0
      BY <2>1, Basics DEF SwitchFails
    <2>2. CASE Candidate # 0
      <3>1. sessions' = SubSeq(sessions, 1, Len(sessions) - 1)
        BY <2>2 DEF SwitchFails, Front
      <3>2. /\ Len(sessions) - 1 \in Nat
            /\ \A i \in 1..Len(sessions) - 1 : sessions[i] \in Sessions
        BY <2>2, Basics
      <3>3. PICK n \in Nat : n = Len(sessions) - 1
        BY <3>2
      <3>4. \A i \in 1..n : sessions[i] \in Sessions
        BY <3>2, <3>3
      <3>5. /\ SubSeq(sessions, 1, n) \in Seq(Sessions)
            /\ Len(SubSeq(sessions, 1, n)) = n
            /\ \A i \in 1..n : SubSeq(sessions, 1, n)[i] = sessions[i]
        BY <3>4, SubSeqProperties
      <3> QED
        BY <2>2, <3>1, <3>3, <3>5
    <2> QED
      BY <2>1, <2>2
  <1>4. /\ current \in 0..Len(sessions')
        /\ \A i \in 1..Len(sessions') : i \in 1..Len(sessions) /\ i # Candidate
        /\ Len(sessions') \in Nat
    BY <1>3, Basics DEF IInv, CandidateInv
  <1>5. TypeOK'
    BY <1>1, <1>2, <1>3, <1>4 DEF IInv, TypeOK
  <1>6. DiskInv'
    BY <1>1 DEF IInv, DiskInv, SavedSurvives
  <1>7. HistoryInv'
    <2>1. History(<<>>, entries)
      BY Basics, EmptyHistory
    <2> QED
      BY <1>1, <1>2, <1>3, <1>4, <2>1 DEF IInv, HistoryInv
  <1>8. SavedInv'
    BY <1>1, <1>3, <1>4 DEF IInv, SavedInv
  <1>9. LockInv'
    <2>1. current # 0 => current \in 1..Len(sessions')
      BY <1>4
    <2> QED
      BY <1>1, <1>2, <1>3, <1>4, <2>1 DEF IInv, LockInv, HoldsItsFile
  <1>10. CandidateInv' /\ DeriveInv' /\ SwitchInv' /\ BorrowInv'
    BY <1>2 DEF CandidateInv, DeriveInv, SwitchInv, BorrowInv, Borrowed
  <1> QED
    BY <1>5, <1>6, <1>7, <1>8, <1>9, <1>10 DEF IInv

(* The next phase of a switch, which closes the Agent of the current       *)
(* session in the end                                                      *)
LEMMA PhaseKeeps ==
    ASSUME IInv, Prepared,
           NEW phase \in {"owned", "retiring"},
           switch' = [switch EXCEPT !.phase = phase],
           Quiet, sessions'[Candidate] = sessions[Candidate],
           phase = "retiring" /\ (Borrowed \/ switch.kind = "derive") =>
                /\ sessions[current].hist = switch.previous
                /\ sessions'[current].agent = "closed",
           UNCHANGED <<closing, saves, mishaps, forsaken>>
    PROVE  IInv'
  <1>1. /\ switch'.phase = phase /\ switch'.kind = switch.kind
        /\ switch'.path = switch.path /\ switch'.hist = switch.hist
        /\ switch'.previous = switch.previous /\ switch' \in Switches
    BY Basics DEF Switches
  <1>2. Prepared' /\ Candidate' = Candidate /\ Candidate # 0
    BY <1>1, Basics DEF Prepared, Candidate, Quiet
  <1>3. switch.phase # "none"
    BY DEF Prepared
  <1>4. current # 0 => Alike(sessions[current], sessions'[current])
    BY Basics DEF Quiet
  <1>5. DiskInv' /\ SavedInv' /\ LockInv'
    BY <1>2, QuietFiles, QuietLocks
  <1>6. HistoryInv'
    BY <1>1, QuietFiles DEF IInv, HistoryInv, Quiet
  <1>7. TypeOK'
    BY <1>1 DEF IInv, TypeOK, Quiet
  <1>8. CandidateInv'
    <2>1. Len(sessions') # 0
      BY <1>2, Basics DEF Quiet
    <2>2. sessions' # <<>>
      BY <2>1
    <2> QED
      BY <1>1, <1>2, <2>2 DEF IInv, CandidateInv, Quiet
  <1>9. DeriveInv' /\ SwitchInv'
    BY <1>1, <1>3, <1>4 DEF IInv, DeriveInv, SwitchInv, Alike, Quiet
  <1>10. Borrowed' <=> Borrowed
    BY <1>1, <1>2 DEF Borrowed
  <1>11. BorrowInv'
    <2>1. phase = "retiring" /\ switch.kind = "derive" => current # 0
      BY <1>3 DEF IInv, DeriveInv
    <2> QED
      BY <1>1, <1>2, <1>4, <1>10, <2>1
      DEF IInv, BorrowInv, Alike, Quiet
  <1> QED
    BY <1>5, <1>6, <1>7, <1>8, <1>9, <1>11 DEF IInv

LEMMA HandOverKeeps ==
    ASSUME IInv, HandOver
    PROVE  IInv'
  <1>1. Prepared /\ switch' = [switch EXCEPT !.phase = "owned"]
          /\ UNCHANGED <<sessions, current, closing, disk, counts, forsaken>>
    BY DEF HandOver, Prepared
  <1>2. Quiet
    BY <1>1, Basics DEF Quiet, Alike, disk, counts
  <1> QED
    BY <1>1, <1>2, PhaseKeeps DEF counts

(* Publication goes on only if what the candidate counts on still holds.   *)
LEMMA PublishOnlyStable ==
    ASSUME IInv, switch.phase = "owned", ~Rejected,
           Borrowed \/ switch.kind = "derive"
    PROVE  /\ current # 0 /\ sessions[current].hist = switch.previous
           /\ sessions[current].agent \notin {"busy", "closing"}
  <1>1. Prepared /\ current # 0
    BY DEF Prepared, IInv, BorrowInv, DeriveInv
  <1>2. Borrowed => switch.kind = "open" /\ SamePath(sessions[Candidate])
    <2>1. ASSUME Borrowed PROVE switch.kind = "open" /\ switch.path # NoPath
      BY <1>1, <2>1 DEF IInv, CandidateInv, SwitchInv, Borrowed
    <2>2. ASSUME Borrowed PROVE sessions[current].path = switch.path
      <3>1. sessions[current].writer = switch.path
        BY <2>2 DEF IInv, BorrowInv
      <3>2. current \in 1..Len(sessions)
        BY <1>1, Basics
      <3> QED
        BY <2>1, <2>2, <3>1, <3>2 DEF IInv, LockInv
    <2>3. sessions[Candidate].path = switch.path
      BY <1>1 DEF IInv, CandidateInv, Session
    <2> QED
      BY <1>1, <2>1, <2>2, <2>3 DEF SamePath
  <1>3. ~Unstable
    BY <1>1, <1>2 DEF Rejected
  <1> QED
    BY <1>1, <1>3 DEF Unstable, Busy

LEMMA BeginPublishKeeps ==
    ASSUME IInv, BeginPublish
    PROVE  IInv'
  <1>1. switch.phase = "owned" /\ Prepared
          /\ UNCHANGED <<current, closing, disk, counts, forsaken>>
    BY DEF BeginPublish, Prepared
  <1>2. CASE SwitchFails
    BY <1>1, <1>2, FailureKeeps
  <1>3. CASE /\ ~Rejected
             /\ switch' = [switch EXCEPT !.phase = "retiring"]
             /\ sessions' = IF current = 0 THEN sessions
                            ELSE [sessions EXCEPT ![current] =
                                    AgentClosing(sessions[current])]
    <2>1. CASE current = 0
      <3>1. Quiet
        BY <1>1, <1>3, <2>1, Basics DEF Quiet, Alike, disk, counts
      <3>2. ~(Borrowed \/ switch.kind = "derive")
        BY <1>1, <1>3, <2>1, PublishOnlyStable
      <3> QED
        BY <1>1, <1>3, <2>1, <3>1, <3>2, PhaseKeeps DEF counts
    <2>2. CASE current # 0
      <3>1. PICK s : s = AgentClosing(sessions[current])
        OBVIOUS
      <3>2. current \in 1..Len(sessions) /\ sessions[current] \in Sessions
        BY <2>2, Basics
      <3>3. /\ s \in Sessions /\ Alike(sessions[current], s)
            /\ s.shut = sessions[current].shut
            /\ sessions[current].agent \notin {"busy", "closing"} =>
                s.agent = "closed"
        BY <3>1, <3>2, ShutSession
      <3>4. sessions' = [sessions EXCEPT ![current] = s]
        BY <1>3, <2>2, <3>1
      <3>5. /\ sessions' \in Seq(Sessions) /\ Len(sessions') = Len(sessions)
            /\ \A j \in 1..Len(sessions) :
                 sessions'[j] = IF j = current THEN s ELSE sessions[j]
        BY <3>2, <3>3, <3>4, Basics, ExceptSeq
      <3>6. Quiet
        BY <1>1, <3>3, <3>5 DEF Quiet, Alike, disk, counts
      <3>7. sessions'[Candidate] = sessions[Candidate]
        <4>1. Candidate \in 1..Len(sessions)
          BY <1>1, Basics
        <4>2. current # Candidate
          BY <1>1 DEF IInv, CandidateInv
        <4> QED
          BY <3>5, <4>1, <4>2
      <3>8. Borrowed \/ switch.kind = "derive" =>
                /\ sessions[current].hist = switch.previous
                /\ sessions'[current].agent = "closed"
        BY <1>1, <1>3, <3>2, <3>3, <3>5, PublishOnlyStable
      <3> QED
        BY <1>1, <1>3, <3>2, <3>3, <3>5, <3>6, <3>7, <3>8, PhaseKeeps DEF counts
    <2> QED
      BY <2>1, <2>2
  <1> QED
    BY <1>2, <1>3 DEF BeginPublish

(* A candidate joins the sessions.                                         *)
LEMMA CandidateAdded ==
    ASSUME IInv, switch.phase = "admitted",
           NEW s \in Sessions, Add(s), UNCHANGED <<current, entries, forsaken>>,
           s = Session(s.hist, switch.path, s.writer,
                       IF switch.kind = "open" THEN "saved" ELSE "pending"),
           History(s.hist, entries), s.writer \notin Held,
           switch.kind # "open" => s.hist = switch.hist,
           s.writer # switch.path => switch.kind = "open" /\ s.writer = NoPath
    PROVE  /\ Len(sessions') = Len(sessions) + 1
           /\ sessions' \in Seq(Sessions) /\ switch' \in Switches
           /\ \A i \in 1..Len(sessions) : sessions'[i] = sessions[i]
           /\ sessions'[Candidate'] = s
           /\ Candidate' = Len(sessions) + 1 /\ Prepared'
           /\ HistoryInv' /\ LockInv' /\ CandidateInv' /\ DeriveInv'
           /\ SwitchInv'
           /\ switch' = [switch EXCEPT !.phase = "prepared"]
           /\ switch'.phase = "prepared" /\ switch'.path = switch.path
           /\ switch'.previous = switch.previous
  <1>1. /\ Len(sessions') = Len(sessions) + 1 /\ sessions' \in Seq(Sessions)
        /\ \A i \in 1..Len(sessions) : sessions'[i] = sessions[i]
        /\ sessions'[Len(sessions) + 1] = s
    BY Basics, AppendProperties DEF Add
  <1>2. /\ switch'.phase = "prepared" /\ switch'.kind = switch.kind
        /\ switch'.path = switch.path /\ switch'.hist = switch.hist
        /\ switch'.previous = switch.previous /\ switch' \in Switches
    BY Basics DEF Add, Switches
  <1>3. /\ Prepared' /\ Candidate' = Len(sessions) + 1
        /\ ~Prepared /\ Candidate = 0
    BY <1>1, <1>2 DEF Prepared, Candidate
  <1>4. \A i \in 1..Len(sessions') :
            i \in 1..Len(sessions) \/ i = Len(sessions) + 1
    BY <1>1, Basics
  <1>5. HistoryInv'
    BY <1>1, <1>2, <1>4 DEF IInv, HistoryInv
  <1>6. /\ s.path = switch.path /\ ~s.closed /\ ~s.shut
    BY DEF Session
  <1>7. LockInv'
    <2>1. \A i \in 1..Len(sessions) :
              s.writer # NoPath => sessions[i].writer # s.writer
      BY DEF Held
    <2>2. current # Len(sessions) + 1 /\ Len(sessions) + 1 \notin 1..Len(sessions)
      BY Basics
    <2>3. HoldsItsFile(forsaken)'
      <3>1. current # 0 => current \in 1..Len(sessions)
        BY Basics
      <3> QED
        BY <1>1, <3>1 DEF IInv, LockInv, HoldsItsFile
    <2>4. \A i \in 1..Len(sessions') :
            /\ sessions'[i].writer # NoPath =>
                ~sessions'[i].closed /\ sessions'[i].writer = sessions'[i].path
            /\ i \notin {current', Candidate'} => sessions'[i].closed
      BY <1>1, <1>3, <1>4, <1>6 DEF IInv, LockInv
    <2>5. \A i, j \in 1..Len(sessions') :
            sessions'[i].writer # NoPath
                /\ sessions'[j].writer = sessions'[i].writer => i = j
      BY <1>1, <1>4, <2>1 DEF IInv, LockInv
    <2> QED
      BY <2>3, <2>4, <2>5 DEF LockInv
  <1>8. CandidateInv'
    <2>1. sessions' # <<>>
      BY <1>1, Basics
    <2>2. current' # Candidate'
      BY <1>3, Basics
    <2> QED
      BY <1>1, <1>2, <1>3, <2>1, <2>2 DEF CandidateInv
  <1>9. DeriveInv' /\ SwitchInv'
    <2>1. current # 0 => sessions'[current] = sessions[current]
      BY <1>1, Basics
    <2> QED
      BY <1>2, <2>1 DEF IInv, DeriveInv, SwitchInv
  <1>10. switch' = [switch EXCEPT !.phase = "prepared"]
    BY DEF Add
  <1> QED
    BY <1>1, <1>2, <1>3, <1>5, <1>7, <1>8, <1>9, <1>10

LEMMA PrepareFileKeeps ==
    ASSUME IInv, PrepareNew \/ PrepareDerived
    PROVE  IInv'
  <1> DEFINE s == Session(switch.hist, switch.path, switch.path, "pending")
  <1>1. /\ switch.phase = "admitted" /\ switch.kind \in {"new", "derive"}
        /\ switch.path \notin Held /\ Add(s)
        /\ UNCHANGED <<current, closing, files, acknowledged, entries, saves,
                       mishaps, forsaken>>
    BY DEF PrepareNew, PrepareDerived, PrepareFile, disk, counts
  <1>2. /\ s \in Sessions /\ s.hist = switch.hist /\ s.writer = switch.path
        /\ s.save = "pending"
    BY Basics DEF Session, Sessions, Switches
  <1>3. s = Session(s.hist, switch.path, s.writer,
                    IF switch.kind = "open" THEN "saved" ELSE "pending")
    BY <1>1, <1>2
  <1>4. History(s.hist, entries)
    BY <1>2 DEF IInv, HistoryInv
  <1> HIDE DEF s
  <1>5. /\ Len(sessions') = Len(sessions) + 1
        /\ sessions' \in Seq(Sessions) /\ switch' \in Switches
        /\ \A i \in 1..Len(sessions) : sessions'[i] = sessions[i]
        /\ sessions'[Candidate'] = s
        /\ Candidate' = Len(sessions) + 1 /\ Prepared'
        /\ HistoryInv' /\ LockInv' /\ CandidateInv' /\ DeriveInv'
        /\ SwitchInv'
        /\ switch'.phase = "prepared" /\ switch'.path = switch.path
    BY <1>1, <1>2, <1>3, <1>4, CandidateAdded
  <1>6. TypeOK'
    BY <1>1, <1>5, Basics DEF IInv, TypeOK
  <1>7. DiskInv'
    BY <1>1 DEF IInv, DiskInv, SavedSurvives
  <1>8. SavedInv'
    <2>1. \A i \in 1..Len(sessions') :
            i \in 1..Len(sessions) \/ i = Len(sessions) + 1
      BY <1>5, Basics
    <2> QED
      BY <1>1, <1>2, <1>5, <2>1 DEF IInv, SavedInv
  <1>9. BorrowInv'
    BY <1>2, <1>5 DEF BorrowInv, Borrowed
  <1> QED
    BY <1>5, <1>6, <1>7, <1>8, <1>9 DEF IInv

(* Opening a file gives its history to the candidate.  With the lock of    *)
(* the current session, that is what the current session has saved.        *)
LEMMA PrepareOpenKeeps ==
    ASSUME IInv, PrepareOpen
    PROVE  IInv'
  <1> DEFINE file == files[switch.path]
             h == Decoded(file)
             s == Session(h, switch.path, IF Borrows THEN NoPath ELSE switch.path,
                          "saved")
  <1>1. /\ switch.phase = "admitted" /\ switch.kind = "open"
        /\ Borrows \/ switch.path \notin Held
        /\ Readable(file) /\ Add(s)
        /\ files' = [files EXCEPT ![switch.path] = Separated(file)]
        /\ UNCHANGED <<current, closing, acknowledged, entries, saves, mishaps,
                       forsaken>>
    BY DEF PrepareOpen, counts
  <1>2. switch.path \in Paths
    BY <1>1, Basics DEF IInv, SwitchInv, Switches
  <1>3. FileOK(file, entries) /\ History(h, entries)
          /\ FileOK(Separated(file), entries) /\ FileIs(Separated(file), h)
    <2>1. FileOK(file, entries)
      BY <1>2 DEF IInv, DiskInv
    <2> QED
      BY <1>1, <2>1, Basics, ReadableParts, SeparatedReads
  <1>4. /\ s \in Sessions /\ s.hist = h
        /\ s.writer = IF Borrows THEN NoPath ELSE switch.path
    <2>1. h \in Seq(Entries)
      BY <1>3, Basics, HistoriesAreTyped
    <2>2. PICK w \in Paths \union {NoPath} :
              w = IF Borrows THEN NoPath ELSE switch.path
      BY <1>2
    <2>3. s = Session(h, switch.path, w, "saved")
      BY <2>2
    <2> HIDE DEF h, s
    <2> QED
      BY <1>2, <2>1, <2>2, <2>3 DEF Session, Sessions
  <1>5. s = Session(s.hist, switch.path, s.writer,
                    IF switch.kind = "open" THEN "saved" ELSE "pending")
    BY <1>1, <1>4
  <1>6. s.writer \notin Held
    BY <1>1, <1>4 DEF Held
  <1>7. s.writer # switch.path => switch.kind = "open" /\ s.writer = NoPath
    BY <1>1, <1>4
  <1>8. History(s.hist, entries)
    BY <1>3, <1>4
  <1>9. \A p \in Paths :
            files'[p] = IF p = switch.path THEN Separated(file) ELSE files[p]
    BY <1>1 DEF IInv, DiskInv
  <1>10. files' = [p \in Paths |-> files'[p]]
    BY <1>1 DEF IInv, DiskInv
  <1> HIDE DEF h, s, file
  <1>11. /\ Len(sessions') = Len(sessions) + 1
         /\ sessions' \in Seq(Sessions) /\ switch' \in Switches
         /\ \A i \in 1..Len(sessions) : sessions'[i] = sessions[i]
         /\ sessions'[Candidate'] = s
         /\ Candidate' = Len(sessions) + 1 /\ Prepared'
         /\ HistoryInv' /\ LockInv' /\ CandidateInv' /\ DeriveInv'
         /\ SwitchInv'
         /\ switch'.phase = "prepared" /\ switch'.path = switch.path
    BY <1>1, <1>4, <1>5, <1>6, <1>7, <1>8, CandidateAdded
  <1>12. TypeOK'
    BY <1>1, <1>11, Basics DEF IInv, TypeOK
  <1>13. DiskInv'
    <2>1. \A p \in Paths : FileOK(files'[p], entries)
      BY <1>3, <1>9 DEF IInv, DiskInv
    <2>2. SavedSurvives'
      <3>1. Readable(Separated(file)) /\ Decoded(Separated(file)) = Decoded(file)
        BY <1>3 DEF FileIs, h
      <3> QED
        BY <1>1, <1>9, <3>1 DEF IInv, DiskInv, SavedSurvives, file
    <2> QED
      BY <1>1, <1>10, <2>1, <2>2 DEF IInv, DiskInv
  <1>14. SavedInv'
    <2>1. \A i \in 1..Len(sessions') :
            i \in 1..Len(sessions) \/ i = Len(sessions) + 1
      BY <1>11, Basics
    <2>2. ASSUME NEW i \in 1..Len(sessions), sessions[i].save = "saved",
                 sessions[i].writer \notin {NoPath} \union forsaken
          PROVE  FileIs(files'[sessions[i].writer], sessions[i].hist)
      <3>1. FileIs(files[sessions[i].writer], sessions[i].hist)
        BY <2>2 DEF IInv, SavedInv
      <3>2. sessions[i].writer \in Paths
        BY <2>2, Basics DEF Sessions
      <3>3. CASE sessions[i].writer = switch.path
        BY <1>3, <1>9, <3>1, <3>2, <3>3 DEF FileIs, h, file
      <3>4. CASE sessions[i].writer # switch.path
        BY <1>9, <3>1, <3>2, <3>4
      <3> QED
        BY <3>3, <3>4
    <2>3. s.writer # NoPath => FileIs(files'[s.writer], s.hist)
      BY <1>2, <1>3, <1>4, <1>9
    <2> QED
      BY <1>1, <1>11, <2>1, <2>2, <2>3 DEF SavedInv
  <1>15. BorrowInv'
    <2>1. ASSUME Borrowed'
          PROVE  /\ current # 0 /\ sessions'[current].writer = switch.path
                 /\ FileIs(files'[switch.path], s.hist)
      <3>1. Borrows
        BY <1>4, <1>11, <2>1 DEF Borrowed
      <3>2. /\ current # 0 /\ sessions[current].path = switch.path
            /\ sessions[current].writer # NoPath
        BY <3>1 DEF Borrows, SamePath
      <3>3. current \in 1..Len(sessions)
        BY <3>2, Basics
      <3>4. sessions[current].writer = switch.path
        BY <3>2, <3>3 DEF IInv, LockInv
      <3> QED
        BY <1>2, <1>3, <1>4, <1>9, <1>11, <3>2, <3>3, <3>4
    <2> QED
      BY <1>1, <1>11, <2>1 DEF BorrowInv
  <1> QED
    BY <1>11, <1>12, <1>13, <1>14, <1>15 DEF IInv

-----------------------------------------------------------------------------
(* What is written                                                         *)

(* One file is written, or none, and what was acknowledged there is read.  *)
LEMMA DiskWritten ==
    ASSUME IInv, NEW p \in Paths, NEW g, NEW a,
           NEW n \in {entries, entries + 1}, entries' = n,
           files' = [files EXCEPT ![p] = g], FileOK(g, n),
           acknowledged' = [acknowledged EXCEPT ![p] = a],
           a \in Seq(Numbered(n)), forsaken \subseteq forsaken',
           p \notin forsaken /\ a # <<>> =>
                Readable(g) /\ IsPrefix(a, Decoded(g))
    PROVE  DiskInv'
  <1>1. entries \in Nat /\ entries' \in Nat /\ entries <= entries'
    BY Basics
  <1>2. /\ files' = [q \in Paths |-> files'[q]]
        /\ \A q \in Paths : files'[q] = IF q = p THEN g ELSE files[q]
        /\ \A q \in Paths :
             acknowledged'[q] = IF q = p THEN a ELSE acknowledged[q]
    BY DEF IInv, DiskInv
  <1>3. acknowledged' \in [Paths -> Seq(Numbered(entries'))]
    BY <1>1, NumberedGrows DEF IInv, DiskInv
  <1>4. \A q \in Paths : FileOK(files'[q], entries')
    BY <1>1, <1>2, NumberedGrows DEF IInv, DiskInv
  <1>5. SavedSurvives'
    BY <1>2 DEF IInv, DiskInv, SavedSurvives
  <1> QED
    BY <1>2, <1>3, <1>4, <1>5 DEF DiskInv

LEMMA DiskLeft ==
    ASSUME IInv, entries' \in {entries, entries + 1}, UNCHANGED disk,
           forsaken \subseteq forsaken'
    PROVE  DiskInv'
  <1>1. entries \in Nat /\ entries' \in Nat /\ entries <= entries'
    BY Basics
  <1> QED
    BY <1>1, NumberedGrows DEF IInv, DiskInv, SavedSurvives, disk

(* One session is replaced, one file is written, and no other session has  *)
(* the lock of that file.                                                  *)
LEMMA SavedWritten ==
    ASSUME IInv, NEW i \in 1..Len(sessions), NEW t \in Sessions,
           sessions' = [sessions EXCEPT ![i] = t],
           forsaken \subseteq forsaken',
           \A q \in Paths \ forsaken : (\E j \in 1..Len(sessions) :
                                j # i /\ sessions[j].writer = q) =>
                                    files'[q] = files[q],
           t.save = "saved" /\ t.writer \notin {NoPath} \union forsaken' =>
                FileIs(files'[t.writer], t.hist)
    PROVE  SavedInv'
  <1>1. /\ Len(sessions') = Len(sessions)
        /\ \A j \in 1..Len(sessions) :
             sessions'[j] = IF j = i THEN t ELSE sessions[j]
    BY Basics, ExceptSeq
  <1>2. ASSUME NEW j \in 1..Len(sessions), j # i, sessions[j].save = "saved",
               sessions[j].writer \notin {NoPath} \union forsaken
        PROVE  FileIs(files'[sessions[j].writer], sessions[j].hist)
    <2>1. sessions[j].writer \in Paths \ forsaken
      BY <1>2, Basics DEF Sessions
    <2>2. files'[sessions[j].writer] = files[sessions[j].writer]
      BY <1>2, <2>1
    <2> QED
      BY <1>2, <2>2 DEF IInv, SavedInv
  <1> QED
    BY <1>1, <1>2 DEF SavedInv

(* The rest of the invariant, when a session records an entry              *)
LEMMA RecordedKeeps ==
    ASSUME IInv, NEW i \in 1..Len(sessions), i # Candidate,
           sessions[i].agent # "closed",
           NEW kind \in {"setup", "message"},
           entries < MaxEntries, entries' = entries + 1,
           NEW save \in {"pending", "saved", "unsaved"},
           sessions' = [sessions EXCEPT ![i] =
                [sessions[i] EXCEPT
                    !.hist = Append(@, NewEntry(sessions[i].hist, kind)),
                    !.save = save]],
           UNCHANGED <<current, switch, closing, saves, forsaken>>,
           mishaps' \in 0..MaxMishaps,
           i # current => files' = files,
           DiskInv', SavedInv'
    PROVE  IInv'
  <1> DEFINE e == NewEntry(sessions[i].hist, kind)
             t == [sessions[i] EXCEPT !.hist = Append(@, e), !.save = save]
  <1>1. /\ entries \in Nat /\ entries' \in Nat /\ entries <= entries'
        /\ entries' <= MaxEntries /\ entries' \in 0..MaxEntries
    BY Basics
  <1>2. sessions[i] \in Sessions /\ History(sessions[i].hist, entries)
    BY Basics DEF IInv, HistoryInv
  <1>3. /\ History(Append(sessions[i].hist, e), entries')
        /\ Len(Append(sessions[i].hist, e)) = Len(sessions[i].hist) + 1
    BY <1>1, <1>2, EntryAppended DEF NewEntry
  <1>4. Append(sessions[i].hist, e) \in Seq(Entries)
    BY <1>1, <1>3, HistoriesAreTyped
  <1> HIDE DEF e
  <1>5. /\ t \in Sessions /\ t.hist = Append(sessions[i].hist, e)
        /\ t.agent = sessions[i].agent /\ t.shut = sessions[i].shut
        /\ t.path = sessions[i].path /\ t.writer = sessions[i].writer
        /\ t.closed = sessions[i].closed
    BY <1>2, <1>4 DEF Sessions
  <1>6. sessions' = [sessions EXCEPT ![i] = t]
    BY DEF e
  <1> HIDE DEF t
  <1>7. /\ sessions' \in Seq(Sessions) /\ Len(sessions') = Len(sessions)
        /\ \A j \in 1..Len(sessions) :
             sessions'[j] = IF j = i THEN t ELSE sessions[j]
    BY <1>5, <1>6, Basics, ExceptSeq
  <1>8. Candidate' = Candidate /\ (Prepared' <=> Prepared)
    BY <1>7 DEF Candidate, Prepared
  <1>9. Prepared => sessions'[Candidate] = sessions[Candidate]
    BY <1>7, Basics
  <1>10. TypeOK'
    BY <1>1, <1>7, Basics DEF IInv, TypeOK
  <1>11. HistoryInv'
    <2>1. \A h : History(h, entries) => History(h, entries')
      BY <1>1, NumberedGrows
    <2>2. History(t.hist, entries')
      BY <1>3, <1>5
    <2> QED
      BY <1>7, <2>1, <2>2 DEF IInv, HistoryInv
  <1>12. LockInv'
    <2>1. current # 0 => current \in 1..Len(sessions)
      BY Basics
    <2> QED
      BY <1>5, <1>7, <1>8, <2>1 DEF IInv, LockInv, HoldsItsFile
  <1>13. CandidateInv'
    <2>1. Prepared => Len(sessions') # 0
      BY <1>7, Basics
    <2>2. Prepared => sessions' # <<>>
      BY <2>1
    <2> QED
      BY <1>8, <1>9, <2>2 DEF IInv, CandidateInv
  <1>14. current # 0 =>
            /\ sessions'[current].path = sessions[current].path
            /\ sessions'[current].writer = sessions[current].writer
            /\ sessions'[current].shut = sessions[current].shut
            /\ sessions'[current].closed = sessions[current].closed
            /\ sessions'[current].agent = sessions[current].agent
            /\ current # i => sessions'[current].hist = sessions[current].hist
            /\ current = i => Len(sessions'[current].hist) =
                                Len(sessions[current].hist) + 1
    BY <1>3, <1>5, <1>7, Basics
  <1>15. current # 0 => Len(sessions[current].hist) \in Nat
                          /\ Len(switch.previous) \in Nat
    BY Basics, LenProperties DEF Sessions, Switches
  <1>16. DeriveInv' /\ SwitchInv'
    BY <1>14, <1>15 DEF IInv, DeriveInv, SwitchInv
  <1>17. BorrowInv'
    <2>1. Borrowed' <=> Borrowed
      BY <1>8, <1>9 DEF Borrowed
    <2>2. ASSUME Borrowed, current = i
          PROVE  sessions'[current].hist # switch.previous
      <3>1. current # 0 /\ switch.kind = "open" /\ switch.phase # "none"
        BY <2>2 DEF IInv, BorrowInv, CandidateInv, Borrowed, Prepared
      <3>2. Len(switch.previous) <= Len(sessions[current].hist)
        BY <3>1 DEF IInv, SwitchInv
      <3>3. Len(sessions'[current].hist) = Len(sessions[current].hist) + 1
        BY <1>14, <2>2, <3>1
      <3>4. Len(sessions'[current].hist) # Len(switch.previous)
        BY <1>15, <3>1, <3>2, <3>3
      <3> QED
        BY <3>4
    <2>3. ASSUME Borrowed, current # i
          PROVE  sessions'[current].hist = switch.previous =>
                    FileIs(files'[switch.path], sessions'[Candidate].hist)
      BY <1>9, <1>14, <2>3 DEF IInv, BorrowInv, Borrowed
    <2>4. switch.phase = "retiring" /\ (Borrowed \/ switch.kind = "derive") =>
            /\ current # i /\ current # 0
            /\ sessions'[current].hist = switch.previous
            /\ sessions'[current].agent = "closed"
      BY <1>14 DEF IInv, BorrowInv, DeriveInv
    <2>5. Borrowed => current # 0 /\ sessions'[current].writer = switch.path
      BY <1>14 DEF IInv, BorrowInv
    <2> QED
      BY <1>8, <2>1, <2>2, <2>3, <2>4, <2>5 DEF BorrowInv
  <1> QED
    BY <1>10, <1>11, <1>12, <1>13, <1>16, <1>17 DEF IInv

(* What a session writes of an entry leaves a file.  It is a file of its    *)
(* own, unless that was given up, and whatever becomes of it, what was      *)
(* acknowledged there is still read.                                       *)
LEMMA RecordWrites ==
    ASSUME IInv, NEW i \in 1..Len(sessions), i # Candidate,
           NEW kind \in {"setup", "message"}, NEW e, NEW s,
           e = NewEntry(sessions[i].hist, kind),
           s = [sessions[i] EXCEPT !.hist = Append(@, e)],
           Writes(s), ~Refused(s)
    PROVE  LET f == files[s.path]
               text == ToWrite(s, <<e>>)
           IN  /\ i = current /\ s.path \in Paths
               /\ FileOK(Appended(f, text), entries + 1)
               /\ s.hist \in Seq(Numbered(entries + 1))
               /\ \A g \in CutShort(f, text) : FileOK(g, entries + 1)
               /\ s.path \notin forsaken =>
                    /\ sessions[i].writer = s.path
                    /\ FileIs(Appended(f, text), s.hist)
                    /\ acknowledged[s.path] # <<>> =>
                         \A g \in CutShort(f, text) :
                            /\ Readable(g)
                            /\ IsPrefix(acknowledged[s.path], Decoded(g))
  <1> DEFINE n == entries + 1
             f == files[s.path]
             h == sessions[i].hist
  <1>1. /\ entries \in Nat /\ n \in Nat /\ entries <= n
        /\ sessions[i] \in Sessions /\ History(h, entries)
    BY Basics DEF IInv, HistoryInv
  <1>2. /\ e \in Numbered(n) /\ History(Append(h, e), n)
        /\ h \in Seq(Numbered(n))
    BY <1>1, EntryAppended, NumberedGrows DEF NewEntry, History
  <1>3. /\ s.path = sessions[i].path /\ s.writer = sessions[i].writer
        /\ s.closed = sessions[i].closed /\ s.save = sessions[i].save
        /\ s.hist = Append(h, e)
    BY <1>1 DEF Sessions
  <1>4. /\ i = current /\ s.path \in Paths
        /\ s.path \notin forsaken => sessions[i].writer = s.path
    <2>1. s.path # NoPath /\ ~s.closed
      BY DEF Writes
    <2>2. i = current
      BY <1>3, <2>1 DEF IInv, LockInv
    <2>3. current # 0
      BY <2>2, Basics
    <2> QED
      BY <1>1, <1>3, <2>1, <2>2, <2>3
      DEF IInv, LockInv, HoldsItsFile, Sessions
  <1>5. FileOK(f, entries) /\ FileOK(f, n)
    BY <1>1, <1>4, NumberedGrows DEF IInv, DiskInv
  <1>6. Append(h, e) \in Seq(Numbered(n))
    BY <1>2 DEF History
  <1>7. acknowledged[s.path] \in Seq(Numbered(n))
    <2>1. acknowledged[s.path] \in Seq(Numbered(entries))
      BY <1>4 DEF IInv, DiskInv
    <2> QED
      BY <1>1, <2>1, NumberedGrows
  <1>8. s.path \notin forsaken /\ acknowledged[s.path] # <<>> =>
            Readable(f) /\ IsPrefix(acknowledged[s.path], Decoded(f))
    BY <1>4 DEF IInv, DiskInv, SavedSurvives
  <1>9. ASSUME s.save = "saved", s.path \notin forsaken
        PROVE  LET text == ToWrite(s, <<e>>) IN
               /\ FileIs(Appended(f, text), s.hist)
               /\ acknowledged[s.path] # <<>> =>
                    \A g \in CutShort(f, text) :
                        Readable(g) /\ IsPrefix(acknowledged[s.path], Decoded(g))
    <2>1. FileIs(f, h) /\ ToWrite(s, <<e>>) = <<e>>
      <3>1. sessions[i].writer \notin {NoPath} \union forsaken
        BY <1>4, <1>9, Basics
      <3> QED
        BY <1>3, <1>4, <1>9, <3>1 DEF IInv, SavedInv, ToWrite
    <2> HIDE DEF n, f, h
    <2>2. FileOK(Appended(f, <<e>>), n) /\ FileIs(Appended(f, <<e>>), Append(h, e))
      BY <1>1, <1>2, <1>5, <2>1, EntryWritten
    <2>3. ASSUME NEW g \in CutShort(f, <<e>>)
          PROVE  acknowledged[s.path] # <<>> =>
                    Readable(g) /\ IsPrefix(acknowledged[s.path], Decoded(g))
      <3>1. Readable(g) /\ (Decoded(g) = h \/ Decoded(g) = Append(h, e))
        BY <1>1, <1>2, <1>5, <2>1, <2>3, EntryCutShort
      <3>2. Decoded(f) = h
        BY <2>1 DEF FileIs
      <3> QED
        BY <1>2, <1>7, <1>8, <1>9, <3>1, <3>2, PrefixGrows
    <2> QED
      BY <1>3, <2>1, <2>2, <2>3
  <1>10. ASSUME s.save = "pending"
         PROVE  LET text == ToWrite(s, <<e>>) IN
                /\ FileIs(Appended(f, text), s.hist)
                /\ s.path \notin forsaken => acknowledged[s.path] = <<>>
    <2>1. ToWrite(s, <<e>>) = Text(Append(h, e)) /\ f = NoFile
      BY <1>3, <1>5, <1>10 DEF ToWrite, Refused, FileOK
    <2>2. s.path \notin forsaken => acknowledged[s.path] = <<>>
      BY <1>1, <1>5, <1>8, <2>1, ReadableParts DEF NoFile
    <2> HIDE DEF n, f, h
    <2>3. /\ Appended(NoFile, Text(Append(h, e))) = Whole(Append(h, e))
          /\ FileIs(Whole(Append(h, e)), Append(h, e))
      BY <1>1, <1>2, FirstWrite, WrittenWhole
    <2> QED
      BY <1>3, <2>1, <2>2, <2>3
  <1>11. s.save \in {"saved", "pending"}
    BY <1>1, <1>3 DEF Writes, Sessions
  <1>12. ToWrite(s, <<e>>) \in Seq(WholeLines(n))
    <2>1. Numbered(n) \subseteq WholeLines(n)
      BY DEF WholeLines
    <2>2. <<e>> \in Seq(WholeLines(n))
      BY <1>2, <2>1
    <2>3. Text(Append(h, e)) \in Seq(WholeLines(n))
      <3>1. PICK k \in Nat : k = Len(Append(h, e))
        BY <1>6, LenProperties
      <3>2. Line("header", k, 0) \in Headers
        BY DEF Line, Headers
      <3> HIDE DEF n, h
      <3> QED
        BY <1>1, <1>2, <3>1, <3>2, HeaderAndHistory DEF Text
    <2> HIDE DEF n, h
    <2> QED
      BY <1>3, <2>2, <2>3 DEF ToWrite
  <1>13. PICK text \in Seq(WholeLines(n)) : text = ToWrite(s, <<e>>)
    BY <1>12
  <1>14. /\ FileOK(Appended(f, text), n)
         /\ \A g \in CutShort(f, text) : FileOK(g, n)
    <2> HIDE DEF n, f, h
    <2> QED
      BY <1>1, <1>5, AnyAppend
  <1> HIDE DEF h
  <1>15. s.hist \in Seq(Numbered(n))
    BY <1>3, <1>6
  <1> QED
    BY <1>4, <1>9, <1>10, <1>11, <1>13, <1>14, <1>15

LEMMA RecordKeeps ==
    ASSUME IInv, NEW i \in 1..Len(sessions), NEW kind \in {"setup", "message"},
           Record(i, kind)
    PROVE  IInv'
  <1>1. PICK e : e = NewEntry(sessions[i].hist, kind)
    OBVIOUS
  <1>2. PICK s : s = [sessions[i] EXCEPT !.hist = Append(@, e)]
    OBVIOUS
  <1>3. /\ i # Candidate /\ sessions[i].agent # "closed"
        /\ entries < MaxEntries /\ entries' = entries + 1
        /\ UNCHANGED <<current, switch, closing, saves, forsaken>>
        /\ Commit(sessions, i, s, <<e>>)
    BY <1>1, <1>2 DEF Record, MayRecord, Published
  <1>4. sessions[i] \in Sessions /\ mishaps \in 0..MaxMishaps /\ MaxMishaps \in Nat
    BY Basics, CodingSessionAssumption DEF IInv, TypeOK
  <1>5. /\ s.path = sessions[i].path /\ s.writer = sessions[i].writer
        /\ s.closed = sessions[i].closed /\ s.save = sessions[i].save
        /\ s.hist = Append(sessions[i].hist, e)
    BY <1>2, <1>4 DEF Sessions
  <1>6. ASSUME NEW save \in {"pending", "saved", "unsaved"}
        PROVE  /\ [s EXCEPT !.save = save] \in Sessions
               /\ [s EXCEPT !.save = save] =
                    [sessions[i] EXCEPT !.hist = Append(@, e), !.save = save]
               /\ [s EXCEPT !.save = save].save = save
               /\ [s EXCEPT !.save = save].writer = s.writer
               /\ [s EXCEPT !.save = save].hist = s.hist
    <2>1. entries + 1 \in Nat /\ entries + 1 <= MaxEntries
            /\ History(Append(sessions[i].hist, e), entries + 1)
      BY <1>1, <1>3, Basics, EntryAppended DEF NewEntry, IInv, HistoryInv
    <2>2. s \in Sessions
      BY <1>2, <1>4, <2>1, HistoriesAreTyped DEF Sessions
    <2> QED
      BY <1>2, <1>4, <2>2 DEF Sessions
  <1>7. CASE ~Writes(s) \/ Refused(s)
    <2>1. PICK save \in {"pending", "saved", "unsaved"} :
            /\ sessions' = [sessions EXCEPT ![i] = [s EXCEPT !.save = save]]
            /\ save = "saved" => ~Writes(s) /\ s.save = "saved"
      BY <1>3, <1>4, <1>5, <1>7 DEF Commit, Sessions
    <2>2. UNCHANGED <<mishaps, disk>>
      BY <1>3, <1>7 DEF Commit
    <2>3. DiskInv'
      BY <1>3, <2>2, DiskLeft
    <2>4. save = "saved" => s.writer = NoPath
      BY <1>5, <2>1 DEF IInv, LockInv, Writes
    <2>5. SavedInv'
      BY <1>3, <1>6, <2>1, <2>2, <2>4, SavedWritten DEF disk
    <2> QED
      <3>1. sessions' = [sessions EXCEPT ![i] =
                [sessions[i] EXCEPT
                    !.hist = Append(@, NewEntry(sessions[i].hist, kind)),
                    !.save = save]]
        BY <1>1, <1>6, <2>1
      <3>2. mishaps' \in 0..MaxMishaps /\ files' = files
        BY <1>4, <2>2 DEF disk
      <3> QED
        BY <1>3, <2>3, <2>5, <3>1, <3>2, RecordedKeeps
  <1>8. CASE Writes(s) /\ ~Refused(s)
    <2>1. PICK f, text : f = files[s.path] /\ text = ToWrite(s, <<e>>)
      OBVIOUS
    <2>2. /\ i = current /\ s.path \in Paths
          /\ FileOK(Appended(f, text), entries + 1)
          /\ s.hist \in Seq(Numbered(entries + 1))
          /\ \A g \in CutShort(f, text) : FileOK(g, entries + 1)
          /\ s.path \notin forsaken =>
                /\ sessions[i].writer = s.path
                /\ FileIs(Appended(f, text), s.hist)
                /\ acknowledged[s.path] # <<>> =>
                     \A g \in CutShort(f, text) :
                        /\ Readable(g)
                        /\ IsPrefix(acknowledged[s.path], Decoded(g))
      BY <1>1, <1>2, <1>3, <1>8, <2>1, RecordWrites
    <2>3. s.path \notin forsaken =>
            \A j \in 1..Len(sessions) : j # i => sessions[j].writer # s.path
      BY <2>2, Basics DEF IInv, LockInv
    <2>4. entries \in Nat /\ entries + 1 \in Nat /\ entries <= entries + 1
      BY Basics
    <2>5. CASE /\ sessions' = [sessions EXCEPT ![i] = [s EXCEPT !.save = "saved"]]
               /\ files' = [files EXCEPT ![s.path] = Appended(f, text)]
               /\ acknowledged' = [acknowledged EXCEPT ![s.path] = s.hist]
               /\ UNCHANGED mishaps
      <3>1. DiskInv'
        <4>1. s.path \notin forsaken =>
                /\ Readable(Appended(f, text))
                /\ IsPrefix(s.hist, Decoded(Appended(f, text)))
          BY <2>2 DEF FileIs, IsPrefix
        <4>2. PICK g : g = Appended(f, text)
          OBVIOUS
        <4> QED
          BY <1>3, <2>2, <2>5, <4>1, <4>2, DiskWritten
      <3>2. \A q \in Paths :
                files'[q] = IF q = s.path THEN Appended(f, text) ELSE files[q]
        BY <2>2, <2>5 DEF IInv, DiskInv
      <3>3. SavedInv'
        <4>1. PICK t : t = [s EXCEPT !.save = "saved"]
          OBVIOUS
        <4>2. t \in Sessions /\ t.writer = s.writer /\ t.hist = s.hist
          BY <1>6, <4>1
        <4>3. s.writer # NoPath => s.writer = s.path
          BY <1>5 DEF IInv, LockInv
        <4>4. t.writer \notin {NoPath} \union forsaken' =>
                FileIs(files'[t.writer], t.hist)
          BY <1>3, <2>2, <3>2, <4>2, <4>3
        <4>5. \A q \in Paths \ forsaken : (\E j \in 1..Len(sessions) :
                  j # i /\ sessions[j].writer = q) => files'[q] = files[q]
          BY <2>3, <3>2
        <4> QED
          BY <1>3, <2>5, <4>1, <4>2, <4>4, <4>5, SavedWritten
      <3>4. sessions' = [sessions EXCEPT ![i] =
                [sessions[i] EXCEPT
                    !.hist = Append(@, NewEntry(sessions[i].hist, kind)),
                    !.save = "saved"]]
        BY <1>1, <1>6, <2>5
      <3> QED
        BY <1>3, <1>4, <2>2, <2>5, <3>1, <3>3, <3>4, RecordedKeeps
    <2>6. CASE /\ sessions' = [sessions EXCEPT ![i] = [s EXCEPT !.save = "unsaved"]]
               /\ \E cut \in CutShort(f, text) :
                    files' = [files EXCEPT ![s.path] = cut]
               /\ mishaps < MaxMishaps /\ mishaps' = mishaps + 1
               /\ UNCHANGED acknowledged
      <3>1. PICK cut \in CutShort(f, text) :
                files' = [files EXCEPT ![s.path] = cut]
        BY <2>6
      <3>2. acknowledged[s.path] \in Seq(Numbered(entries + 1))
              /\ acknowledged' =
                    [acknowledged EXCEPT ![s.path] = acknowledged[s.path]]
        <4>1. acknowledged[s.path] \in Seq(Numbered(entries))
          BY <2>2 DEF IInv, DiskInv
        <4> QED
          BY <2>2, <2>4, <2>6, <4>1, NumberedGrows DEF IInv, DiskInv
      <3>3. DiskInv'
        <4>1. PICK a : a = acknowledged[s.path]
          OBVIOUS
        <4> QED
          BY <1>3, <2>2, <3>1, <3>2, <4>1, DiskWritten
      <3>4. \A q \in Paths :
                files'[q] = IF q = s.path THEN cut ELSE files[q]
        BY <2>2, <3>1 DEF IInv, DiskInv
      <3>5. SavedInv'
        <4>1. PICK t : t = [s EXCEPT !.save = "unsaved"]
          OBVIOUS
        <4>2. t \in Sessions /\ t.save = "unsaved"
          BY <1>6, <4>1
        <4>3. \A q \in Paths \ forsaken : (\E j \in 1..Len(sessions) :
                  j # i /\ sessions[j].writer = q) => files'[q] = files[q]
          BY <2>3, <3>4
        <4> QED
          BY <1>3, <2>6, <4>1, <4>2, <4>3, SavedWritten
      <3>6. mishaps' \in 0..MaxMishaps
        BY <1>4, <2>6
      <3>7. sessions' = [sessions EXCEPT ![i] =
                [sessions[i] EXCEPT
                    !.hist = Append(@, NewEntry(sessions[i].hist, kind)),
                    !.save = "unsaved"]]
        BY <1>1, <1>6, <2>6
      <3> QED
        BY <1>3, <2>2, <3>3, <3>5, <3>6, <3>7, RecordedKeeps
    <2> QED
      BY <1>3, <1>8, <2>1, <2>5, <2>6 DEF Commit
  <1> QED
    BY <1>7, <1>8

(* A lost process leaves the files.                                        *)
LEMMA LostKeeps ==
    ASSUME IInv, ProcessLost, DiskInv', entries' \in {entries, entries + 1},
           entries' <= MaxEntries
    PROVE  IInv'
  <1>1. /\ sessions' = <<>> /\ Len(sessions') = 0 /\ current' = 0
        /\ switch' = NoSwitch /\ closing' = "no" /\ saves' = saves
        /\ forsaken' = forsaken
        /\ mishaps < MaxMishaps /\ mishaps' = mishaps + 1
    BY DEF ProcessLost
  <1>2. /\ switch'.phase = "none" /\ switch'.hist = <<>>
        /\ ~Prepared' /\ Candidate' = 0 /\ switch' \in Switches
    <2>1. <<>> \in Seq(Entries)
      BY EmptySeq
    <2> QED
      BY <1>1, <2>1 DEF NoSwitch, Prepared, Candidate, Switches
  <1>3. entries' \in 0..MaxEntries /\ entries' \in Nat
    BY Basics
  <1>4. TypeOK'
    <2>1. sessions' \in Seq(Sessions)
      BY <1>1, EmptySeq
    <2>2. mishaps' \in 0..MaxMishaps
      BY <1>1, CodingSessionAssumption DEF IInv, TypeOK
    <2> QED
      BY <1>1, <1>2, <1>3, <2>1, <2>2 DEF IInv, TypeOK
  <1>5. HistoryInv'
    BY <1>1, <1>2, <1>3, EmptyHistory DEF HistoryInv
  <1>6. SavedInv' /\ LockInv'
    BY <1>1 DEF SavedInv, LockInv, HoldsItsFile
  <1>7. CandidateInv' /\ DeriveInv' /\ SwitchInv' /\ BorrowInv'
    BY <1>2 DEF CandidateInv, DeriveInv, SwitchInv, BorrowInv, Borrowed
  <1> QED
    BY <1>4, <1>5, <1>6, <1>7 DEF IInv

LEMMA CrashKeeps ==
    ASSUME IInv, Crash
    PROVE  IInv'
  <1>1. DiskInv'
    BY DiskLeft DEF Crash, ProcessLost, disk
  <1> QED
    BY <1>1, Basics, LostKeeps DEF Crash

LEMMA CrashWritingKeeps ==
    ASSUME IInv, NEW i \in 1..Len(sessions), NEW kind \in {"setup", "message"},
           CrashWriting(i, kind)
    PROVE  IInv'
  <1>1. PICK e : e = NewEntry(sessions[i].hist, kind)
    OBVIOUS
  <1>2. PICK s : s = [sessions[i] EXCEPT !.hist = Append(@, e)]
    OBVIOUS
  <1>3. /\ i # Candidate /\ entries < MaxEntries /\ entries' = entries + 1
        /\ Writes(s) /\ ~Refused(s) /\ ProcessLost
        /\ \E cut \in CutShort(files[s.path], ToWrite(s, <<e>>)) :
                files' = [files EXCEPT ![s.path] = cut]
    BY <1>1, <1>2 DEF CrashWriting, MayRecord, Published
  <1>4. PICK f, text : f = files[s.path] /\ text = ToWrite(s, <<e>>)
    OBVIOUS
  <1>5. /\ s.path \in Paths
        /\ \A g \in CutShort(f, text) :
              /\ FileOK(g, entries + 1)
              /\ s.path \notin forsaken /\ acknowledged[s.path] # <<>> =>
                  Readable(g) /\ IsPrefix(acknowledged[s.path], Decoded(g))
    BY <1>1, <1>2, <1>3, <1>4, RecordWrites
  <1>6. PICK cut \in CutShort(f, text) : files' = [files EXCEPT ![s.path] = cut]
    BY <1>3, <1>4
  <1>7. /\ acknowledged[s.path] \in Seq(Numbered(entries + 1))
        /\ acknowledged' = [acknowledged EXCEPT ![s.path] = acknowledged[s.path]]
    <2>1. entries \in Nat /\ entries + 1 \in Nat /\ entries <= entries + 1
      BY Basics
    <2>2. acknowledged[s.path] \in Seq(Numbered(entries))
            /\ acknowledged' = acknowledged
      BY <1>3, <1>5 DEF IInv, DiskInv, ProcessLost
    <2> QED
      BY <1>5, <2>1, <2>2, NumberedGrows DEF IInv, DiskInv
  <1>8. DiskInv'
    <2>1. PICK a : a = acknowledged[s.path]
      OBVIOUS
    <2>2. forsaken' = forsaken
      BY <1>3 DEF ProcessLost
    <2> QED
      BY <1>3, <1>5, <1>6, <1>7, <2>1, <2>2, DiskWritten
  <1> QED
    BY <1>3, <1>8, Basics, LostKeeps

(* A session is bound to another file, or loses faith in its own.          *)
LEMMA ReboundKeeps ==
    ASSUME IInv, NEW i \in 1..Len(sessions), i # Candidate,
           NEW t \in Sessions, sessions' = [sessions EXCEPT ![i] = t],
           t.hist = sessions[i].hist, t.agent = sessions[i].agent,
           sessions[i].closed => t.closed,
           forsaken \subseteq forsaken', forsaken' \subseteq Paths,
           t.writer # NoPath => ~t.closed /\ t.writer = t.path,
           i = current /\ ~t.closed /\ t.path \notin forsaken' =>
                t.writer = t.path,
           \A j \in 1..Len(sessions) :
                j # i /\ t.writer # NoPath => sessions[j].writer # t.writer,
           i = current /\ switch.phase # "none" /\ switch.kind = "derive" =>
                switch.path = NoPath \/ switch.path # t.path,
           Borrowed /\ switch.path \notin forsaken' =>
                /\ i = current => t.writer = sessions[i].writer
                /\ \/ files'[switch.path] = files[switch.path]
                   \/ FileIs(files'[switch.path], sessions[Candidate].hist),
           UNCHANGED <<current, switch, closing, entries>>,
           saves' \in 0..MaxSaves, mishaps' \in 0..MaxMishaps,
           DiskInv', SavedInv'
    PROVE  IInv'
  <1>1. /\ sessions' \in Seq(Sessions) /\ Len(sessions') = Len(sessions)
        /\ \A j \in 1..Len(sessions) :
             sessions'[j] = IF j = i THEN t ELSE sessions[j]
    BY Basics, ExceptSeq
  <1>2. Candidate' = Candidate /\ (Prepared' <=> Prepared)
    BY <1>1 DEF Candidate, Prepared
  <1>3. Prepared => sessions'[Candidate] = sessions[Candidate]
    BY <1>1, Basics
  <1>4. current # 0 => current \in 1..Len(sessions)
    BY Basics
  <1>5. TypeOK'
    BY <1>1 DEF IInv, TypeOK
  <1>6. HistoryInv'
    BY <1>1 DEF IInv, HistoryInv
  <1>7. LockInv'
    BY <1>1, <1>2, <1>4 DEF IInv, LockInv, HoldsItsFile
  <1>8. CandidateInv'
    <2>1. Prepared => Len(sessions') # 0
      BY <1>1, Basics
    <2>2. Prepared => sessions' # <<>>
      BY <2>1
    <2> QED
      BY <1>2, <1>3, <2>2 DEF IInv, CandidateInv
  <1>9. current # 0 =>
            /\ sessions'[current].hist = sessions[current].hist
            /\ sessions'[current].agent = sessions[current].agent
            /\ current # i => sessions'[current] = sessions[current]
            /\ current = i => sessions'[current] = t
    BY <1>1, <1>4
  <1>10. DeriveInv' /\ SwitchInv'
    BY <1>9 DEF IInv, DeriveInv, SwitchInv
  <1>11. BorrowInv'
    <2>1. Borrowed' <=> Borrowed /\ switch.path \notin forsaken'
      BY <1>2, <1>3 DEF Borrowed
    <2>2. Borrowed => current # 0
      BY DEF IInv, BorrowInv
    <2>3. switch.phase = "retiring" /\ switch.kind = "derive" => current # 0
      BY DEF IInv, DeriveInv
    <2> QED
      BY <1>2, <1>3, <1>9, <2>1, <2>2, <2>3
      DEF IInv, BorrowInv, Borrowed
  <1> QED
    BY <1>5, <1>6, <1>7, <1>8, <1>10, <1>11 DEF IInv

(* What is given up is a file, and under a candidate that borrows its lock  *)
(* it is the file of that.                                                 *)
LEMMA LentFile ==
    ASSUME IInv, NEW i
    PROVE  /\ forsaken \subseteq Paths /\ Lent(i) \subseteq Paths
           /\ Borrowed /\ i = current => Lent(i) = {switch.path}
  <1>1. forsaken \subseteq Paths
    BY DEF IInv, TypeOK
  <1>2. Candidate # 0 => sessions[Candidate].path \in Paths \union {NoPath}
    BY Basics DEF Sessions
  <1>3. Lent(i) \subseteq Paths
    BY <1>2 DEF Lent
  <1>4. ASSUME Borrowed, i = current PROVE Lent(i) = {switch.path}
    <2>1. Prepared /\ Candidate # 0
      BY <1>4, Basics DEF Borrowed
    <2>2. /\ sessions[Candidate].path = switch.path
          /\ sessions[Candidate].writer = NoPath /\ switch.kind = "open"
      BY <1>4, <2>1 DEF IInv, CandidateInv, Session, Borrowed
    <2>3. switch.path # NoPath
      BY <2>1, <2>2 DEF IInv, SwitchInv, Prepared
    <2> QED
      BY <1>4, <2>1, <2>2, <2>3 DEF Lent
  <1> QED
    BY <1>1, <1>3, <1>4

LEMMA UnsavedKeeps ==
    ASSUME IInv, NEW i \in 1..Len(sessions), i # Candidate,
           sessions' = [sessions EXCEPT ![i].save = "unsaved"],
           UNCHANGED <<current, switch, closing, entries, disk, forsaken>>,
           saves' \in 0..MaxSaves, mishaps' \in 0..MaxMishaps
    PROVE  IInv'
  <1>1. PICK t : t = [sessions[i] EXCEPT !.save = "unsaved"]
    OBVIOUS
  <1>2. sessions[i] \in Sessions
    BY Basics
  <1>3. /\ t \in Sessions /\ t.hist = sessions[i].hist
        /\ t.agent = sessions[i].agent /\ t.closed = sessions[i].closed
        /\ t.writer = sessions[i].writer /\ t.path = sessions[i].path
        /\ t.save = "unsaved"
    BY <1>1, <1>2 DEF Sessions
  <1>4. sessions' = [sessions EXCEPT ![i] = t]
    BY <1>1
  <1>5. /\ t.writer # NoPath => ~t.closed /\ t.writer = t.path
        /\ i = current /\ ~t.closed /\ t.path \notin forsaken =>
                t.writer = t.path
        /\ \A j \in 1..Len(sessions) :
                j # i /\ t.writer # NoPath => sessions[j].writer # t.writer
    <2>1. i = current => current # 0
      BY Basics
    <2> QED
      BY <1>3, <2>1 DEF IInv, LockInv, HoldsItsFile
  <1>6. i = current /\ switch.phase # "none" /\ switch.kind = "derive" =>
            switch.path = NoPath \/ switch.path # t.path
    BY <1>3 DEF IInv, DeriveInv
  <1>7. DiskInv'
    BY DiskLeft DEF disk
  <1>8. files' = files /\ forsaken' = forsaken /\ forsaken \subseteq Paths
    BY LentFile DEF disk
  <1>9. SavedInv'
    BY <1>3, <1>4, <1>8, SavedWritten
  <1> QED
    BY <1>3, <1>4, <1>5, <1>6, <1>7, <1>8, <1>9, ReboundKeeps

(* A session that lets go of its lock, with nothing written                *)
LEMMA UnboundKeeps ==
    ASSUME IInv, NEW i \in 1..Len(sessions), i # Candidate, Forsake(i),
           NEW t \in Sessions, sessions' = [sessions EXCEPT ![i] = t],
           t.hist = sessions[i].hist, t.agent = sessions[i].agent,
           sessions[i].closed => t.closed,
           t.writer # NoPath => ~t.closed /\ t.writer = t.path,
           ~t.closed => t.writer = t.path,
           t.save = "saved" => t.writer = NoPath,
           \A j \in 1..Len(sessions) :
                j # i /\ t.writer # NoPath => sessions[j].writer # t.writer,
           i = current /\ switch.phase # "none" /\ switch.kind = "derive" =>
                switch.path = NoPath \/ switch.path # t.path,
           UNCHANGED <<current, switch, closing, entries, disk, mishaps>>,
           saves' \in 0..MaxSaves
    PROVE  IInv'
  <1>1. /\ forsaken' = forsaken \union Lent(i)
        /\ forsaken \subseteq forsaken' /\ forsaken' \subseteq Paths
        /\ Borrowed /\ i = current => switch.path \in forsaken'
    BY LentFile DEF Forsake
  <1>2. files' = files /\ DiskInv'
    BY <1>1, DiskLeft DEF disk
  <1>3. SavedInv'
    BY <1>1, <1>2, SavedWritten
  <1>4. mishaps' \in 0..MaxMishaps
    BY DEF IInv, TypeOK
  <1> QED
    BY <1>1, <1>2, <1>3, <1>4, ReboundKeeps

LEMMA ReleaseKeeps ==
    ASSUME IInv, NEW i \in 1..Len(sessions), ReleaseWriter(i)
    PROVE  IInv'
  <1>1. /\ sessions[i] \in Sessions /\ sessions[i].shut
        /\ sessions' = [sessions EXCEPT ![i] = ManagerClosed(sessions[i])]
        /\ Forsake(i)
        /\ UNCHANGED <<current, switch, closing, disk, entries, saves, mishaps>>
    BY Basics DEF ReleaseWriter, counts
  <1>2. i # Candidate
    BY <1>1, Basics DEF IInv, CandidateInv, Session
  <1>3. PICK t : t = ManagerClosed(sessions[i])
    OBVIOUS
  <1>4. /\ t \in Sessions /\ t.hist = sessions[i].hist
        /\ t.agent = sessions[i].agent /\ t.path = sessions[i].path
        /\ t.writer = NoPath /\ t.closed
    BY <1>1, <1>3 DEF ManagerClosed, Sessions
  <1>5. i = current /\ switch.phase # "none" /\ switch.kind = "derive" =>
            switch.path = NoPath \/ switch.path # t.path
    BY <1>4 DEF IInv, DeriveInv
  <1>6. saves' \in 0..MaxSaves
    BY <1>1 DEF IInv, TypeOK
  <1> QED
    BY <1>1, <1>2, <1>3, <1>4, <1>5, <1>6, UnboundKeeps

(* A derived conversation has the path that was looked up for it for       *)
(* itself.                                                                 *)
LEMMA DerivedElsewhere ==
    ASSUME IInv, NEW p \in Paths \union {NoPath}, ~Unknown(p),
           switch.phase # "none", switch.kind = "derive"
    PROVE  switch.path = NoPath \/ switch.path # p
  BY DEF Unknown

LEMMA RebindKeeps ==
    ASSUME IInv, NEW i \in 1..Len(sessions), NEW p \in Paths \union {NoPath},
           Rebind(i, p)
    PROVE  IInv'
  <1>1. PICK t : t = [sessions[i] EXCEPT !.path = p,
            !.writer = IF sessions[i].closed THEN NoPath ELSE p,
            !.save = IF @ = "unsaved" THEN @ ELSE "pending"]
    OBVIOUS
  <1>2. /\ i # Candidate /\ (sessions[i].closed \/ p \notin Held) /\ ~Unknown(p)
        /\ sessions' = [sessions EXCEPT ![i] = t] /\ Forsake(i)
        /\ UNCHANGED <<current, switch, closing, disk, entries, mishaps>>
    BY <1>1 DEF Rebind, Published
  <1>3. sessions[i] \in Sessions
    BY Basics
  <1>4. /\ t \in Sessions /\ t.hist = sessions[i].hist
        /\ t.agent = sessions[i].agent /\ t.closed = sessions[i].closed
        /\ t.path = p /\ t.save # "saved"
        /\ t.writer = IF sessions[i].closed THEN NoPath ELSE p
    BY <1>1, <1>3 DEF Sessions
  <1>5. \A j \in 1..Len(sessions) :
            j # i /\ t.writer # NoPath => sessions[j].writer # t.writer
    BY <1>2, <1>4 DEF Held
  <1>6. i = current /\ switch.phase # "none" /\ switch.kind = "derive" =>
            switch.path = NoPath \/ switch.path # t.path
    BY <1>2, <1>4, DerivedElsewhere
  <1>7. saves' \in 0..MaxSaves
    BY CodingSessionAssumption DEF Rebind, Counted, IInv, TypeOK
  <1> QED
    BY <1>2, <1>4, <1>5, <1>6, <1>7, UnboundKeeps

(* Writing a whole history to a file leaves the files in order.            *)
LEMMA ReplacedDisk ==
    ASSUME IInv, NEW p \in Paths, NEW h, History(h, entries),
           entries' = entries, Replaced(p, h), forsaken \subseteq forsaken'
    PROVE  /\ DiskInv' /\ FileIs(files'[p], h)
           /\ \A q \in Paths : q # p => files'[q] = files[q]
  <1>1. entries \in Nat /\ h \in Seq(Numbered(entries))
    BY Basics DEF History
  <1>2. FileOK(Whole(h), entries) /\ FileIs(Whole(h), h)
    BY <1>1, WrittenWhole
  <1>3. Readable(Whole(h)) /\ IsPrefix(h, Decoded(Whole(h)))
    BY <1>2 DEF FileIs, IsPrefix
  <1>4. /\ files' = [files EXCEPT ![p] = Whole(h)]
        /\ acknowledged' = [acknowledged EXCEPT ![p] = h]
    BY DEF Replaced
  <1>5. PICK g : g = Whole(h)
    OBVIOUS
  <1>6. DiskInv'
    BY <1>1, <1>2, <1>3, <1>4, <1>5, DiskWritten
  <1>7. \A q \in Paths : files'[q] = IF q = p THEN Whole(h) ELSE files[q]
    BY <1>4 DEF IInv, DiskInv
  <1> QED
    BY <1>2, <1>6, <1>7

LEMMA SaveKeeps ==
    ASSUME IInv, NEW i \in 1..Len(sessions), NEW p \in Paths,
           Save(i, p)
    PROVE  IInv'
  <1>1. /\ i # Candidate /\ ~Unknown(p)
        /\ UNCHANGED <<current, switch, closing, entries>>
        /\ saves' \in 0..MaxSaves
    <2>1. saves' \in 0..MaxSaves
      BY CodingSessionAssumption DEF Save, Counted, IInv, TypeOK
    <2> QED
      BY <2>1 DEF Save, Published
  <1>2. mishaps \in 0..MaxMishaps /\ MaxMishaps \in Nat
    BY CodingSessionAssumption DEF IInv, TypeOK
  <1>3. CASE /\ sessions' = [sessions EXCEPT ![i].save = "unsaved"]
             /\ UNCHANGED <<disk, forsaken>>
             /\ mishaps' = mishaps \/ (mishaps < MaxMishaps /\ mishaps' = mishaps + 1)
    <2>1. mishaps' \in 0..MaxMishaps
      BY <1>2, <1>3
    <2> QED
      BY <1>1, <1>3, <2>1, UnsavedKeeps
  <1>4. CASE /\ Saveable(i, p)
             /\ Replaced(p, sessions[i].hist)
             /\ sessions' = [sessions EXCEPT ![i].path = p, ![i].save = "saved",
                    ![i].writer = IF sessions[i].closed THEN @ ELSE p]
             /\ IF p \in Lent(i) /\ sessions[Candidate].hist = sessions[i].hist
                THEN UNCHANGED forsaken ELSE Forsake(i)
             /\ UNCHANGED mishaps
    <2>1. sessions[i] \in Sessions /\ History(sessions[i].hist, entries)
      BY Basics DEF IInv, HistoryInv
    <2>2. PICK t : t = [sessions[i] EXCEPT !.path = p, !.save = "saved",
                        !.writer = IF sessions[i].closed THEN @ ELSE p]
      OBVIOUS
    <2>3. /\ t \in Sessions /\ t.hist = sessions[i].hist
          /\ t.agent = sessions[i].agent /\ t.closed = sessions[i].closed
          /\ t.path = p
          /\ t.writer = IF sessions[i].closed THEN sessions[i].writer ELSE p
      BY <2>1, <2>2 DEF Sessions
    <2>4. sessions' = [sessions EXCEPT ![i] = t]
      BY <1>4, <2>2
    <2>5. p # NoPath
      BY Basics
    <2>6. sessions[i].closed => sessions[i].writer = NoPath
      BY DEF IInv, LockInv
    <2>7. \A j \in 1..Len(sessions) : j # i => sessions[j].writer # p
      <3>1. CASE TakesLock(i, p)
        BY <1>4, <2>5, <3>1 DEF Saveable, Held
      <3>2. CASE ~TakesLock(i, p)
        BY <2>5, <3>2 DEF TakesLock, IInv, LockInv
      <3> QED
        BY <3>1, <3>2
    <2>8. /\ t.writer # NoPath => ~t.closed /\ t.writer = t.path
          /\ ~t.closed => t.writer = t.path
          /\ \A j \in 1..Len(sessions) :
                j # i /\ t.writer # NoPath => sessions[j].writer # t.writer
      BY <2>3, <2>6, <2>7
    <2>9. i = current /\ switch.phase # "none" /\ switch.kind = "derive" =>
              switch.path = NoPath \/ switch.path # t.path
      BY <1>1, <2>3, DerivedElsewhere
    <2>10. /\ forsaken \subseteq forsaken' /\ forsaken' \subseteq Paths
           /\ Borrowed /\ switch.path \notin forsaken' /\ i = current =>
                /\ p = switch.path
                /\ sessions[Candidate].hist = sessions[i].hist
      BY <1>4, LentFile DEF Forsake
    <2>11. Borrowed =>
             /\ current \in 1..Len(sessions) /\ switch.path \in Paths
             /\ sessions[current].writer = switch.path
             /\ ~sessions[current].closed
      <3>1. Borrowed => switch.phase # "none" /\ switch.kind = "open"
        BY DEF IInv, CandidateInv, Borrowed, Prepared
      <3>2. Borrowed => current # 0 /\ sessions[current].writer = switch.path
        BY DEF IInv, BorrowInv
      <3>3. Borrowed => switch.path \in Paths
        BY <3>1, Basics DEF IInv, SwitchInv, Switches
      <3> QED
        BY <3>2, <3>3, Basics DEF IInv, LockInv
    <2>12. /\ DiskInv' /\ FileIs(files'[p], sessions[i].hist)
           /\ \A q \in Paths : q # p => files'[q] = files[q]
      <3>1. entries' = entries /\ Replaced(p, sessions[i].hist)
        BY <1>1, <1>4
      <3> QED
        BY <2>1, <2>10, <3>1, ReplacedDisk
    <2>13. SavedInv'
      <3>1. t.writer # NoPath => FileIs(files'[t.writer], t.hist)
        BY <2>3, <2>6, <2>12
      <3>2. \A q \in Paths : (\E j \in 1..Len(sessions) :
                j # i /\ sessions[j].writer = q) => files'[q] = files[q]
        BY <2>7, <2>12
      <3> QED
        BY <2>3, <2>4, <2>10, <3>1, <3>2, SavedWritten
    <2>14. Borrowed /\ switch.path \notin forsaken' =>
                /\ i = current => t.writer = sessions[i].writer
                /\ \/ files'[switch.path] = files[switch.path]
                   \/ FileIs(files'[switch.path], sessions[Candidate].hist)
      <3>1. CASE i = current
        BY <2>3, <2>10, <2>11, <2>12, <3>1
      <3>2. CASE i # current
        BY <2>7, <2>11, <2>12, <3>2
      <3> QED
        BY <3>1, <3>2
    <2>15. mishaps' \in 0..MaxMishaps
      BY <1>2, <1>4
    <2> QED
      BY <1>1, <2>3, <2>4, <2>8, <2>9, <2>10, <2>12, <2>13, <2>14, <2>15,
         ReboundKeeps
  <1> QED
    BY <1>3, <1>4 DEF Save

(* Something is written to a file that no session here has locked.         *)
LEMMA ElsewhereKeeps ==
    ASSUME IInv, NEW p \in Paths, p \notin Held,
           \A q \in Paths : q # p => files'[q] = files[q],
           UNCHANGED <<sessions, current, switch, closing, forsaken>>,
           entries' \in {entries, entries + 1}, entries' <= MaxEntries,
           saves' \in 0..MaxSaves, mishaps' \in 0..MaxMishaps, DiskInv'
    PROVE  IInv'
  <1>1. /\ entries \in Nat /\ entries' \in Nat /\ entries <= entries'
        /\ entries' \in 0..MaxEntries
    BY Basics
  <1>2. Candidate' = Candidate /\ (Prepared' <=> Prepared)
    BY DEF Candidate, Prepared
  <1>3. \A i \in 1..Len(sessions) : sessions[i].writer # NoPath =>
            files'[sessions[i].writer] = files[sessions[i].writer]
    <2>1. p # NoPath
      BY Basics
    <2> QED
      BY <2>1, Basics DEF Held, Sessions
  <1>4. TypeOK'
    BY <1>1 DEF IInv, TypeOK
  <1>5. HistoryInv'
    BY <1>1, NumberedGrows DEF IInv, HistoryInv
  <1>6. SavedInv'
    BY <1>3 DEF IInv, SavedInv
  <1>7. LockInv'
    BY <1>2 DEF IInv, LockInv, HoldsItsFile
  <1>8. CandidateInv' /\ DeriveInv' /\ SwitchInv'
    BY <1>2 DEF IInv, CandidateInv, DeriveInv, SwitchInv
  <1>9. BorrowInv'
    <2>1. Borrowed' <=> Borrowed
      BY <1>2 DEF Borrowed
    <2>2. ASSUME Borrowed PROVE files'[switch.path] = files[switch.path]
      <3>1. /\ current \in 1..Len(sessions)
            /\ sessions[current].writer = switch.path
            /\ switch.path # NoPath
        BY <2>2, Basics
        DEF IInv, BorrowInv, CandidateInv, SwitchInv, Borrowed, Prepared
      <3> QED
        BY <1>3, <3>1
    <2> QED
      BY <1>2, <2>1, <2>2 DEF IInv, BorrowInv, Borrowed
  <1> QED
    BY <1>4, <1>5, <1>6, <1>7, <1>8, <1>9 DEF IInv

LEMMA ExportKeeps ==
    ASSUME IInv, NEW i \in 1..Len(sessions), NEW p \in Paths, Export(i, p)
    PROVE  IInv'
  <1>1. /\ p \notin Held /\ Replaced(p, sessions[i].hist)
        /\ UNCHANGED <<sessions, current, switch, closing, entries, mishaps,
                       forsaken>>
        /\ saves < MaxSaves /\ saves' = saves + 1
    BY DEF Export, Counted
  <1>2. saves' \in 0..MaxSaves /\ mishaps' \in 0..MaxMishaps
    BY <1>1, CodingSessionAssumption DEF IInv, TypeOK
  <1>3. History(sessions[i].hist, entries)
    BY DEF IInv, HistoryInv
  <1>4. DiskInv' /\ \A q \in Paths : q # p => files'[q] = files[q]
    BY <1>1, <1>3, ReplacedDisk
  <1> QED
    BY <1>1, <1>2, <1>4, Basics, ElsewhereKeeps

LEMMA OtherAppendsKeeps ==
    ASSUME IInv, NEW p \in Paths, OtherAppends(p)
    PROVE  IInv'
  <1>1. PICK h, e : h = Decoded(files[p]) /\ e = NewEntry(h, "message")
    OBVIOUS
  <1>2. /\ entries \in Nat /\ entries + 1 \in Nat /\ entries <= entries + 1
        /\ FileOK(files[p], entries)
    BY Basics DEF IInv, DiskInv
  <1>3. /\ p \notin Held /\ Readable(files[p]) /\ entries < MaxEntries
        /\ entries' = entries + 1
        /\ files' = [files EXCEPT ![p] =
                        Appended(Separated(files[p]), <<Last(Append(h, e))>>)]
        /\ acknowledged' = [acknowledged EXCEPT ![p] = Append(h, e)]
        /\ UNCHANGED <<sessions, current, switch, closing, saves, mishaps,
                       forsaken>>
    BY <1>1 DEF OtherAppends
  <1>4. /\ History(h, entries) /\ FileIs(Separated(files[p]), h)
        /\ FileOK(Separated(files[p]), entries)
    BY <1>1, <1>2, <1>3, ReadableParts, SeparatedReads
  <1>5. /\ e \in Numbered(entries + 1) /\ History(Append(h, e), entries + 1)
    BY <1>1, <1>2, <1>4, EntryAppended DEF NewEntry
  <1>6. Last(Append(h, e)) = e
    <2>1. h \in Seq(Numbered(entries + 1))
      BY <1>2, <1>4, NumberedGrows DEF History
    <2>2. Append(h, e)[Len(h) + 1] = e /\ Len(Append(h, e)) = Len(h) + 1
      BY <1>5, <2>1, AppendProperties
    <2> QED
      BY <2>2 DEF Last
  <1>7. PICK g : g = Appended(Separated(files[p]), <<e>>)
    OBVIOUS
  <1>8. FileOK(g, entries + 1) /\ FileIs(g, Append(h, e))
    <2>1. FileOK(Separated(files[p]), entries + 1)
      BY <1>2, <1>4, NumberedGrows
    <2> QED
      BY <1>2, <1>4, <1>5, <1>7, <2>1, EntryWritten
  <1>9. DiskInv'
    <2>1. Append(h, e) \in Seq(Numbered(entries + 1))
      BY <1>5 DEF History
    <2>2. Readable(g) /\ IsPrefix(Append(h, e), Decoded(g))
      BY <1>8 DEF FileIs, IsPrefix
    <2>3. PICK a : a = Append(h, e)
      OBVIOUS
    <2> QED
      BY <1>3, <1>6, <1>7, <1>8, <2>1, <2>2, <2>3, DiskWritten
  <1>10. \A q \in Paths : q # p => files'[q] = files[q]
    BY <1>3 DEF IInv, DiskInv
  <1>11. saves' \in 0..MaxSaves /\ mishaps' \in 0..MaxMishaps
           /\ entries' <= MaxEntries
    BY <1>3, Basics DEF IInv, TypeOK
  <1> QED
    BY <1>3, <1>9, <1>10, <1>11, ElsewhereKeeps

-----------------------------------------------------------------------------
(* Publication                                                             *)

Retirees ==
    IF current = 0 THEN sessions
    ELSE [sessions EXCEPT ![current] = Retired(sessions[current])]

LEMMA RetireesType ==
    ASSUME IInv, Prepared
    PROVE  /\ Retirees \in Seq(Sessions) /\ Len(Retirees) = Len(sessions)
           /\ \A i \in 1..Len(sessions) :
                /\ i # Candidate =>
                    Retirees[i].closed /\ Retirees[i].writer = NoPath
                /\ i # current => Retirees[i] = sessions[i]
                /\ Retirees[i].hist = sessions[i].hist
  <1>1. \A i \in 1..Len(sessions) :
            i \notin {current, Candidate} =>
                sessions[i].closed /\ sessions[i].writer = NoPath
    BY DEF IInv, LockInv
  <1>2. CASE current = 0
    BY <1>1, <1>2, Basics DEF Retirees
  <1>3. CASE current # 0
    <2>1. current \in 1..Len(sessions) /\ sessions[current] \in Sessions
      BY <1>3, Basics
    <2>2. PICK s : s = Retired(sessions[current])
      OBVIOUS
    <2>3. /\ s \in Sessions /\ s.closed /\ s.writer = NoPath
          /\ s.hist = sessions[current].hist
      BY <2>1, <2>2 DEF Retired, ManagerClosed, Sessions
    <2>4. Retirees = [sessions EXCEPT ![current] = s]
      BY <1>3, <2>2 DEF Retirees
    <2>5. /\ Retirees \in Seq(Sessions) /\ Len(Retirees) = Len(sessions)
          /\ \A i \in 1..Len(sessions) :
               Retirees[i] = IF i = current THEN s ELSE sessions[i]
      BY <2>1, <2>3, <2>4, Basics, ExceptSeq
    <2> QED
      BY <1>1, <2>3, <2>5
  <1> QED
    BY <1>2, <1>3

(* The candidate that becomes the current session has the lock of its      *)
(* file, unless that was given up under it; what it read, if it read one,  *)
(* is what is there.                                                       *)
LEMMA CandidateTakesOver ==
    ASSUME IInv, switch.phase = "retiring",
           NEW s, s = Transferred(sessions[Candidate])
    PROVE  /\ s \in Sessions /\ ~s.closed
           /\ s.writer \in {NoPath, s.path}
           /\ switch.kind # "open" \/ s.path \notin forsaken => s.writer = s.path
           /\ s.hist = sessions[Candidate].hist /\ s.path = switch.path
           /\ s.save = (IF switch.kind = "open" THEN "saved" ELSE "pending")
           /\ switch.kind = "open" /\ s.path \notin forsaken =>
                FileIs(files[s.path], s.hist)
  <1> DEFINE c == sessions[Candidate]
  <1>1. Prepared /\ Candidate \in 1..Len(sessions) /\ c \in Sessions
    BY Basics
  <1>2. /\ c.path = switch.path /\ ~c.closed
        /\ c.save = (IF switch.kind = "open" THEN "saved" ELSE "pending")
        /\ c.writer # switch.path => switch.kind = "open" /\ c.writer = NoPath
        /\ current # Candidate
    BY <1>1 DEF IInv, CandidateInv, Session
  <1>3. current # 0 /\ sessions[current].writer # NoPath =>
            /\ sessions[current].writer = sessions[current].path
            /\ sessions[current].writer \in Paths
    BY Basics DEF IInv, LockInv, Sessions
  <1>4. switch.kind = "open" => switch.path \in Paths
    BY Basics DEF IInv, SwitchInv, Switches
  <1>5. CASE Borrowed
    <2>1. /\ current # 0 /\ sessions[current].writer = switch.path
          /\ FileIs(files[switch.path], c.hist)
          /\ switch.kind = "open"
      BY <1>1, <1>2, <1>5 DEF IInv, BorrowInv, Borrowed
    <2>2. switch.path \in Paths /\ switch.path # NoPath
            /\ sessions[current].path = switch.path
      BY <1>3, <1>4, <2>1, Basics
    <2>3. s = [c EXCEPT !.writer = switch.path]
      BY <1>2, <2>1, <2>2 DEF Transferred, SamePath
    <2> HIDE DEF c
    <2> QED
      BY <1>1, <1>2, <2>1, <2>2, <2>3 DEF Sessions, c
  <1>6. CASE c.writer = switch.path
    <2>1. s = [c EXCEPT !.writer = switch.path] \/ s = c
      BY <1>2, <1>3 DEF Transferred, SamePath
    <2>2. s = c
      BY <1>1, <1>6, <2>1 DEF Sessions
    <2>3. switch.kind = "open" /\ c.path \notin forsaken =>
            FileIs(files[c.path], c.hist)
      BY <1>1, <1>2, <1>4, <1>6, Basics DEF IInv, SavedInv
    <2> QED
      BY <1>1, <1>2, <1>6, <2>2, <2>3
  <1>7. CASE c.writer # switch.path /\ ~Borrowed
    <2>1. c.writer = NoPath /\ switch.kind = "open" /\ switch.path \in forsaken
      BY <1>1, <1>2, <1>7 DEF Borrowed
    <2>2. s = [c EXCEPT !.writer = switch.path] \/ s = c
      BY <1>2, <1>3 DEF Transferred, SamePath
    <2>3. switch.path \in Paths
      BY <1>4, <2>1
    <2> HIDE DEF c
    <2> QED
      BY <1>1, <1>2, <2>1, <2>2, <2>3 DEF Sessions, c
  <1> QED
    BY <1>5, <1>6, <1>7

LEMMA PublishedKeeps ==
    ASSUME IInv, switch.phase = "retiring", NEW t \in Sessions,
           sessions' = [Retirees EXCEPT ![Candidate] = t],
           t.writer \in {NoPath, t.path}, t.path \notin forsaken => t.writer = t.path,
           ~t.closed, t.hist = sessions[Candidate].hist,
           t.save = "saved" /\ t.writer \notin {NoPath} \union forsaken =>
                FileIs(files'[t.writer], t.hist),
           switch' = NoSwitch, current' = Candidate,
           UNCHANGED <<closing, entries, saves, forsaken>>,
           mishaps' \in 0..MaxMishaps, DiskInv'
    PROVE  IInv'
  <1>1. Prepared /\ Candidate \in 1..Len(sessions)
    BY Basics
  <1>2. /\ Retirees \in Seq(Sessions) /\ Len(Retirees) = Len(sessions)
        /\ \A i \in 1..Len(sessions) :
             /\ i # Candidate => Retirees[i].closed /\ Retirees[i].writer = NoPath
             /\ Retirees[i].hist = sessions[i].hist
    BY <1>1, RetireesType
  <1>3. /\ sessions' \in Seq(Sessions) /\ Len(sessions') = Len(sessions)
        /\ \A i \in 1..Len(sessions) :
             sessions'[i] = IF i = Candidate THEN t ELSE Retirees[i]
    BY <1>1, <1>2, ExceptSeq
  <1>4. /\ switch'.phase = "none" /\ switch'.hist = <<>>
        /\ ~Prepared' /\ Candidate' = 0 /\ switch' \in Switches
    <2>1. <<>> \in Seq(Entries)
      BY EmptySeq
    <2> QED
      BY <2>1 DEF NoSwitch, Prepared, Candidate, Switches
  <1>5. TypeOK'
    BY <1>1, <1>3, <1>4, Basics DEF IInv, TypeOK
  <1>6. HistoryInv'
    BY <1>1, <1>2, <1>3, <1>4, Basics, EmptyHistory DEF IInv, HistoryInv
  <1>7. SavedInv'
    BY <1>2, <1>3 DEF SavedInv
  <1>8. LockInv'
    BY <1>1, <1>2, <1>3, <1>4 DEF LockInv, HoldsItsFile
  <1>9. CandidateInv' /\ DeriveInv' /\ SwitchInv' /\ BorrowInv'
    BY <1>4 DEF CandidateInv, DeriveInv, SwitchInv, BorrowInv, Borrowed
  <1> QED
    BY <1>5, <1>6, <1>7, <1>8, <1>9 DEF IInv

LEMMA PublishKeeps ==
    ASSUME IInv, Publish
    PROVE  IInv'
  <1>1. PICK s : s = Transferred(sessions[Candidate])
    OBVIOUS
  <1>2. /\ switch.phase = "retiring"
        /\ switch' = NoSwitch /\ current' = Candidate
        /\ UNCHANGED <<closing, entries, saves, forsaken>>
        /\ \/ /\ switch.kind # "derive"
              /\ sessions' = [Retirees EXCEPT ![Candidate] = s]
              /\ UNCHANGED <<mishaps, disk>>
           \/ /\ switch.kind = "derive"
              /\ Commit(Retirees, Candidate, s, s.hist)
    BY <1>1 DEF Publish, Retirees
  <1>3. /\ s \in Sessions /\ ~s.closed
        /\ s.writer \in {NoPath, s.path}
        /\ switch.kind # "open" \/ s.path \notin forsaken => s.writer = s.path
        /\ s.hist = sessions[Candidate].hist
        /\ s.save = (IF switch.kind = "open" THEN "saved" ELSE "pending")
        /\ switch.kind = "open" /\ s.path \notin forsaken =>
             FileIs(files[s.path], s.hist)
    BY <1>1, <1>2, CandidateTakesOver
  <1>4. mishaps \in 0..MaxMishaps /\ MaxMishaps \in Nat
    BY CodingSessionAssumption DEF IInv, TypeOK
  <1>5. CASE /\ switch.kind # "derive"
             /\ sessions' = [Retirees EXCEPT ![Candidate] = s]
             /\ UNCHANGED <<mishaps, disk>>
    <2>1. DiskInv'
      BY <1>2, <1>5, DiskLeft
    <2>2. s.save = "saved" /\ s.writer \notin {NoPath} \union forsaken =>
            FileIs(files'[s.writer], s.hist)
      BY <1>3, <1>5 DEF disk
    <2> QED
      BY <1>2, <1>3, <1>4, <1>5, <2>1, <2>2, PublishedKeeps
  <1>6. ASSUME switch.kind = "derive", Commit(Retirees, Candidate, s, s.hist)
        PROVE  IInv'
    <2>1. ASSUME NEW save \in {"pending", "saved", "unsaved"}
          PROVE  /\ [s EXCEPT !.save = save] \in Sessions
                 /\ [s EXCEPT !.save = save].save = save
                 /\ [s EXCEPT !.save = save].writer = s.writer
                 /\ [s EXCEPT !.save = save].path = s.path
                 /\ [s EXCEPT !.save = save].closed = s.closed
                 /\ [s EXCEPT !.save = save].hist = s.hist
      BY <1>3 DEF Sessions
    <2>2. s.save = "pending"
      BY <1>3, <1>6
    <2>3. ASSUME NEW save \in {"pending", "saved", "unsaved"},
                 sessions' = [Retirees EXCEPT ![Candidate] = [s EXCEPT !.save = save]],
                 save = "saved" => FileIs(files'[s.path], s.hist),
                 mishaps' \in 0..MaxMishaps, DiskInv'
          PROVE  IInv'
      <3>1. PICK t : t = [s EXCEPT !.save = save]
        OBVIOUS
      <3>2. /\ t \in Sessions /\ t.save = save /\ t.writer = t.path
            /\ ~t.closed /\ t.hist = sessions[Candidate].hist
            /\ t.path = s.path /\ t.hist = s.hist
        BY <1>3, <1>6, <2>1, <3>1
      <3> QED
        BY <1>2, <2>3, <3>1, <3>2, PublishedKeeps
    <2>4. CASE ~Writes(s) \/ Refused(s)
      <3>1. /\ \E save \in {"pending", "unsaved"} : sessions' =
                    [Retirees EXCEPT ![Candidate] = [s EXCEPT !.save = save]]
            /\ UNCHANGED <<mishaps, disk>>
        BY <1>6, <2>2, <2>4 DEF Commit
      <3>2. DiskInv'
        BY <1>2, <3>1, DiskLeft
      <3> QED
        BY <1>4, <2>3, <3>1, <3>2
    <2>5. CASE Writes(s) /\ ~Refused(s)
      <3>1. s.path \in Paths
        BY <1>3, <2>5 DEF Writes, Sessions
      <3>2. entries \in Nat /\ History(s.hist, entries)
              /\ s.hist \in Seq(Numbered(entries))
        BY <1>2, <1>3, Basics DEF IInv, HistoryInv, History
      <3>3. files[s.path] = NoFile /\ ToWrite(s, s.hist) = Text(s.hist)
        BY <2>2, <2>5, <3>1 DEF Refused, ToWrite, IInv, DiskInv, FileOK
      <3>4. s.path \notin forsaken => acknowledged[s.path] = <<>>
        <4>1. FileOK(NoFile, entries) /\ ~NoFile.made
          BY <3>2, EmptyHistory DEF NoFile
        <4>2. ~Readable(NoFile)
          BY <3>2, <4>1, ReadableParts
        <4> QED
          BY <3>1, <3>3, <4>2 DEF IInv, DiskInv, SavedSurvives
      <3>5. /\ Appended(NoFile, Text(s.hist)) = Whole(s.hist)
            /\ FileOK(Whole(s.hist), entries) /\ FileIs(Whole(s.hist), s.hist)
            /\ \A g \in CutShort(NoFile, Text(s.hist)) : FileOK(g, entries)
        BY <3>2, FirstWrite, WrittenWhole
      <3>6. CASE /\ sessions' = [Retirees EXCEPT ![Candidate] =
                                    [s EXCEPT !.save = "saved"]]
                 /\ files' = [files EXCEPT ![s.path] = Whole(s.hist)]
                 /\ acknowledged' = [acknowledged EXCEPT ![s.path] = s.hist]
                 /\ UNCHANGED mishaps
        <4>1. Replaced(s.path, s.hist)
          BY <3>6 DEF Replaced
        <4>2. DiskInv' /\ FileIs(files'[s.path], s.hist)
          BY <1>2, <3>1, <3>2, <4>1, ReplacedDisk
        <4> QED
          BY <1>4, <2>3, <3>6, <4>2
      <3>7. ASSUME sessions' = [Retirees EXCEPT ![Candidate] =
                                    [s EXCEPT !.save = "unsaved"]],
                   NEW cut \in CutShort(NoFile, Text(s.hist)),
                   files' = [files EXCEPT ![s.path] = cut],
                   mishaps < MaxMishaps, mishaps' = mishaps + 1,
                   UNCHANGED acknowledged
            PROVE  IInv'
        <4>1. PICK a : a = acknowledged[s.path]
          OBVIOUS
        <4>2. /\ acknowledged' = [acknowledged EXCEPT ![s.path] = a]
              /\ a \in Seq(Numbered(entries))
              /\ s.path \notin forsaken => a = <<>>
          BY <3>1, <3>4, <3>7, <4>1 DEF IInv, DiskInv
        <4>3. DiskInv'
          BY <1>2, <3>1, <3>5, <3>7, <4>2, DiskWritten
        <4>4. mishaps' \in 0..MaxMishaps
          BY <1>4, <3>7
        <4> QED
          BY <2>3, <3>7, <4>3, <4>4
      <3> QED
        BY <1>6, <2>5, <3>3, <3>5, <3>6, <3>7 DEF Commit
    <2> QED
      BY <2>4, <2>5
  <1> QED
    BY <1>2, <1>5, <1>6

(* The session that Publish makes the current one                          *)
LEMMA PublishedSession ==
    ASSUME IInv, Publish
    PROVE  /\ switch.phase = "retiring" /\ current' = Candidate
           /\ sessions'[Candidate].hist = sessions[Candidate].hist
           /\ sessions'[Candidate].path = switch.path
           /\ switch.path \notin forsaken =>
                sessions'[Candidate].writer = switch.path
  <1>1. PICK s : s = Transferred(sessions[Candidate])
    OBVIOUS
  <1>2. /\ switch.phase = "retiring" /\ current' = Candidate
        /\ \/ sessions' = [Retirees EXCEPT ![Candidate] = s]
           \/ Commit(Retirees, Candidate, s, s.hist)
    BY <1>1 DEF Publish, Retirees
  <1>3. /\ s \in Sessions /\ s.hist = sessions[Candidate].hist
        /\ s.path = switch.path
        /\ switch.path \notin forsaken => s.writer = switch.path
    BY <1>1, <1>2, CandidateTakesOver
  <1>4. \E save \in {"pending", "saved", "unsaved"} :
            sessions' = [Retirees EXCEPT ![Candidate] = [s EXCEPT !.save = save]]
    <2>1. s = [s EXCEPT !.save = s.save]
            /\ s.save \in {"pending", "saved", "unsaved"}
      BY <1>3 DEF Sessions
    <2> QED
      BY <1>2, <2>1 DEF Commit
  <1>5. PICK save \in {"pending", "saved", "unsaved"} :
            sessions' = [Retirees EXCEPT ![Candidate] = [s EXCEPT !.save = save]]
    BY <1>4
  <1>6. PICK t : t = [s EXCEPT !.save = save]
    OBVIOUS
  <1>7. t \in Sessions /\ t.hist = s.hist /\ t.path = s.path
          /\ t.writer = s.writer
    BY <1>3, <1>6 DEF Sessions
  <1>8. sessions'[Candidate] = t
    <2>1. /\ Retirees \in Seq(Sessions) /\ Candidate \in 1..Len(Retirees)
      BY <1>2, Basics, RetireesType
    <2> QED
      BY <1>5, <1>6, <1>7, <2>1, ExceptSeq
  <1> QED
    BY <1>2, <1>3, <1>7, <1>8

LEMMA HandoffKept ==
    ASSUME IInv, Publish, current # 0
    PROVE  Kept(sessions[current], sessions'[current'])
  <1> DEFINE old == sessions[current]
             new == sessions'[Candidate]
  <1>1. /\ switch.phase = "retiring" /\ current' = Candidate
        /\ new.hist = sessions[Candidate].hist /\ new.path = switch.path
        /\ switch.path \notin forsaken => new.writer = switch.path
    BY PublishedSession
  <1>2. /\ Prepared /\ current \in 1..Len(sessions)
        /\ Candidate \in 1..Len(sessions) /\ current # Candidate
    BY <1>1, Basics DEF IInv, CandidateInv
  <1>3. ASSUME switch.kind = "open", new.path = old.path,
               old.writer \notin {NoPath} \union forsaken, old.save = "saved"
        PROVE  new.hist = old.hist /\ new.writer = old.writer
    <2>1. old.writer = switch.path /\ switch.path \notin forsaken
      BY <1>1, <1>2, <1>3 DEF IInv, LockInv
    <2>2. sessions[Candidate].writer # old.writer
      BY <1>2, <1>3 DEF IInv, LockInv
    <2>3. Borrowed
      BY <1>2, <2>1, <2>2 DEF Borrowed
    <2>4. FileIs(files[switch.path], sessions[Candidate].hist)
      BY <1>1, <2>3 DEF IInv, BorrowInv
    <2>5. FileIs(files[switch.path], old.hist)
      BY <1>2, <1>3, <2>1 DEF IInv, SavedInv
    <2> QED
      BY <1>1, <2>1, <2>4, <2>5 DEF FileIs
  <1>4. ASSUME switch.kind = "derive"
        PROVE  /\ new.hist \in Ancestors(old.hist)
               /\ new.path = NoPath \/ new.path # old.path
    <2>1. /\ switch.hist \in Ancestors(switch.previous)
          /\ switch.path = NoPath \/ switch.path # old.path
          /\ old.hist = switch.previous
      BY <1>1, <1>4 DEF IInv, DeriveInv, BorrowInv
    <2>2. sessions[Candidate].hist = switch.hist
      BY <1>2, <1>4 DEF IInv, CandidateInv
    <2> QED
      BY <1>1, <2>1, <2>2
  <1> QED
    BY <1>1, <1>3, <1>4 DEF Kept, KeepsSaved

-----------------------------------------------------------------------------
(* The theorems                                                            *)

LEMMA NextKeeps ==
    ASSUME IInv, [Next]_vars
    PROVE  IInv'
  <1>1. CASE UNCHANGED vars
    <2>1. UNCHANGED <<sessions, current, switch, closing, disk, counts, forsaken>>
      BY <1>1 DEF vars
    <2> QED
      BY <2>1, NothingChanges DEF counts, IInv, TypeOK
  <1>2. ASSUME NEW i \in 1..Len(sessions),
               \/ Prompt(i)
               \/ \E kind \in {"setup", "message"} :
                     Record(i, kind) \/ CrashWriting(i, kind)
               \/ FinishActivity(i)
               \/ \E p \in Paths : Save(i, p) \/ Export(i, p)
               \/ \E p \in Paths \union {NoPath} : Rebind(i, p)
               \/ ReleaseWriter(i)
        PROVE  IInv'
    BY <1>2, PromptKeeps, RecordKeeps, CrashWritingKeeps, FinishKeeps,
       SaveKeeps, ExportKeeps, RebindKeeps, ReleaseKeeps
  <1>3. ASSUME NEW p \in Paths \union {NoPath},
               NewSession(p) \/ OpenSession(p) \/ DeriveSession(p)
        PROVE  IInv'
    BY <1>3, AskedKeeps
  <1>4. CASE PrepareNew \/ PrepareDerived \/ PrepareOpen
    BY <1>4, PrepareFileKeeps, PrepareOpenKeeps
  <1>5. CASE PreparationFails
    BY <1>5, FailureKeeps DEF PreparationFails
  <1>6. CASE HandOver \/ BeginPublish \/ Publish
    BY <1>6, HandOverKeeps, BeginPublishKeeps, PublishKeeps
  <1>7. CASE CloseSession \/ Close \/ CloseCurrent \/ Closed
    BY <1>7, CloseSessionKeeps, CloseKeeps
  <1>8. CASE \E p \in Paths : OtherAppends(p)
    BY <1>8, OtherAppendsKeeps
  <1>9. CASE Crash
    BY <1>9, CrashKeeps
  <1> QED
    BY <1>1, <1>2, <1>3, <1>4, <1>5, <1>6, <1>7, <1>8, <1>9 DEF Next

(* The invariant gives what the runs check.                                *)
LEMMA InvariantMeans ==
    ASSUME IInv
    PROVE  FilesSound
  <1>1. SavedIsComplete
    BY DEF IInv, SavedInv, SavedIsComplete, FileIs
  <1>2. LocksOwned
    <2>1. \A i \in 1..Len(sessions) : sessions[i].writer # NoPath =>
            /\ i \in {current, Candidate}
            /\ sessions[i].writer = sessions[i].path
            /\ \A j \in 1..Len(sessions) :
                 sessions[j].writer = sessions[i].writer => i = j
      BY DEF IInv, LockInv
    <2> QED
      BY <2>1 DEF IInv, LockInv, LocksOwned
  <1> QED
    BY <1>1, <1>2 DEF IInv, DiskInv, FilesSound, SavedWhole

(* What was written to a file with success is read back whole, in spite of *)
(* failed writes, lost processes and other processes; a manager that says  *)
(* "saved" and has its file has the whole history there; and a file has    *)
(* one writer, the open session bound to it: for every number of paths,    *)
(* sessions, entries, saves and faults.  Of a file that the current        *)
(* session gave up, or rewrote, while a candidate for it was prepared, it   *)
(* says that it has at most one writer (SessionManager, WriterLock,        *)
(* AgentSessionRuntime).                                                   *)
THEOREM FilesAreSound == Spec => []FilesSound
  <1>1. Init => IInv
    BY InitIInv
  <1>2. IInv /\ [Next]_vars => IInv'
    BY NextKeeps
  <1>3. IInv => FilesSound
    BY InvariantMeans
  <1> QED
    BY <1>1, <1>2, <1>3, PTL DEF Spec

(* Opening the current session's own file again loses none of its saved    *)
(* records and takes its lock over, although the candidate is prepared     *)
(* while the current session goes on recording, unless that session gave   *)
(* the file up or rewrote it meanwhile; and what was derived from the      *)
(* current session is an ancestor of its history at publication, in a file *)
(* of its own (AgentSessionRuntime._publish).                              *)
THEOREM HandoffIsKept == Spec => HandoffKeepsHistory
  <1>1. Init => IInv
    BY InitIInv
  <1>2. IInv /\ [Next]_vars => IInv'
    BY NextKeeps
  <1>3. IInv /\ [Next]_vars =>
            [HandsOver => Kept(sessions[current], sessions'[current'])]_vars
    <2> SUFFICES ASSUME IInv, [Next]_vars, HandsOver
                 PROVE  Kept(sessions[current], sessions'[current'])
      OBVIOUS
    <2>1. current # 0 /\ current' # current /\ current' # 0
      BY DEF HandsOver
    <2>2. ASSUME NEW i \in 1..Len(sessions),
                 \/ Prompt(i) \/ FinishActivity(i) \/ ReleaseWriter(i)
                 \/ \E kind \in {"setup", "message"} : Record(i, kind)
                 \/ \E p \in Paths : Save(i, p) \/ Export(i, p)
                 \/ \E p \in Paths \union {NoPath} : Rebind(i, p)
          PROVE  current' = current
      BY <2>2 DEF Prompt, FinishActivity, ReleaseWriter, Record, Save, Export,
                  Rebind
    <2>3. ASSUME \/ \E p \in Paths \union {NoPath} :
                       NewSession(p) \/ OpenSession(p) \/ DeriveSession(p)
                 \/ \E p \in Paths : OtherAppends(p)
          PROVE  current' = current
      BY <2>3 DEF NewSession, OpenSession, DeriveSession, Admitted, OtherAppends
    <2>4. ASSUME \/ PrepareNew \/ PrepareDerived \/ PrepareOpen
                 \/ PreparationFails \/ HandOver \/ BeginPublish
                 \/ CloseSession \/ Close \/ CloseCurrent \/ Closed
          PROVE  current' = current
      BY <2>4 DEF PrepareNew, PrepareDerived, PrepareFile, PrepareOpen,
                  PreparationFails, HandOver, BeginPublish, CloseSession, Close,
                  CloseCurrent, Closed
    <2>5. ProcessLost => current' = 0
      BY DEF ProcessLost
    <2>6. Publish
      BY <2>1, <2>2, <2>3, <2>4, <2>5 DEF Next, vars, Crash, CrashWriting
    <2> QED
      BY <2>1, <2>6, HandoffKept
  <1> QED
    BY <1>1, <1>2, <1>3, PTL DEF Spec, HandoffKeepsHistory


-----------------------------------------------------------------------------
(* The invariant of the screen                                             *)

DraftTypes ==
    /\ editor \subseteq Texts \union {Slash}
    /\ cleared \subseteq Texts \union {Slash}
    /\ draft \subseteq Images /\ source \subseteq Texts \union {Slash}
    /\ stored \in [Convs -> Drafts]
    /\ queuedImages \subseteq Images
    /\ attach \in Images \union {None}

FlagTypes ==
    /\ overlay \in Selectors \union {"none"}
    /\ confirm \in BOOLEAN /\ busy \in BOOLEAN /\ external \in BOOLEAN
    /\ exit \in {"none", "requested", "joining", "waiting", "closing", "done"}

TaskTypes ==
    /\ prompt \in [at : {"none", "created", "waiting", "ended"},
                   text : SUBSET Texts, images : SUBSET Images, grown : BOOLEAN]
    /\ manage \in [at : {"none", "created", "trust", "waiting"},
                   kind : {"none", "new", "clone", "resume", "fork", "compact",
                           "save", "export"},
                   target : Convs \union {None}, copy : SUBSET Messages,
                   cancelling : BOOLEAN]
    /\ shell \in [at : {"none", "running", "aborting", "recording"},
                  text : SUBSET Texts]

AgentTypes ==
    agent \in [at : {"idle", "opening", "running", "recording", "recorded",
                     "manual"},
               signal : BOOLEAN, queue : SUBSET Messages,
               customs : SUBSET Texts]

SessionTypes ==
    /\ shown \in known /\ known \subseteq Convs
    /\ owner \in [Items -> SUBSET Convs]
    /\ history \in [Convs -> SUBSET Messages]
    /\ unsaved \in [Convs -> SUBSET Messages]
    /\ backups \in [Convs -> SUBSET SUBSET Messages]

(* Where an item is: in a queued input, in a history, with a draft, with a *)
(* task.                                                                   *)
InQueue(i) == \E m \in agent.queue : i \in m.text \/ i \in m.images
InHistory(i) == \E c \in Convs : \E m \in history[c] : i \in m.text \/ i \in m.images
Aside(i) ==
    \/ i \in cleared \/ i \in draft \/ i \in source
    \/ (attach # None /\ i = attach)
    \/ InQueue(i)
    \/ \E c \in Convs : i \in stored[c].text \/ i \in stored[c].images
WithTask(i) ==
    i \in agent.customs \/ i \in shell.text \/ i \in prompt.text \/ i \in prompt.images

(* Who has what: a task that is over has nothing, a run belongs to the      *)
(* prompt that started it, a record to the shell.                           *)
TasksInv ==
    /\ prompt.at \in {"none", "ended"} \/ agent.at = "running" =>
          prompt.text = {} /\ prompt.images = {}
    /\ prompt.at # "none" => busy
    /\ prompt.at = "waiting" <=> agent.at \in {"opening", "running"}
    /\ shell.at = "none" => shell.text = {}
    /\ agent.at \in {"recording", "recorded"} => shell.at = "recording"
    /\ agent.at = "recorded" => \A i \in shell.text : InHistory(i)
    /\ agent.customs # {} => agent.at \in {"opening", "running"}

Replacing == manage.at # "none" /\ manage.kind \notin {"compact", "save", "export"}

(* While a conversation is replaced nothing else is under way.              *)
ReplaceInv ==
    /\ manage.at # "none" => manage.kind # "none" /\ manage.target \in Convs
    /\ manage.at # "none" /\ manage.kind = "compact" => prompt.at = "none"
    /\ source # {} => manage.at \in {"trust", "waiting"} /\ Replacing
    /\ Replacing =>
          /\ prompt.at = "none" /\ agent.at = "idle" /\ shell.at = "none"
          /\ attach = None
          /\ manage.kind \in {"new", "clone", "fork"} => manage.target \notin known
          /\ IF manage.kind = "fork"
             THEN \E m \in history[shown] : manage.copy = {m}
             ELSE manage.copy = {}
          /\ manage.at # "created" => agent.queue = {}

(* Nothing is stored for the current conversation, or for an unused one.    *)
KnownInv ==
    /\ stored[shown] = EmptyDraft
    /\ \A c \in Convs \ known : stored[c] = EmptyDraft /\ history[c] = {}

(* An image that waits in the queue comes back with its text.               *)
QueuedInv == \A i \in Images : InQueue(i) => i \in queuedImages

(* What is not submitted, or may come back, was typed in this conversation. *)
HomeInv ==
    \A i \in Items :
        /\ \/ i \in editor \/ i \in cleared \/ i \in draft \/ i \in source
           \/ InQueue(i) \/ (attach # None /\ i = attach)
           \/ i \in prompt.text \/ i \in prompt.images
           => shown \in owner[i]
        /\ \A c \in Convs :
              i \in stored[c].text \/ i \in stored[c].images => c \in owner[i]

(* What nobody needs to keep any more                                       *)
Gone(i) == i \in given \/ i \in slips \/ InHistory(i)

(* After an exit was requested nothing is left to submit, and at its end    *)
(* nothing at all.                                                          *)
PlaceInv ==
    \A i \in Items :
        /\ exit # "done" /\ owner[i] # {} =>
              Gone(i) \/ i \in editor \/ Aside(i) \/ WithTask(i)
        /\ exit # "none" /\ (i \in editor \/ Aside(i)) => Gone(i)
        /\ exit = "done" /\ owner[i] # {} => Gone(i)

Covered ==
    discard \/ \A c \in Convs : \/ AllOf(unsaved[c]) = {}
                                 \/ history[c] \in backups[c]

(* What the way out has waited for                                          *)
ExitInv ==
    /\ exit \in {"waiting", "closing", "done"} => manage.at = "none"
    /\ exit \in {"closing", "done"} =>
          prompt.at = "none" /\ shell.at = "none" /\ Covered
    /\ exit = "done" => agent.at = "idle"

ScreenInv ==
    /\ DraftTypes /\ FlagTypes /\ TaskTypes /\ AgentTypes /\ SessionTypes
    /\ TasksInv /\ ReplaceInv /\ KnownInv /\ QueuedInv
    /\ HomeInv /\ PlaceInv /\ ExitInv

-----------------------------------------------------------------------------
(* The sets of the screen, item by item                                    *)

LEMMA QueuedItems == \A i : i \in Queued <=> InQueue(i)
BY DEF Queued, AllOf, Contents, InQueue

LEMMA WaitingItems ==
    \A text, i : i \in Unsubmitted(text) <=> i \in text \/ Aside(i)
BY DEF Unsubmitted, Queued, AllOf, Contents, InQueue, Aside

LEMMA HistoryItems == \A i : i \in InHistories <=> InHistory(i)
BY DEF InHistories, AllOf, Contents, InHistory

(* A run that flushes its records adds them to the history and nothing     *)
(* else.                                                                   *)
LEMMA RecordsJoin ==
    ASSUME SessionTypes, history' = [history EXCEPT ![shown] = WithRecords(@)]
    PROVE  \A i : (InHistory(i))' <=> InHistory(i) \/ i \in agent.customs
<1>1. shown \in Convs /\ history \in [Convs -> SUBSET Messages]
  BY DEF SessionTypes
<1>2. \A c \in Convs \ {shown} : history'[c] = history[c]
  BY <1>1
<1>3. \A m : m \in history'[shown] <=>
          \/ m \in history[shown]
          \/ (agent.customs # {} /\ m = Message(agent.customs, {}))
  BY <1>1 DEF WithRecords
<1>4. ASSUME NEW i, i \in agent.customs PROVE (InHistory(i))'
  <2>1. Message(agent.customs, {}) \in history'[shown]
    BY <1>3, <1>4
  <2>2. Message(agent.customs, {}).text = agent.customs
    BY DEF Message
  <2> QED BY <1>1, <1>4, <2>1, <2>2 DEF InHistory
<1>5. ASSUME NEW i, InHistory(i) PROVE (InHistory(i))'
  BY <1>1, <1>2, <1>3, <1>5 DEF InHistory
<1>6. ASSUME NEW i, (InHistory(i))', ~ InHistory(i) PROVE i \in agent.customs
  BY <1>1, <1>2, <1>3, <1>6 DEF InHistory, Message
<1> QED BY <1>4, <1>5, <1>6

(* What a replacement starts from                                          *)
LEMMA ReplacementTasks ==
    ASSUME SessionTypes, NEW t \in Replacements \union Forks
    PROVE  /\ t \in [at : {"none", "created", "trust", "waiting"},
                     kind : {"none", "new", "clone", "resume", "fork",
                             "compact", "save", "export"},
                     target : Convs \union {None}, copy : SUBSET Messages,
                     cancelling : BOOLEAN]
           /\ t.at = "created" /\ t.target \in Convs
           /\ t.kind \in {"new", "clone", "resume", "fork"}
           /\ t.kind \in {"new", "clone", "fork"} => t.target \notin known
           /\ IF t.kind = "fork" THEN \E m \in history[shown] : t.copy = {m}
              ELSE t.copy = {}
<1>1. /\ shown \in Convs /\ known \subseteq Convs
      /\ history[shown] \subseteq Messages
  BY DEF SessionTypes
<1>2. CASE t \in Forks
  <2>1. PICK c \in Convs \ known, m \in history[shown] : t = Task("fork", c, {m})
    BY <1>2 DEF Forks
  <2>2. {m} \in SUBSET Messages
    BY <1>1
  <2> QED BY <2>1, <2>2 DEF Task
<1>3. CASE t \in Replacements
  <2>1. PICK c \in Convs, kind \in {"new", "clone", "resume"} :
            t = Task(kind, c, {}) /\ (kind # "resume" => c \notin known)
    BY <1>1, <1>3 DEF Replacements
  <2> QED BY <2>1 DEF Task
<1> QED BY <1>2, <1>3

-----------------------------------------------------------------------------
(* What every step keeps.  A lemma has a step for each action that writes  *)
(* to a variable of its part; the other actions leave the part alone.      *)
LEMMA DraftTypesKept ==
    ASSUME DraftTypes, FlagTypes, TaskTypes, AgentTypes, SessionTypes,
           ReplaceInv, [ScreenNext]_allVars
    PROVE  DraftTypes'
<1> USE DEF draftVars, exitVars, ghostVars, sessionVars, taskVars
<1>1. ASSUME NEW t \in Texts, Type(t) PROVE DraftTypes'
  BY <1>1 DEF DraftTypes, Forgets, Type
<1>2. ASSUME TypeSlash PROVE DraftTypes'
  BY <1>2 DEF DraftTypes, TypeSlash
<1>3. ASSUME CtrlC PROVE DraftTypes'
  BY <1>3 DEF CtrlC, DraftTypes
<1>4. ASSUME ExternalReturns PROVE DraftTypes'
  BY <1>4 DEF DraftTypes, ExternalReturns, Forgets
<1>5. ASSUME NEW i \in Images, StartAttachment(i) PROVE DraftTypes'
  BY <1>5 DEF DraftTypes, StartAttachment
<1>6. ASSUME AttachmentEnds PROVE DraftTypes'
  BY <1>6 DEF AttachmentEnds, DraftTypes
<1>7. ASSUME ClearAttachments PROVE DraftTypes'
  BY <1>7 DEF ClearAttachments, DraftTypes
<1>8. ASSUME Submit PROVE DraftTypes'
  BY <1>8 DEF DraftTypes, Forgets, Submit
<1>9. ASSUME SubmitRefused PROVE DraftTypes'
  BY <1>9 DEF DraftTypes, Forgets, SubmitRefused
<1>10. ASSUME QueueInput PROVE DraftTypes'
  BY <1>10 DEF DraftTypes, Forgets, QueueInput
<1>11. ASSUME PromptStarts PROVE DraftTypes'
  BY <1>11 DEF DraftTypes, Forgets, Joined, PromptStarts, RestoreRejected,
         TaskTypes
<1>12. ASSUME AltUp PROVE DraftTypes'
  BY <1>12 DEF AltUp, DraftTypes, Forgets, Joined, Recall, Recalled,
         TakeQueuedImages
<1>13. ASSUME StartShell PROVE DraftTypes'
  BY <1>13 DEF DraftTypes, Forgets, StartShell
<1>14. ASSUME StartReplacement PROVE DraftTypes'
  BY <1>14 DEF DraftTypes, StartReplacement
<1>15. ASSUME StartCompact PROVE DraftTypes'
  BY <1>15 DEF DraftTypes, StartCompact
<1>16. ASSUME NEW kind \in {"save", "export"}, NEW c \in Convs, StartSave(kind, c) PROVE DraftTypes'
  BY <1>16 DEF DraftTypes, StartSave
<1>17. ASSUME NEW kind \in Selectors, OpenSelector(kind) PROVE DraftTypes'
  BY <1>17 DEF DraftTypes, OpenSelector
<1>18. ASSUME NEW kind \in Selectors, LeaveSelector(kind) PROVE DraftTypes'
  BY <1>18 DEF DraftTypes, LeaveSelector
<1>19. ASSUME NEW kind \in Selectors, ChooseInSelector(kind) PROVE DraftTypes'
  BY <1>19 DEF ChooseInSelector, DraftTypes
<1>20. ASSUME ReplacementPrepares PROVE DraftTypes'
  BY <1>20 DEF DraftTypes, Joined, Recalled, ReplacementPrepares, SetAside,
         TakeQueuedImages
<1>21. ASSUME ReplacementFails PROVE DraftTypes'
  BY <1>21 DEF DraftTypes, Joined, ReplacementFails, SourceText, SwitchOver
<1>22. ASSUME ReplacementPublished PROVE DraftTypes'
  <2> DEFINE c == manage.target
             state == IF manage.kind = "fork" THEN CHOOSE m \in manage.copy : TRUE
                      ELSE stored[c]
  <2>1. /\ cleared' = {} /\ source' = {} /\ queuedImages' = {}
        /\ attach' = attach /\ c \in Convs /\ shown \in Convs
    BY <1>22 DEF ReplacementPublished, SwitchOver, ReplaceInv, Replacing, SessionTypes
  <2>2. SourceText \subseteq Texts \union {Slash}
    BY DEF SourceText, Joined, DraftTypes
  <2>3. CASE c = shown
    BY <1>22, <2>1, <2>2, <2>3 DEF ReplacementPublished, DraftTypes
  <2>4. CASE c # shown
    <3>1. /\ editor' = state.text /\ draft' = state.images
          /\ stored' = [stored EXCEPT ![shown] = Message(SourceText, draft),
                                      ![c] = EmptyDraft]
      BY <1>22, <2>4 DEF ReplacementPublished, SwitchDrafts
    <3>2. state \in Drafts
      <4>1. CASE manage.kind = "fork"
        <5>1. state \in manage.copy
          BY <1>22, <4>1 DEF ReplacementPublished, ReplaceInv, Replacing
        <5> QED BY <5>1 DEF TaskTypes, Messages, Drafts
      <4>2. CASE manage.kind # "fork"
        BY <2>1, <4>2 DEF DraftTypes
      <4> QED BY <4>1, <4>2
    <3>3. Message(SourceText, draft) \in Drafts /\ EmptyDraft \in Drafts
      BY <2>2 DEF Drafts, EmptyDraft, Message, DraftTypes
    <3>4. stored' \in [Convs -> Drafts]
      BY <3>1, <3>3 DEF DraftTypes
    <3> HIDE DEF state
    <3> QED BY <2>1, <3>1, <3>2, <3>4 DEF DraftTypes, Drafts
  <2> QED BY <2>3, <2>4
<1>23. ASSUME EscapeWork PROVE DraftTypes'
  BY <1>23 DEF DraftTypes, EscapeWork, Forgets, Joined, Recall, Recalled,
         TakeQueuedImages
<1>24. ASSUME RequestExit PROVE DraftTypes'
  BY <1>24 DEF DraftTypes, RequestExit
<1>25. ASSUME SelectorExit PROVE DraftTypes'
  BY <1>25 DEF DraftTypes, SelectorExit
<1>26. ASSUME ConfirmExit PROVE DraftTypes'
  BY <1>26 DEF ConfirmExit, DraftTypes, Drafts, EmptyDraft, Message
<1>27. ASSUME KeepEditing PROVE DraftTypes'
  BY <1>27 DEF DraftTypes, KeepEditing
<1>28. ASSUME ShutdownStarts PROVE DraftTypes'
  BY <1>28 DEF DraftTypes, ShutdownStarts
<1>29. ASSUME ShutdownAborts PROVE DraftTypes'
  BY <1>29 DEF DraftTypes, ShutdownAborts
<1>30. ASSUME UNCHANGED <<editor, cleared, draft, stored, source,
       queuedImages, attach>> PROVE DraftTypes'
  BY <1>30 DEF DraftTypes
<1> QED
  BY <1>1, <1>2, <1>3, <1>4, <1>5, <1>6, <1>7, <1>8, <1>9, <1>10, <1>11,
         <1>12, <1>13, <1>14, <1>15, <1>16, <1>17, <1>18, <1>19, <1>20, <1>21,
         <1>22, <1>23, <1>24, <1>25, <1>26, <1>27, <1>28, <1>29, <1>30 DEF
         AgentSteps, BoundedKeys, CompactSettles, CompactStarts, Drain,
         EscapeCompaction, EscapeManagement, FreeKeys, Keys, ManualEnds,
         OpenExternal, PromptCommitted, PromptDropped, PromptSettles,
         RecordCommitted, RecordSettles, ReplacementRefused, RunEnds,
         RuntimeCloses, SaveEnds, SaveHolds, ScreenNext, ScreenTasks,
         Selectors, ShellEnds, Shutdown, ShutdownSaves, SignalExit, Tasks,
         TrustAnswered, TrustExit, allVars, screenVars

LEMMA FlagTypesKept ==
    ASSUME FlagTypes, [ScreenNext]_allVars
    PROVE  FlagTypes'
<1> USE DEF draftVars, exitVars, ghostVars, sessionVars, taskVars
<1>1. ASSUME OpenExternal PROVE FlagTypes'
  BY <1>1 DEF FlagTypes, OpenExternal
<1>2. ASSUME ExternalReturns PROVE FlagTypes'
  BY <1>2 DEF ExternalReturns, FlagTypes
<1>3. ASSUME Submit PROVE FlagTypes'
  BY <1>3 DEF FlagTypes, Submit
<1>4. ASSUME PromptStarts PROVE FlagTypes'
  BY <1>4 DEF FlagTypes, PromptStarts
<1>5. ASSUME PromptSettles PROVE FlagTypes'
  BY <1>5 DEF FlagTypes, PromptSettles
<1>6. ASSUME StartReplacement PROVE FlagTypes'
  BY <1>6 DEF FlagTypes, StartReplacement
<1>7. ASSUME StartCompact PROVE FlagTypes'
  BY <1>7 DEF FlagTypes, StartCompact
<1>8. ASSUME NEW kind \in Selectors, OpenSelector(kind) PROVE FlagTypes'
  BY <1>8 DEF FlagTypes, OpenSelector
<1>9. ASSUME NEW kind \in Selectors, LeaveSelector(kind) PROVE FlagTypes'
  BY <1>9 DEF FlagTypes, LeaveSelector
<1>10. ASSUME NEW kind \in Selectors, ChooseInSelector(kind) PROVE FlagTypes'
  BY <1>10 DEF ChooseInSelector, FlagTypes
<1>11. ASSUME ReplacementRefused PROVE FlagTypes'
  BY <1>11 DEF FlagTypes, ReplacementRefused
<1>12. ASSUME ReplacementFails PROVE FlagTypes'
  BY <1>12 DEF FlagTypes, ReplacementFails, SwitchOver
<1>13. ASSUME ReplacementPublished PROVE FlagTypes'
  BY <1>13 DEF FlagTypes, ReplacementPublished, SwitchOver
<1>14. ASSUME CompactSettles PROVE FlagTypes'
  BY <1>14 DEF CompactSettles, FlagTypes
<1>15. ASSUME RequestExit PROVE FlagTypes'
  BY <1>15 DEF AskOrExit, FlagTypes, RequestExit
<1>16. ASSUME SelectorExit PROVE FlagTypes'
  BY <1>16 DEF AskOrExit, FlagTypes, SelectorExit
<1>17. ASSUME TrustExit PROVE FlagTypes'
  BY <1>17 DEF FlagTypes, TrustExit
<1>18. ASSUME SignalExit PROVE FlagTypes'
  BY <1>18 DEF FlagTypes, SignalExit
<1>19. ASSUME ConfirmExit PROVE FlagTypes'
  BY <1>19 DEF ConfirmExit, FlagTypes
<1>20. ASSUME KeepEditing PROVE FlagTypes'
  BY <1>20 DEF FlagTypes, KeepEditing
<1>21. ASSUME ShutdownStarts PROVE FlagTypes'
  BY <1>21 DEF FlagTypes, ShutdownStarts
<1>22. ASSUME ShutdownAborts PROVE FlagTypes'
  BY <1>22 DEF FlagTypes, ShutdownAborts
<1>23. ASSUME ShutdownSaves PROVE FlagTypes'
  BY <1>23 DEF FlagTypes, ShutdownSaves
<1>24. ASSUME RuntimeCloses PROVE FlagTypes'
  BY <1>24 DEF FlagTypes, RuntimeCloses
<1>25. ASSUME UNCHANGED <<overlay, confirm, busy, external, exit>> PROVE
       FlagTypes'
  BY <1>25 DEF FlagTypes
<1> QED
  BY <1>1, <1>2, <1>3, <1>4, <1>5, <1>6, <1>7, <1>8, <1>9, <1>10, <1>11,
         <1>12, <1>13, <1>14, <1>15, <1>16, <1>17, <1>18, <1>19, <1>20, <1>21,
         <1>22, <1>23, <1>24, <1>25 DEF AgentSteps, AltUp, AttachmentEnds,
         BoundedKeys, ClearAttachments, CompactStarts, CtrlC, Drain,
         EscapeCompaction, EscapeManagement, EscapeWork, FreeKeys, Keys,
         ManualEnds, PromptCommitted, PromptDropped, QueueInput,
         RecordCommitted, RecordSettles, ReplacementPrepares, RunEnds,
         SaveEnds, SaveHolds, ScreenNext, ScreenTasks, Selectors, ShellEnds,
         Shutdown, StartAttachment, StartSave, StartShell, SubmitRefused,
         Tasks, TrustAnswered, Type, TypeSlash, allVars, screenVars

LEMMA TaskTypesKept ==
    ASSUME TaskTypes, SessionTypes, DraftTypes, [ScreenNext]_allVars
    PROVE  TaskTypes'
<1> USE DEF draftVars, exitVars, ghostVars, sessionVars, taskVars
<1>1. ASSUME Submit PROVE TaskTypes'
  BY <1>1 DEF DraftTypes, Submit, TaskTypes
<1>2. ASSUME PromptStarts PROVE TaskTypes'
  <2>1. prompt' = [prompt EXCEPT !.at = "waiting"] \/ prompt' = NoPrompt
    BY <1>2 DEF PromptStarts
  <2>2. UNCHANGED <<manage, shell>>
    BY <1>2 DEF PromptStarts
  <2>3. CASE prompt' = [prompt EXCEPT !.at = "waiting"]
    BY <2>2, <2>3 DEF TaskTypes
  <2>4. CASE prompt' = NoPrompt
    BY <2>2, <2>4 DEF TaskTypes, NoPrompt
  <2> QED BY <2>1, <2>3, <2>4
<1>3. ASSUME PromptSettles PROVE TaskTypes'
  BY <1>3 DEF NoPrompt, PromptSettles, TaskTypes
<1>4. ASSUME StartShell PROVE TaskTypes'
  BY <1>4 DEF DraftTypes, StartShell, TaskTypes
<1>5. ASSUME ShellEnds PROVE TaskTypes'
  BY <1>5 DEF NoShell, ShellEnds, TaskTypes
<1>6. ASSUME RecordCommitted PROVE TaskTypes'
  BY <1>6 DEF Committed, RecordCommitted, TaskTypes
<1>7. ASSUME RecordSettles PROVE TaskTypes'
  BY <1>7 DEF NoShell, RecordSettles, TaskTypes
<1>8. ASSUME PromptCommitted PROVE TaskTypes'
  BY <1>8 DEF DraftTypes, Message, Messages, NoPrompt, PromptCommitted, Reply,
         SessionTypes, SessionUnsaved, Settled, TaskTypes, Unsaved,
         WithRecords
<1>9. ASSUME PromptDropped PROVE TaskTypes'
  BY <1>9 DEF NoPrompt, PromptDropped, TaskTypes
<1>10. ASSUME RunEnds PROVE TaskTypes'
  BY <1>10 DEF NoPrompt, RunEnds, TaskTypes
<1>11. ASSUME StartReplacement PROVE TaskTypes'
  <2>1. manage' \in Replacements \union Forks
    BY <1>11 DEF StartReplacement
  <2>2. UNCHANGED <<prompt, shell>>
    BY <1>11 DEF StartReplacement
  <2> QED BY <2>1, <2>2, ReplacementTasks DEF TaskTypes
<1>12. ASSUME StartCompact PROVE TaskTypes'
  BY <1>12 DEF SessionTypes, StartCompact, Task, TaskTypes
<1>13. ASSUME NEW kind \in {"save", "export"}, NEW c \in Convs, StartSave(kind, c) PROVE TaskTypes'
  BY <1>13 DEF StartSave, Task, TaskTypes
<1>14. ASSUME NEW kind \in Selectors, ChooseInSelector(kind) PROVE TaskTypes'
  <2>1. manage' \in Replacements \union Forks
    BY <1>14 DEF ChooseInSelector
  <2>2. UNCHANGED <<prompt, shell>>
    BY <1>14 DEF ChooseInSelector
  <2> QED BY <2>1, <2>2, ReplacementTasks DEF TaskTypes
<1>15. ASSUME ReplacementPrepares PROVE TaskTypes'
  BY <1>15 DEF ReplacementPrepares, TaskTypes
<1>16. ASSUME ReplacementRefused PROVE TaskTypes'
  BY <1>16 DEF NoTask, ReplacementRefused, TaskTypes
<1>17. ASSUME TrustAnswered PROVE TaskTypes'
  BY <1>17 DEF TaskTypes, TrustAnswered
<1>18. ASSUME ReplacementFails PROVE TaskTypes'
  BY <1>18 DEF NoTask, ReplacementFails, SwitchOver, TaskTypes
<1>19. ASSUME ReplacementPublished PROVE TaskTypes'
  BY <1>19 DEF NoTask, ReplacementPublished, SwitchOver, TaskTypes
<1>20. ASSUME CompactStarts PROVE TaskTypes'
  BY <1>20 DEF CompactStarts, TaskTypes
<1>21. ASSUME CompactSettles PROVE TaskTypes'
  BY <1>21 DEF CompactSettles, NoTask, TaskTypes
<1>22. ASSUME SaveEnds PROVE TaskTypes'
  BY <1>22 DEF NoTask, SaveEnds, TaskTypes
<1>23. ASSUME EscapeManagement PROVE TaskTypes'
  <2>1. manage' = NoTask \/ manage' = [manage EXCEPT !.cancelling = TRUE]
    BY <1>23 DEF EscapeManagement, CancelManagement
  <2>2. UNCHANGED <<prompt, shell>>
    BY <1>23 DEF EscapeManagement
  <2>3. CASE manage' = NoTask
    BY <2>2, <2>3 DEF TaskTypes, NoTask
  <2>4. CASE manage' = [manage EXCEPT !.cancelling = TRUE]
    BY <2>2, <2>4 DEF TaskTypes
  <2> QED BY <2>1, <2>3, <2>4
<1>24. ASSUME EscapeWork PROVE TaskTypes'
  BY <1>24 DEF EscapeWork, TaskTypes
<1>25. ASSUME ShutdownStarts PROVE TaskTypes'
  BY <1>25 DEF Cancelled, ShutdownStarts, TaskTypes
<1>26. ASSUME ShutdownAborts PROVE TaskTypes'
  BY <1>26 DEF ShutdownAborts, TaskTypes
<1>27. ASSUME UNCHANGED <<prompt, manage, shell>> PROVE TaskTypes'
  BY <1>27 DEF TaskTypes
<1> QED
  BY <1>1, <1>2, <1>3, <1>4, <1>5, <1>6, <1>7, <1>8, <1>9, <1>10, <1>11,
         <1>12, <1>13, <1>14, <1>15, <1>16, <1>17, <1>18, <1>19, <1>20, <1>21,
         <1>22, <1>23, <1>24, <1>25, <1>26, <1>27 DEF AgentSteps, AltUp,
         AskOrExit, AttachmentEnds, BoundedKeys, ClearAttachments,
         ConfirmExit, CtrlC, Drain, EscapeCompaction, ExternalReturns,
         FreeKeys, KeepEditing, Keys, LeaveSelector, ManualEnds, OpenExternal,
         OpenSelector, QueueInput, RequestExit, RuntimeCloses, SaveHolds,
         ScreenNext, ScreenTasks, SelectorExit, Selectors, Shutdown,
         ShutdownSaves, SignalExit, StartAttachment, SubmitRefused, Tasks,
         TrustExit, Type, TypeSlash, allVars, screenVars

LEMMA AgentTypesKept ==
    ASSUME AgentTypes, DraftTypes, TaskTypes, [ScreenNext]_allVars
    PROVE  AgentTypes'
<1> USE DEF draftVars, exitVars, ghostVars, sessionVars, taskVars
<1>1. ASSUME QueueInput PROVE AgentTypes'
  BY <1>1 DEF AgentTypes, DraftTypes, Message, Messages, QueueInput
<1>2. ASSUME PromptStarts PROVE AgentTypes'
  BY <1>2 DEF AgentTypes, PromptStarts
<1>3. ASSUME AltUp PROVE AgentTypes'
  BY <1>3 DEF AgentTypes, AltUp
<1>4. ASSUME ShellEnds PROVE AgentTypes'
  <2>1. agent.customs \union shell.text \subseteq Texts
    BY DEF AgentTypes, TaskTypes
  <2>2. CASE agent' = [agent EXCEPT !.at = "recording", !.signal = FALSE]
    BY <2>2 DEF AgentTypes
  <2>3. CASE agent' = [agent EXCEPT !.customs = @ \union shell.text]
    BY <2>1, <2>3 DEF AgentTypes
  <2> QED BY <1>4, <2>2, <2>3 DEF ShellEnds
<1>5. ASSUME RecordCommitted PROVE AgentTypes'
  BY <1>5 DEF AgentTypes, RecordCommitted
<1>6. ASSUME RecordSettles PROVE AgentTypes'
  BY <1>6 DEF AgentTypes, RecordSettles
<1>7. ASSUME PromptCommitted PROVE AgentTypes'
  BY <1>7 DEF AgentTypes, PromptCommitted, Settled
<1>8. ASSUME PromptDropped PROVE AgentTypes'
  BY <1>8 DEF AgentTypes, PromptDropped, Settled
<1>9. ASSUME NEW m \in Messages, Drain(m) PROVE AgentTypes'
  BY <1>9 DEF AgentTypes, Drain
<1>10. ASSUME RunEnds PROVE AgentTypes'
  BY <1>10 DEF AgentTypes, RunEnds, Settled
<1>11. ASSUME ReplacementPrepares PROVE AgentTypes'
  BY <1>11 DEF AgentTypes, ReplacementPrepares
<1>12. ASSUME ReplacementPublished PROVE AgentTypes'
  BY <1>12 DEF AgentTypes, IdleAgent, ReplacementPublished
<1>13. ASSUME CompactStarts PROVE AgentTypes'
  BY <1>13 DEF AgentTypes, CompactStarts
<1>14. ASSUME ManualEnds PROVE AgentTypes'
  BY <1>14 DEF AgentTypes, ManualEnds, Settled
<1>15. ASSUME EscapeCompaction PROVE AgentTypes'
  BY <1>15 DEF AgentTypes, EscapeCompaction
<1>16. ASSUME EscapeWork PROVE AgentTypes'
  BY <1>16 DEF AgentTypes, EscapeWork
<1>17. ASSUME ConfirmExit PROVE AgentTypes'
  BY <1>17 DEF AgentTypes, ConfirmExit
<1>18. ASSUME ShutdownAborts PROVE AgentTypes'
  BY <1>18 DEF AgentTypes, ShutdownAborts
<1>19. ASSUME RuntimeCloses PROVE AgentTypes'
  BY <1>19 DEF AgentTypes, RuntimeCloses
<1>20. ASSUME UNCHANGED agent PROVE AgentTypes'
  BY <1>20 DEF AgentTypes
<1> QED
  BY <1>1, <1>2, <1>3, <1>4, <1>5, <1>6, <1>7, <1>8, <1>9, <1>10, <1>11,
         <1>12, <1>13, <1>14, <1>15, <1>16, <1>17, <1>18, <1>19, <1>20 DEF
         AgentSteps, AskOrExit, AttachmentEnds, BoundedKeys, ChooseInSelector,
         ClearAttachments, CompactSettles, CtrlC, EscapeManagement,
         ExternalReturns, FreeKeys, KeepEditing, Keys, LeaveSelector,
         OpenExternal, OpenSelector, PromptSettles, ReplacementFails,
         ReplacementRefused, RequestExit, SaveEnds, ScreenNext, ScreenTasks,
         SelectorExit, Selectors, Shutdown, ShutdownSaves, ShutdownStarts,
         SignalExit, StartAttachment, StartCompact, StartReplacement,
         StartSave, StartShell, Submit, SubmitRefused, SwitchOver, Tasks,
         TrustAnswered, TrustExit, Type, TypeSlash, allVars, screenVars

(* A history has messages of texts and images, an empty reply among them.  *)
LEMMA SessionTypesKept ==
    ASSUME DraftTypes, FlagTypes, TaskTypes, AgentTypes, SessionTypes,
           ReplaceInv, [ScreenNext]_allVars
    PROVE  SessionTypes'
<1> USE DEF draftVars, exitVars, ghostVars, sessionVars, taskVars
<1>1. ASSUME NEW t \in Texts, Type(t) PROVE SessionTypes'
  BY <1>1 DEF SessionTypes, Type
<1>2. ASSUME NEW i \in Images, StartAttachment(i) PROVE SessionTypes'
  BY <1>2 DEF SessionTypes, StartAttachment
<1>3. ASSUME RecordCommitted PROVE SessionTypes'
  BY <1>3 DEF Committed, Message, Messages, RecordCommitted, Reply, SaveFails,
         SaveHolds, SessionTypes, TaskTypes
<1>4. ASSUME PromptCommitted PROVE SessionTypes'
  BY <1>4 DEF AgentTypes, Message, Messages, PromptCommitted, ReplaceInv,
         Reply, SaveFails, SaveHolds, SessionTypes, TaskTypes, WithRecords
<1>5. ASSUME PromptDropped PROVE SessionTypes'
  BY <1>5 DEF AgentTypes, Message, Messages, PromptDropped, Reply, SaveFails,
         SaveHolds, SessionTypes, WithRecords
<1>6. ASSUME NEW m \in Messages, Drain(m) PROVE SessionTypes'
  BY <1>6 DEF Drain, SaveHolds, SessionTypes
<1>7. ASSUME RunEnds PROVE SessionTypes'
  BY <1>7 DEF AgentTypes, Message, Messages, Reply, RunEnds, SaveFails,
         SaveHolds, SessionTypes, WithRecords
<1>8. ASSUME ReplacementPublished PROVE SessionTypes'
  BY <1>8 DEF ReplaceInv, ReplacementPublished, SessionTypes, SwitchOver
<1>9. ASSUME ManualEnds PROVE SessionTypes'
  BY <1>9 DEF ManualEnds, Message, Messages, Reply, SaveFails, SaveHolds,
         SessionTypes
<1>10. ASSUME SaveEnds PROVE SessionTypes'
  BY <1>10 DEF SaveEnds, SessionTypes
<1>11. ASSUME ShutdownSaves PROVE SessionTypes'
  BY <1>11 DEF SessionTypes, ShutdownSaves
<1>12. ASSUME UNCHANGED <<shown, known, history, unsaved, backups, owner>>
       PROVE SessionTypes'
  BY <1>12 DEF SessionTypes
<1> QED
  BY <1>1, <1>2, <1>3, <1>4, <1>5, <1>6, <1>7, <1>8, <1>9, <1>10, <1>11, <1>12
         DEF AgentSteps, AltUp, AskOrExit, AttachmentEnds, BoundedKeys,
         ChooseInSelector, ClearAttachments, CompactSettles, CompactStarts,
         ConfirmExit, CtrlC, EscapeCompaction, EscapeManagement, EscapeWork,
         ExternalReturns, FreeKeys, KeepEditing, Keys, LeaveSelector,
         OpenExternal, OpenSelector, PromptSettles, PromptStarts, QueueInput,
         RecordSettles, ReplacementFails, ReplacementPrepares,
         ReplacementRefused, RequestExit, RuntimeCloses, ScreenNext,
         ScreenTasks, SelectorExit, Selectors, ShellEnds, Shutdown,
         ShutdownAborts, ShutdownStarts, SignalExit, StartCompact,
         StartReplacement, StartSave, StartShell, Submit, SubmitRefused,
         SwitchOver, Tasks, TrustAnswered, TrustExit, TypeSlash, allVars,
         screenVars

(* A prompt gives its text away when it is committed, dropped or returned; *)
(* a record is in the history before its shell is over.                    *)
LEMMA TasksInvKept ==
    ASSUME DraftTypes, TaskTypes, AgentTypes, SessionTypes, TasksInv,
           ReplaceInv, [ScreenNext]_allVars
    PROVE  TasksInv'
<1> USE DEF draftVars, exitVars, ghostVars, sessionVars, taskVars
<1>1. ASSUME Submit PROVE TasksInv'
  BY <1>1 DEF InHistory, Submit, TasksInv
<1>2. ASSUME QueueInput PROVE TasksInv'
  BY <1>2 DEF InHistory, QueueInput, TasksInv
<1>3. ASSUME PromptStarts PROVE TasksInv'
  <2>1. prompt.at = "created" /\ UNCHANGED <<shell, history>>
    BY <1>3 DEF PromptStarts
  <2>2. CASE /\ ~ AgentBusy /\ UNCHANGED busy
             /\ prompt' = [prompt EXCEPT !.at = "waiting"]
             /\ agent' = [agent EXCEPT !.at = "opening", !.signal = FALSE]
    <3>1. /\ prompt'.at = "waiting" /\ agent.at = "idle" /\ agent'.at = "opening"
          /\ agent'.customs = agent.customs
      BY <2>2 DEF AgentBusy, AgentTypes, TaskTypes
    <3> QED BY <2>1, <2>2, <3>1 DEF TasksInv, InHistory
  <2>3. CASE prompt' = NoPrompt /\ UNCHANGED agent
    <3>1. prompt'.at = "none" /\ prompt'.text = {} /\ prompt'.images = {}
      BY <2>3 DEF NoPrompt
    <3> QED BY <2>1, <2>3, <3>1 DEF TasksInv, InHistory
  <2> QED BY <1>3, <2>2, <2>3 DEF PromptStarts
<1>4. ASSUME PromptSettles PROVE TasksInv'
  BY <1>4 DEF InHistory, NoPrompt, PromptSettles, TasksInv
<1>5. ASSUME AltUp PROVE TasksInv'
  BY <1>5 DEF AltUp, InHistory, TasksInv
<1>6. ASSUME StartShell PROVE TasksInv'
  BY <1>6 DEF StartShell, TasksInv
<1>7. ASSUME ShellEnds PROVE TasksInv'
  <2>1. UNCHANGED <<prompt, busy, history>>
    BY <1>7 DEF ShellEnds
  <2>2. CASE /\ ~ AgentBusy
             /\ agent' = [agent EXCEPT !.at = "recording", !.signal = FALSE]
             /\ shell' = [shell EXCEPT !.at = "recording"]
    <3>1. /\ agent.at = "idle" /\ agent'.at = "recording"
          /\ agent'.customs = agent.customs /\ shell'.at = "recording"
      BY <2>2 DEF AgentBusy, AgentTypes, TaskTypes
    <3> QED BY <2>1, <3>1 DEF TasksInv
  <2>3. CASE /\ agent.at \in {"opening", "running"}
             /\ agent' = [agent EXCEPT !.customs = @ \union shell.text]
             /\ shell' = NoShell
    <3>1. agent'.at = agent.at /\ shell'.at = "none" /\ shell'.text = {}
      BY <2>3 DEF AgentTypes, NoShell
    <3> QED BY <2>1, <2>3, <3>1 DEF TasksInv
  <2> QED BY <1>7, <2>2, <2>3 DEF ShellEnds
<1>8. ASSUME RecordCommitted PROVE TasksInv'
  <2>1. /\ agent.at = "recording" /\ agent'.at = "recorded"
        /\ agent'.customs = agent.customs /\ UNCHANGED <<busy, shell>>
        /\ prompt'.at = prompt.at /\ prompt'.text = prompt.text
        /\ prompt'.images = prompt.images
    BY <1>8 DEF RecordCommitted, Committed, AgentTypes, TaskTypes
  <2>2. /\ shown \in Convs
        /\ Message(shell.text, {}) \in history'[shown]
        /\ Message(shell.text, {}).text = shell.text
    BY <1>8 DEF RecordCommitted, Committed, SessionTypes, Message
  <2>3. \A i \in shell.text : (InHistory(i))'
    BY <2>2 DEF InHistory
  <2> QED BY <2>1, <2>3 DEF TasksInv
<1>9. ASSUME RecordSettles PROVE TasksInv'
  BY <1>9 DEF NoShell, RecordSettles, TasksInv
<1>10. ASSUME PromptCommitted PROVE TasksInv'
  BY <1>10 DEF AgentTypes, DraftTypes, NoPrompt, PromptCommitted, ReplaceInv,
         Settled, TaskTypes, TasksInv
<1>11. ASSUME PromptDropped PROVE TasksInv'
  BY <1>11 DEF NoPrompt, PromptDropped, Settled, TasksInv
<1>12. ASSUME NEW m \in Messages, Drain(m) PROVE TasksInv'
  BY <1>12 DEF Drain, TasksInv
<1>13. ASSUME RunEnds PROVE TasksInv'
  BY <1>13 DEF NoPrompt, RunEnds, Settled, TasksInv
<1>14. ASSUME StartReplacement PROVE TasksInv'
  BY <1>14 DEF InHistory, StartReplacement, TasksInv
<1>15. ASSUME StartCompact PROVE TasksInv'
  BY <1>15 DEF InHistory, StartCompact, TasksInv
<1>16. ASSUME NEW kind \in Selectors, ChooseInSelector(kind) PROVE TasksInv'
  BY <1>16 DEF ChooseInSelector, InHistory, TasksInv
<1>17. ASSUME ReplacementPrepares PROVE TasksInv'
  BY <1>17 DEF InHistory, ReplacementPrepares, TasksInv
<1>18. ASSUME ReplacementRefused PROVE TasksInv'
  <2>1. UNCHANGED <<prompt, agent, shell, history>>
    BY <1>18 DEF ReplacementRefused, SwitchOver
  <2>2. prompt.at = "none"
    BY <1>18 DEF ReplacementRefused, ReplaceInv, Replacing
  <2> QED BY <2>1, <2>2 DEF TasksInv, InHistory
<1>19. ASSUME ReplacementFails PROVE TasksInv'
  <2>1. UNCHANGED <<prompt, agent, shell, history>>
    BY <1>19 DEF ReplacementFails, SwitchOver
  <2>2. prompt.at = "none"
    BY <1>19 DEF ReplacementFails, ReplaceInv, Replacing
  <2> QED BY <2>1, <2>2 DEF TasksInv, InHistory
<1>20. ASSUME ReplacementPublished PROVE TasksInv'
  <2>1. UNCHANGED <<prompt, shell>> /\ agent' = IdleAgent
    BY <1>20 DEF ReplacementPublished, SwitchOver
  <2>2. prompt.at = "none" /\ shell.at = "none"
    BY <1>20 DEF ReplacementPublished, ReplaceInv, Replacing
  <2> QED BY <2>1, <2>2 DEF TasksInv, IdleAgent
<1>21. ASSUME CompactStarts PROVE TasksInv'
  BY <1>21 DEF AgentBusy, CompactStarts, TasksInv
<1>22. ASSUME ManualEnds PROVE TasksInv'
  BY <1>22 DEF ManualEnds, Settled, TasksInv
<1>23. ASSUME CompactSettles PROVE TasksInv'
  BY <1>23 DEF CompactSettles, InHistory, ReplaceInv, TasksInv
<1>24. ASSUME EscapeCompaction PROVE TasksInv'
  BY <1>24 DEF EscapeCompaction, TasksInv
<1>25. ASSUME EscapeWork PROVE TasksInv'
  BY <1>25 DEF EscapeWork, InHistory, TasksInv
<1>26. ASSUME ConfirmExit PROVE TasksInv'
  BY <1>26 DEF ConfirmExit, InHistory, TasksInv
<1>27. ASSUME ShutdownAborts PROVE TasksInv'
  BY <1>27 DEF InHistory, ShutdownAborts, TasksInv
<1>28. ASSUME RuntimeCloses PROVE TasksInv'
  BY <1>28 DEF AgentTypes, InHistory, RuntimeCloses, TasksInv
<1>29. ASSUME UNCHANGED <<busy, prompt, shell, agent, history>> PROVE
       TasksInv'
  BY <1>29 DEF InHistory, TasksInv
<1> QED
  BY <1>1, <1>2, <1>3, <1>4, <1>5, <1>6, <1>7, <1>8, <1>9, <1>10, <1>11,
         <1>12, <1>13, <1>14, <1>15, <1>16, <1>17, <1>18, <1>19, <1>20, <1>21,
         <1>22, <1>23, <1>24, <1>25, <1>26, <1>27, <1>28, <1>29 DEF
         AgentSteps, AskOrExit, AttachmentEnds, BoundedKeys, ClearAttachments,
         CtrlC, EscapeManagement, ExternalReturns, FreeKeys, KeepEditing,
         Keys, LeaveSelector, OpenExternal, OpenSelector, RequestExit,
         SaveEnds, ScreenNext, ScreenTasks, SelectorExit, Selectors, Shutdown,
         ShutdownSaves, ShutdownStarts, SignalExit, StartAttachment,
         StartSave, SubmitRefused, Tasks, TrustAnswered, TrustExit, Type,
         TypeSlash, allVars, screenVars

(* A replacement starts in an idle screen, and a busy screen starts        *)
(* nothing else; what it sets aside goes back when it ends.                *)
LEMMA ReplaceInvKept ==
    ASSUME TaskTypes, AgentTypes, SessionTypes, TasksInv, ReplaceInv,
           [ScreenNext]_allVars
    PROVE  ReplaceInv'
<1> USE DEF draftVars, exitVars, ghostVars, sessionVars, taskVars
<1>1. ASSUME NEW i \in Images, StartAttachment(i) PROVE ReplaceInv'
  BY <1>1 DEF ReplaceInv, Replacing, StartAttachment
<1>2. ASSUME AttachmentEnds PROVE ReplaceInv'
  BY <1>2 DEF AttachmentEnds, ReplaceInv, Replacing
<1>3. ASSUME ClearAttachments PROVE ReplaceInv'
  BY <1>3 DEF ClearAttachments, ReplaceInv, Replacing
<1>4. ASSUME Submit PROVE ReplaceInv'
  BY <1>4 DEF ReplaceInv, Replacing, Submit
<1>5. ASSUME QueueInput PROVE ReplaceInv'
  BY <1>5 DEF QueueInput, ReplaceInv, Replacing
<1>6. ASSUME PromptStarts PROVE ReplaceInv'
  BY <1>6 DEF PromptStarts, ReplaceInv, Replacing
<1>7. ASSUME PromptSettles PROVE ReplaceInv'
  BY <1>7 DEF PromptSettles, ReplaceInv, Replacing
<1>8. ASSUME AltUp PROVE ReplaceInv'
  BY <1>8 DEF AltUp, ReplaceInv, Replacing
<1>9. ASSUME StartShell PROVE ReplaceInv'
  BY <1>9 DEF ReplaceInv, Replacing, StartShell
<1>10. ASSUME ShellEnds PROVE ReplaceInv'
  BY <1>10 DEF ReplaceInv, Replacing, ShellEnds
<1>11. ASSUME RecordCommitted PROVE ReplaceInv'
  BY <1>11 DEF Committed, RecordCommitted, ReplaceInv, Replacing
<1>12. ASSUME RecordSettles PROVE ReplaceInv'
  BY <1>12 DEF RecordSettles, ReplaceInv, Replacing
<1>13. ASSUME PromptCommitted PROVE ReplaceInv'
  BY <1>13 DEF PromptCommitted, ReplaceInv, Replacing, TasksInv
<1>14. ASSUME PromptDropped PROVE ReplaceInv'
  BY <1>14 DEF PromptDropped, ReplaceInv, Replacing, TasksInv
<1>15. ASSUME NEW m \in Messages, Drain(m) PROVE ReplaceInv'
  BY <1>15 DEF Drain, ReplaceInv, Replacing
<1>16. ASSUME RunEnds PROVE ReplaceInv'
  BY <1>16 DEF ReplaceInv, Replacing, RunEnds, TasksInv
<1>17. ASSUME StartReplacement PROVE ReplaceInv'
  BY <1>17 DEF AgentBusy, Forks, ManagementIdle, ReplaceInv, Replacements,
         SessionTypes, StartReplacement, Task, TasksInv
<1>18. ASSUME StartCompact PROVE ReplaceInv'
  BY <1>18 DEF ManagementIdle, ReplaceInv, Replacing, SessionTypes,
         StartCompact, Task, TasksInv
<1>19. ASSUME NEW kind \in {"save", "export"}, NEW c \in Convs, StartSave(kind, c) PROVE ReplaceInv'
  BY <1>19 DEF ReplaceInv, Replacing, StartSave, Task
<1>20. ASSUME NEW kind \in Selectors, ChooseInSelector(kind) PROVE ReplaceInv'
  BY <1>20 DEF AgentBusy, ChooseInSelector, Forks, ManagementIdle, ReplaceInv,
         Replacements, SessionTypes, Task, TasksInv
<1>21. ASSUME ReplacementPrepares PROVE ReplaceInv'
  BY <1>21 DEF ReplaceInv, ReplacementPrepares, Replacing
<1>22. ASSUME ReplacementRefused PROVE ReplaceInv'
  BY <1>22 DEF NoTask, ReplaceInv, ReplacementRefused, Replacing
<1>23. ASSUME TrustAnswered PROVE ReplaceInv'
  BY <1>23 DEF ReplaceInv, Replacing, TrustAnswered
<1>24. ASSUME ReplacementFails PROVE ReplaceInv'
  BY <1>24 DEF NoTask, ReplaceInv, ReplacementFails, Replacing, SwitchOver
<1>25. ASSUME ReplacementPublished PROVE ReplaceInv'
  BY <1>25 DEF NoTask, ReplaceInv, ReplacementPublished, Replacing, SwitchOver
<1>26. ASSUME CompactStarts PROVE ReplaceInv'
  BY <1>26 DEF CompactStarts, ReplaceInv, Replacing
<1>27. ASSUME ManualEnds PROVE ReplaceInv'
  BY <1>27 DEF ManualEnds, ReplaceInv, Replacing
<1>28. ASSUME CompactSettles PROVE ReplaceInv'
  BY <1>28 DEF CompactSettles, NoTask, ReplaceInv, Replacing
<1>29. ASSUME SaveEnds PROVE ReplaceInv'
  BY <1>29 DEF NoTask, ReplaceInv, Replacing, SaveEnds
<1>30. ASSUME EscapeCompaction PROVE ReplaceInv'
  BY <1>30 DEF EscapeCompaction, ReplaceInv, Replacing
<1>31. ASSUME EscapeManagement PROVE ReplaceInv'
  BY <1>31 DEF CancelManagement, EscapeManagement, NoTask, ReplaceInv,
         Replacing, TaskTypes
<1>32. ASSUME EscapeWork PROVE ReplaceInv'
  BY <1>32 DEF EscapeWork, ReplaceInv, Replacing
<1>33. ASSUME ConfirmExit PROVE ReplaceInv'
  BY <1>33 DEF ConfirmExit, ReplaceInv, Replacing
<1>34. ASSUME ShutdownStarts PROVE ReplaceInv'
  BY <1>34 DEF Cancelled, ReplaceInv, Replacing, ShutdownStarts
<1>35. ASSUME ShutdownAborts PROVE ReplaceInv'
  BY <1>35 DEF ReplaceInv, Replacing, ShutdownAborts
<1>36. ASSUME RuntimeCloses PROVE ReplaceInv'
  BY <1>36 DEF AgentBusy, ReplaceInv, Replacing, RuntimeCloses
<1>37. ASSUME UNCHANGED <<source, prompt, attach, manage, shell, shown, known,
       agent, history>> PROVE ReplaceInv'
  BY <1>37 DEF ReplaceInv, Replacing
<1> QED
  BY <1>1, <1>2, <1>3, <1>4, <1>5, <1>6, <1>7, <1>8, <1>9, <1>10, <1>11,
         <1>12, <1>13, <1>14, <1>15, <1>16, <1>17, <1>18, <1>19, <1>20, <1>21,
         <1>22, <1>23, <1>24, <1>25, <1>26, <1>27, <1>28, <1>29, <1>30, <1>31,
         <1>32, <1>33, <1>34, <1>35, <1>36, <1>37 DEF AgentSteps, AskOrExit,
         BoundedKeys, CtrlC, ExternalReturns, FreeKeys, KeepEditing, Keys,
         LeaveSelector, OpenExternal, OpenSelector, RequestExit, ScreenNext,
         ScreenTasks, SelectorExit, Selectors, Shutdown, ShutdownSaves,
         SignalExit, SubmitRefused, Tasks, TrustExit, Type, TypeSlash,
         allVars, screenVars

(* Publication stores the draft of the conversation it leaves and takes    *)
(* the one of the conversation it enters.                                  *)
LEMMA KnownInvKept ==
    ASSUME DraftTypes, TaskTypes, SessionTypes, AgentTypes, TasksInv,
           ReplaceInv, KnownInv, [ScreenNext]_allVars
    PROVE  KnownInv'
<1> USE DEF draftVars, exitVars, ghostVars, sessionVars, taskVars
<1>1. ASSUME RecordCommitted PROVE KnownInv'
  BY <1>1 DEF Committed, KnownInv, RecordCommitted, SessionTypes
<1>2. ASSUME PromptCommitted PROVE KnownInv'
  BY <1>2 DEF KnownInv, PromptCommitted, SessionTypes
<1>3. ASSUME PromptDropped PROVE KnownInv'
  BY <1>3 DEF KnownInv, PromptDropped, SessionTypes
<1>4. ASSUME NEW m \in Messages, Drain(m) PROVE KnownInv'
  BY <1>4 DEF Drain, KnownInv, SessionTypes
<1>5. ASSUME RunEnds PROVE KnownInv'
  BY <1>5 DEF KnownInv, RunEnds, SessionTypes
<1>6. ASSUME ReplacementPublished PROVE KnownInv'
  <2> DEFINE c == manage.target
  <2>1. /\ shown' = c /\ known' = known \union {c} /\ c \in Convs
        /\ shown \in known /\ shown \in Convs
        /\ history' = [history EXCEPT ![c] =
                          IF manage.kind = "clone" THEN history[shown] ELSE @]
    BY <1>6 DEF ReplacementPublished, ReplaceInv, Replacing, SessionTypes
  <2>2. \A d \in Convs \ {c} : history'[d] = history[d]
    BY <2>1 DEF SessionTypes
  <2>3. CASE c = shown
    <3>1. UNCHANGED stored
      BY <1>6, <2>3 DEF ReplacementPublished
    <3> QED BY <2>1, <2>2, <2>3, <3>1 DEF KnownInv
  <2>4. CASE c # shown
    <3>1. stored' = [stored EXCEPT ![shown] = Message(SourceText, draft),
                                   ![c] = EmptyDraft]
      BY <1>6, <2>4 DEF ReplacementPublished, SwitchDrafts
    <3>2. /\ stored'[c] = EmptyDraft
          /\ \A d \in Convs \ {c, shown} : stored'[d] = stored[d]
      BY <2>1, <2>4, <3>1 DEF DraftTypes
    <3> QED BY <2>1, <2>2, <3>2 DEF KnownInv
  <2> QED BY <2>3, <2>4
<1>7. ASSUME ConfirmExit PROVE KnownInv'
  BY <1>7 DEF ConfirmExit, KnownInv, SessionTypes
<1>8. ASSUME UNCHANGED <<stored, shown, known, history>> PROVE KnownInv'
  BY <1>8 DEF KnownInv
<1> QED
  BY <1>1, <1>2, <1>3, <1>4, <1>5, <1>6, <1>7, <1>8 DEF AgentSteps, AltUp,
         AskOrExit, AttachmentEnds, BoundedKeys, ChooseInSelector,
         ClearAttachments, CompactSettles, CompactStarts, CtrlC,
         EscapeCompaction, EscapeManagement, EscapeWork, ExternalReturns,
         FreeKeys, KeepEditing, Keys, LeaveSelector, ManualEnds, OpenExternal,
         OpenSelector, PromptSettles, PromptStarts, QueueInput, RecordSettles,
         ReplacementFails, ReplacementPrepares, ReplacementRefused,
         RequestExit, RuntimeCloses, SaveEnds, SaveHolds, ScreenNext,
         ScreenTasks, SelectorExit, Selectors, ShellEnds, Shutdown,
         ShutdownAborts, ShutdownSaves, ShutdownStarts, SignalExit,
         StartAttachment, StartCompact, StartReplacement, StartSave,
         StartShell, Submit, SubmitRefused, SwitchOver, Tasks, TrustAnswered,
         TrustExit, Type, TypeSlash, allVars, screenVars

(* A queued input brings its images along.                                 *)
LEMMA QueuedInvKept ==
    ASSUME DraftTypes, AgentTypes, QueuedInv, [ScreenNext]_allVars
    PROVE  QueuedInv'
<1> USE DEF draftVars, exitVars, ghostVars, sessionVars, taskVars
<1>1. ASSUME QueueInput PROVE QueuedInv'
  <2>1. /\ agent'.queue = agent.queue \union {Message(editor, draft)}
        /\ queuedImages' = (queuedImages \union draft) \intersect AllOf(agent'.queue)
        /\ editor \subseteq Texts
    BY <1>1 DEF QueueInput, AgentTypes, DraftTypes
  <2>2. ASSUME NEW i \in Images, (InQueue(i))'
        PROVE  i \in AllOf(agent'.queue)
    BY <2>2 DEF InQueue, AllOf, Contents
  <2>3. ASSUME NEW i \in Images, (InQueue(i))' PROVE InQueue(i) \/ i \in draft
    BY <2>1, <2>3, InteractiveSessionAssumption DEF InQueue, Message
  <2> QED BY <2>1, <2>2, <2>3 DEF QueuedInv
<1>2. ASSUME PromptStarts PROVE QueuedInv'
  BY <1>2 DEF AgentTypes, InQueue, PromptStarts, QueuedInv
<1>3. ASSUME AltUp PROVE QueuedInv'
  BY <1>3, QueuedItems DEF AltUp, InQueue, QueuedInv
<1>4. ASSUME ShellEnds PROVE QueuedInv'
  BY <1>4 DEF AgentTypes, InQueue, QueuedInv, ShellEnds
<1>5. ASSUME RecordCommitted PROVE QueuedInv'
  BY <1>5 DEF InQueue, QueuedInv, RecordCommitted
<1>6. ASSUME RecordSettles PROVE QueuedInv'
  BY <1>6 DEF InQueue, QueuedInv, RecordSettles
<1>7. ASSUME PromptCommitted PROVE QueuedInv'
  BY <1>7 DEF AgentTypes, InQueue, PromptCommitted, QueuedInv, Settled
<1>8. ASSUME PromptDropped PROVE QueuedInv'
  BY <1>8 DEF InQueue, PromptDropped, QueuedInv, Settled
<1>9. ASSUME NEW m \in Messages, Drain(m) PROVE QueuedInv'
  BY <1>9 DEF Drain, InQueue, QueuedInv
<1>10. ASSUME RunEnds PROVE QueuedInv'
  BY <1>10 DEF InQueue, QueuedInv, RunEnds, Settled
<1>11. ASSUME ReplacementPrepares PROVE QueuedInv'
  BY <1>11, QueuedItems DEF InQueue, QueuedInv, ReplacementPrepares
<1>12. ASSUME ReplacementPublished PROVE QueuedInv'
  BY <1>12 DEF IdleAgent, InQueue, QueuedInv, ReplacementPublished
<1>13. ASSUME CompactStarts PROVE QueuedInv'
  BY <1>13 DEF CompactStarts, InQueue, QueuedInv
<1>14. ASSUME ManualEnds PROVE QueuedInv'
  BY <1>14 DEF InQueue, ManualEnds, QueuedInv, Settled
<1>15. ASSUME EscapeCompaction PROVE QueuedInv'
  BY <1>15 DEF EscapeCompaction, InQueue, QueuedInv
<1>16. ASSUME EscapeWork PROVE QueuedInv'
  BY <1>16, QueuedItems DEF EscapeWork, InQueue, QueuedInv
<1>17. ASSUME ConfirmExit PROVE QueuedInv'
  BY <1>17, QueuedItems DEF ConfirmExit, InQueue, QueuedInv
<1>18. ASSUME ShutdownAborts PROVE QueuedInv'
  BY <1>18 DEF InQueue, QueuedInv, ShutdownAborts
<1>19. ASSUME RuntimeCloses PROVE QueuedInv'
  BY <1>19 DEF AgentTypes, InQueue, QueuedInv, RuntimeCloses
<1>20. ASSUME UNCHANGED <<queuedImages, agent>> PROVE QueuedInv'
  BY <1>20 DEF InQueue, QueuedInv
<1> QED
  BY <1>1, <1>2, <1>3, <1>4, <1>5, <1>6, <1>7, <1>8, <1>9, <1>10, <1>11,
         <1>12, <1>13, <1>14, <1>15, <1>16, <1>17, <1>18, <1>19, <1>20 DEF
         AgentSteps, AskOrExit, AttachmentEnds, BoundedKeys, ChooseInSelector,
         ClearAttachments, CompactSettles, CtrlC, EscapeManagement,
         ExternalReturns, FreeKeys, KeepEditing, Keys, LeaveSelector,
         OpenExternal, OpenSelector, PromptSettles, ReplacementFails,
         ReplacementRefused, RequestExit, SaveEnds, ScreenNext, ScreenTasks,
         SelectorExit, Selectors, Shutdown, ShutdownSaves, ShutdownStarts,
         SignalExit, StartAttachment, StartCompact, StartReplacement,
         StartSave, StartShell, Submit, SubmitRefused, SwitchOver, Tasks,
         TrustAnswered, TrustExit, Type, TypeSlash, allVars, screenVars

(* Items move within the conversation shown; publication changes that      *)
(* conversation and the draft together.                                    *)
LEMMA HomeInvKept ==
    ASSUME DraftTypes, TaskTypes, AgentTypes, SessionTypes, TasksInv,
           ReplaceInv, KnownInv, QueuedInv, HomeInv, [ScreenNext]_allVars
    PROVE  HomeInv'
<1> USE DEF draftVars, exitVars, ghostVars, sessionVars, taskVars
<1>1. ASSUME NEW t \in Texts, Type(t) PROVE HomeInv'
  BY <1>1, InteractiveSessionAssumption DEF Forgets, HomeInv, InQueue,
         SessionTypes, Type
<1>2. ASSUME TypeSlash PROVE HomeInv'
  BY <1>2, InteractiveSessionAssumption DEF HomeInv, InQueue, Items, TypeSlash
<1>3. ASSUME CtrlC PROVE HomeInv'
  BY <1>3 DEF CtrlC, HomeInv, InQueue
<1>4. ASSUME ExternalReturns PROVE HomeInv'
  BY <1>4 DEF ExternalReturns, Forgets, HomeInv, InQueue
<1>5. ASSUME NEW i \in Images, StartAttachment(i) PROVE HomeInv'
  BY <1>5, InteractiveSessionAssumption DEF HomeInv, InQueue, SessionTypes,
         StartAttachment
<1>6. ASSUME AttachmentEnds PROVE HomeInv'
  BY <1>6 DEF AttachmentEnds, HomeInv, InQueue
<1>7. ASSUME ClearAttachments PROVE HomeInv'
  BY <1>7, InteractiveSessionAssumption DEF ClearAttachments, HomeInv, InQueue
<1>8. ASSUME Submit PROVE HomeInv'
  BY <1>8, InteractiveSessionAssumption DEF Forgets, HomeInv, InQueue, Submit
<1>9. ASSUME SubmitRefused PROVE HomeInv'
  BY <1>9, InteractiveSessionAssumption DEF Forgets, HomeInv, InQueue,
         SubmitRefused
<1>10. ASSUME QueueInput PROVE HomeInv'
  BY <1>10, InteractiveSessionAssumption DEF Forgets, HomeInv, InQueue,
         Message, QueueInput
<1>11. ASSUME PromptStarts PROVE HomeInv'
  <2>1. /\ UNCHANGED <<source, stored, owner, shown, attach>>
        /\ \/ UNCHANGED agent
           \/ agent' = [agent EXCEPT !.at = "opening", !.signal = FALSE]
        /\ prompt' = [prompt EXCEPT !.at = "waiting"] \/ prompt' = NoPrompt
    BY <1>11 DEF PromptStarts
  <2>3. agent'.queue = agent.queue
    BY <2>1 DEF AgentTypes
  <2>4. prompt'.text \subseteq prompt.text /\ prompt'.images \subseteq prompt.images
    BY <2>1 DEF TaskTypes, NoPrompt
  <2>2. /\ draft' \subseteq draft \union prompt.images
        /\ editor' \subseteq editor \union prompt.text
        /\ cleared' \subseteq cleared
    BY <1>11 DEF PromptStarts, RestoreRejected, Forgets, Joined
  <2> QED BY <2>1, <2>2, <2>3, <2>4 DEF HomeInv, InQueue
<1>12. ASSUME PromptSettles PROVE HomeInv'
  BY <1>12 DEF HomeInv, InQueue, NoPrompt, PromptSettles
<1>13. ASSUME AltUp PROVE HomeInv'
  BY <1>13, QueuedItems, InteractiveSessionAssumption DEF AltUp, Forgets,
         HomeInv, InQueue, Joined, Recall, Recalled, TakeQueuedImages
<1>14. ASSUME StartShell PROVE HomeInv'
  BY <1>14, InteractiveSessionAssumption DEF Forgets, HomeInv, InQueue,
         StartShell
<1>15. ASSUME ShellEnds PROVE HomeInv'
  BY <1>15 DEF AgentTypes, HomeInv, InQueue, ShellEnds
<1>16. ASSUME RecordCommitted PROVE HomeInv'
  BY <1>16 DEF Committed, HomeInv, InQueue, RecordCommitted
<1>17. ASSUME RecordSettles PROVE HomeInv'
  BY <1>17 DEF HomeInv, InQueue, RecordSettles
<1>18. ASSUME PromptCommitted PROVE HomeInv'
  <2>1. /\ UNCHANGED <<editor, cleared, draft, source, stored, owner, shown, attach>>
        /\ agent'.queue = agent.queue /\ prompt'.text = {} /\ prompt'.images = {}
    BY <1>18 DEF PromptCommitted, Settled, AgentTypes, TaskTypes, NoPrompt
  <2> QED BY <2>1 DEF HomeInv, InQueue
<1>19. ASSUME PromptDropped PROVE HomeInv'
  BY <1>19 DEF HomeInv, InQueue, NoPrompt, PromptDropped, Settled
<1>20. ASSUME NEW m \in Messages, Drain(m) PROVE HomeInv'
  BY <1>20 DEF Drain, HomeInv, InQueue
<1>21. ASSUME RunEnds PROVE HomeInv'
  BY <1>21 DEF HomeInv, InQueue, NoPrompt, RunEnds, Settled
<1>22. ASSUME StartReplacement PROVE HomeInv'
  BY <1>22, InteractiveSessionAssumption DEF HomeInv, InQueue,
         StartReplacement
<1>23. ASSUME StartCompact PROVE HomeInv'
  BY <1>23, InteractiveSessionAssumption DEF HomeInv, InQueue, StartCompact
<1>24. ASSUME NEW kind \in {"save", "export"}, NEW c \in Convs, StartSave(kind, c) PROVE HomeInv'
  BY <1>24, InteractiveSessionAssumption DEF HomeInv, InQueue, StartSave
<1>25. ASSUME NEW kind \in Selectors, OpenSelector(kind) PROVE HomeInv'
  BY <1>25, InteractiveSessionAssumption DEF HomeInv, InQueue, OpenSelector
<1>26. ASSUME NEW kind \in Selectors, LeaveSelector(kind) PROVE HomeInv'
  BY <1>26 DEF HomeInv, InQueue, LeaveSelector
<1>27. ASSUME NEW kind \in Selectors, ChooseInSelector(kind) PROVE HomeInv'
  BY <1>27 DEF ChooseInSelector, HomeInv, InQueue
<1>28. ASSUME ReplacementPrepares PROVE HomeInv'
  BY <1>28, QueuedItems, InteractiveSessionAssumption DEF HomeInv, InQueue,
         Joined, Recalled, ReplacementPrepares, SetAside, TakeQueuedImages
<1>29. ASSUME ReplacementFails PROVE HomeInv'
  BY <1>29, InteractiveSessionAssumption DEF HomeInv, InQueue, Joined,
         ReplacementFails, SourceText, SwitchOver
<1>30. ASSUME ReplacementPublished PROVE HomeInv'
  <2> DEFINE c == manage.target
             state == IF manage.kind = "fork" THEN CHOOSE m \in manage.copy : TRUE
                      ELSE stored[c]
  <2>1. /\ cleared' = {} /\ source' = {} /\ agent' = IdleAgent
        /\ UNCHANGED <<attach, prompt>>
        /\ attach = None /\ prompt.text = {} /\ prompt.images = {}
        /\ c \in Convs /\ shown \in Convs /\ shown' = c
    BY <1>30 DEF ReplacementPublished, SwitchOver, ReplaceInv, Replacing, TasksInv,
              SessionTypes
  <2>2. /\ manage.kind # "fork" => manage.copy = {}
        /\ manage.kind = "fork" => \E m \in history[shown] : manage.copy = {m}
    BY <1>30 DEF ReplacementPublished, ReplaceInv, Replacing
  <2>3. owner' = [i \in Items |-> IF i \in AllOf(manage.copy)
                                  THEN owner[i] \union {c} ELSE owner[i]]
    BY <1>30 DEF ReplacementPublished
  <2>4. ASSUME NEW i \in Items PROVE owner[i] \subseteq owner'[i]
    BY <2>3
  <2>5. ASSUME NEW i PROVE ~ (InQueue(i))'
    BY <2>1 DEF InQueue, IdleAgent
  <2>6. ASSUME NEW i \in Items, i \in SourceText PROVE shown \in owner[i]
    BY <2>6 DEF SourceText, Joined, HomeInv
  <2>7. CASE c = shown
    <3>1. UNCHANGED <<draft, stored>> /\ editor' = SourceText
      BY <1>30, <2>7 DEF ReplacementPublished
    <3> QED BY <2>1, <2>4, <2>5, <2>6, <2>7, <3>1 DEF HomeInv
  <2>8. CASE c # shown
    <3>1. /\ editor' = state.text /\ draft' = state.images
          /\ stored' = [stored EXCEPT ![shown] = Message(SourceText, draft),
                                      ![c] = EmptyDraft]
      BY <1>30, <2>8 DEF ReplacementPublished, SwitchDrafts
    <3>2. /\ stored'[c] = EmptyDraft
          /\ stored'[shown] = Message(SourceText, draft)
          /\ \A d \in Convs \ {c, shown} : stored'[d] = stored[d]
      BY <2>1, <2>8, <3>1 DEF DraftTypes
    <3>3. ASSUME NEW i \in Items, i \in state.text \/ i \in state.images
          PROVE  c \in owner'[i]
      <4>1. CASE manage.kind = "fork"
        <5>1. state \in manage.copy
          BY <2>2, <4>1
        <5>2. i \in AllOf(manage.copy)
          BY <3>3, <5>1 DEF AllOf, Contents
        <5> QED BY <2>3, <5>2
      <4>2. CASE manage.kind # "fork"
        BY <2>1, <2>4, <3>3, <4>2 DEF HomeInv
      <4> QED BY <4>1, <4>2
    <3>4. ASSUME NEW i \in Items, NEW d \in Convs,
                 i \in stored'[d].text \/ i \in stored'[d].images
          PROVE  d \in owner[i]
      <4>1. CASE d = shown
        BY <2>6, <2>8, <3>2, <3>4, <4>1 DEF Message, HomeInv
      <4>2. CASE d = c
        BY <3>2, <3>4, <4>2 DEF EmptyDraft, Message
      <4>3. CASE d \notin {c, shown}
        BY <3>2, <3>4, <4>3 DEF HomeInv
      <4> QED BY <4>1, <4>2, <4>3
    <3> HIDE DEF state
    <3> QED BY <2>1, <2>4, <2>5, <3>1, <3>3, <3>4 DEF HomeInv
  <2> QED BY <2>7, <2>8
<1>31. ASSUME CompactStarts PROVE HomeInv'
  BY <1>31 DEF CompactStarts, HomeInv, InQueue
<1>32. ASSUME ManualEnds PROVE HomeInv'
  BY <1>32 DEF HomeInv, InQueue, ManualEnds, Settled
<1>33. ASSUME EscapeCompaction PROVE HomeInv'
  BY <1>33 DEF EscapeCompaction, HomeInv, InQueue
<1>34. ASSUME EscapeWork PROVE HomeInv'
  BY <1>34, QueuedItems, InteractiveSessionAssumption DEF EscapeWork, Forgets,
         HomeInv, InQueue, Joined, Recall, Recalled, TakeQueuedImages
<1>35. ASSUME RequestExit PROVE HomeInv'
  BY <1>35, QueuedItems, InteractiveSessionAssumption DEF HomeInv, InQueue,
         RequestExit
<1>36. ASSUME SelectorExit PROVE HomeInv'
  BY <1>36, QueuedItems DEF HomeInv, InQueue, SelectorExit
<1>37. ASSUME ConfirmExit PROVE HomeInv'
  BY <1>37, QueuedItems DEF ConfirmExit, EmptyDraft, HomeInv, InQueue, Message
<1>38. ASSUME KeepEditing PROVE HomeInv'
  BY <1>38 DEF HomeInv, InQueue, KeepEditing
<1>39. ASSUME ShutdownStarts PROVE HomeInv'
  BY <1>39 DEF HomeInv, InQueue, ShutdownStarts
<1>40. ASSUME ShutdownAborts PROVE HomeInv'
  BY <1>40 DEF HomeInv, InQueue, ShutdownAborts
<1>41. ASSUME RuntimeCloses PROVE HomeInv'
  BY <1>41 DEF AgentTypes, HomeInv, InQueue, RuntimeCloses
<1>42. ASSUME UNCHANGED <<editor, cleared, draft, stored, source, prompt,
       attach, shown, agent, owner>> PROVE HomeInv'
  BY <1>42 DEF HomeInv, InQueue
<1> QED
  BY <1>1, <1>2, <1>3, <1>4, <1>5, <1>6, <1>7, <1>8, <1>9, <1>10, <1>11,
         <1>12, <1>13, <1>14, <1>15, <1>16, <1>17, <1>18, <1>19, <1>20, <1>21,
         <1>22, <1>23, <1>24, <1>25, <1>26, <1>27, <1>28, <1>29, <1>30, <1>31,
         <1>32, <1>33, <1>34, <1>35, <1>36, <1>37, <1>38, <1>39, <1>40, <1>41,
         <1>42 DEF AgentSteps, BoundedKeys, CompactSettles, EscapeManagement,
         FreeKeys, Keys, OpenExternal, ReplacementRefused, SaveEnds,
         ScreenNext, ScreenTasks, Selectors, Shutdown, ShutdownSaves,
         SignalExit, Tasks, TrustAnswered, TrustExit, allVars, screenVars

(* An item that leaves a place is at another one after the step.           *)
LEMMA PlaceInvKept ==
    ASSUME DraftTypes, FlagTypes, TaskTypes, AgentTypes, SessionTypes,
           TasksInv, ReplaceInv, KnownInv, QueuedInv, HomeInv, PlaceInv,
           ExitInv, [ScreenNext]_allVars
    PROVE  PlaceInv'
<1> USE DEF draftVars, exitVars, ghostVars, sessionVars, taskVars
<1>1. ASSUME NEW t \in Texts, Type(t) PROVE PlaceInv'
  BY <1>1, InteractiveSessionAssumption DEF Aside, GivesUp, Gone, InHistory,
         InQueue, KeyRead, PlaceInv, Plain, Type, WithTask
<1>2. ASSUME TypeSlash PROVE PlaceInv'
  BY <1>2, InteractiveSessionAssumption DEF Aside, Gone, InHistory, InQueue,
         Items, PlaceInv, TypeSlash, WithTask
<1>3. ASSUME CtrlC PROVE PlaceInv'
  BY <1>3 DEF Aside, CtrlC, Gone, InHistory, InQueue, PlaceInv, Slips,
         WithTask
<1>4. ASSUME ExternalReturns PROVE PlaceInv'
  BY <1>4 DEF Aside, ExternalReturns, Forgets, GivesUp, Gone, InHistory,
         InQueue, PlaceInv, WithTask
<1>5. ASSUME NEW i \in Images, StartAttachment(i) PROVE PlaceInv'
  BY <1>5, InteractiveSessionAssumption DEF Aside, Gone, InHistory, InQueue,
         Items, KeyRead, PlaceInv, Plain, StartAttachment, WithTask
<1>6. ASSUME AttachmentEnds PROVE PlaceInv'
  BY <1>6 DEF Aside, AttachmentEnds, GivesUp, Gone, InHistory, InQueue,
         PlaceInv, WithTask
<1>7. ASSUME ClearAttachments PROVE PlaceInv'
  BY <1>7, InteractiveSessionAssumption DEF Aside, ClearAttachments, GivesUp,
         Gone, InHistory, InQueue, Items, PlaceInv, WithTask
<1>8. ASSUME Submit PROVE PlaceInv'
  BY <1>8, InteractiveSessionAssumption DEF Aside, Forgets, GivesUp, Gone,
         InHistory, InQueue, PlaceInv, Submit, TasksInv, WithTask
<1>9. ASSUME SubmitRefused PROVE PlaceInv'
  BY <1>9, InteractiveSessionAssumption DEF Aside, Forgets, GivesUp, Gone,
         InHistory, InQueue, PlaceInv, SubmitRefused, WithTask
<1>10. ASSUME QueueInput PROVE PlaceInv'
  <2>1. /\ UNCHANGED <<owner, slips, history, source, attach, stored, prompt, shell>>
        /\ editor' = {} /\ draft' = {} /\ exit = "none" /\ exit' = "none"
        /\ given' = given \union (cleared \intersect Items)
    BY <1>10 DEF QueueInput, Plain, KeyRead, GivesUp
  <2>2. /\ agent'.queue = agent.queue \union {Message(editor, draft)}
        /\ agent'.customs = agent.customs
    BY <1>10 DEF QueueInput, AgentTypes
  <2>3. ASSUME NEW i PROVE (InQueue(i))' <=> InQueue(i) \/ i \in editor \/ i \in draft
    <3>1. /\ Message(editor, draft) \in agent'.queue
          /\ Message(editor, draft).text = editor
          /\ Message(editor, draft).images = draft
      BY <2>2 DEF Message
    <3> QED BY <2>2, <3>1 DEF InQueue
  <2>4. ASSUME NEW i \in Items PROVE Gone(i)' <=> Gone(i) \/ i \in cleared
    BY <2>1 DEF Gone, InHistory
  <2>5. ASSUME NEW i \in Items, i \in editor \/ Aside(i) \/ Gone(i) \/ WithTask(i)
        PROVE  Gone(i)' \/ (Aside(i))' \/ (WithTask(i))'
    BY <2>1, <2>2, <2>3, <2>4, <2>5 DEF Aside, WithTask
  <2> QED BY <2>1, <2>5 DEF PlaceInv
<1>11. ASSUME PromptStarts PROVE PlaceInv'
  <2>1. UNCHANGED <<owner, given, history, source, attach, stored, shell, exit>>
    BY <1>11 DEF PromptStarts
  <2>2. CASE UNCHANGED <<editor, cleared, draft, slips>>
              /\ agent' = [agent EXCEPT !.at = "opening", !.signal = FALSE]
              /\ prompt' = [prompt EXCEPT !.at = "waiting"]
    <3>1. /\ agent'.queue = agent.queue /\ agent'.customs = agent.customs
          /\ prompt'.text = prompt.text /\ prompt'.images = prompt.images
      BY <2>2 DEF AgentTypes, TaskTypes
    <3>2. ASSUME NEW i \in Items
          PROVE  /\ Gone(i)' <=> Gone(i)
                 /\ Aside(i)' <=> Aside(i)
                 /\ WithTask(i)' <=> WithTask(i)
      BY <2>1, <2>2, <3>1 DEF Gone, InHistory, Aside, InQueue, WithTask
    <3> QED BY <2>1, <2>2, <3>2 DEF PlaceInv
  <2>3. CASE /\ slips' = slips \union ((prompt.text \union prompt.images) \intersect Items)
             /\ UNCHANGED <<editor, cleared, draft, agent>>
    <3>1. ASSUME NEW i \in Items
          PROVE  /\ Gone(i)' <=> Gone(i) \/ i \in prompt.text \/ i \in prompt.images
                 /\ Aside(i)' <=> Aside(i)
                 /\ WithTask(i) => Gone(i)' \/ (WithTask(i))'
      BY <2>1, <2>3 DEF Gone, InHistory, Aside, InQueue, WithTask
    <3> QED BY <2>1, <2>3, <3>1 DEF PlaceInv
  <2>4. CASE /\ editor' = Joined(editor \union prompt.text)
             /\ draft' = draft \union prompt.images
             /\ cleared' = (IF editor' = {Slash} THEN cleared ELSE {})
             /\ slips' = slips \union
                   ((cleared \union (IF exit = "none" THEN {} ELSE
                         prompt.text \union prompt.images)) \intersect Items)
             /\ UNCHANGED agent
    <3>1. ASSUME NEW i \in Items
          PROVE  i \in editor' <=> i \in editor \/ i \in prompt.text
      BY <2>4, InteractiveSessionAssumption DEF Joined, Items
    <3>2. ASSUME NEW i \in Items
          PROVE  Gone(i)' <=> \/ Gone(i) \/ i \in cleared
                              \/ (exit # "none" /\ (i \in prompt.text \/ i \in prompt.images))
      BY <2>1, <2>4 DEF Gone, InHistory
    <3>3. ASSUME NEW i \in Items
          PROVE  /\ (Aside(i))' => Aside(i) \/ i \in prompt.images
                 /\ Aside(i) => (Aside(i))' \/ i \in cleared
                 /\ i \in prompt.images => (Aside(i))'
                 /\ WithTask(i) => (WithTask(i))' \/ i \in prompt.text \/ i \in prompt.images
      BY <2>1, <2>4 DEF Aside, InQueue, WithTask
    <3> QED BY <2>1, <3>1, <3>2, <3>3 DEF PlaceInv
  <2> QED BY <1>11, <2>2, <2>3, <2>4
          DEF PromptStarts, RestoreRejected, Forgets, Slips
<1>12. ASSUME PromptSettles PROVE PlaceInv'
  BY <1>12 DEF Aside, Gone, InHistory, InQueue, PlaceInv, PromptSettles,
         TasksInv, WithTask
<1>13. ASSUME AltUp PROVE PlaceInv'
  BY <1>13, QueuedItems, InteractiveSessionAssumption DEF AltUp, Aside,
         Forgets, Gone, InHistory, InQueue, Items, Joined, PlaceInv,
         QueuedInv, Recall, Recalled, Slips, TakeQueuedImages, TasksInv,
         WithTask
<1>14. ASSUME StartShell PROVE PlaceInv'
  BY <1>14, InteractiveSessionAssumption DEF Aside, Forgets, GivesUp, Gone,
         InHistory, InQueue, PlaceInv, StartShell, TasksInv, WithTask
<1>15. ASSUME ShellEnds PROVE PlaceInv'
  <2>1. UNCHANGED <<owner, given, slips, history, editor, cleared, draft, source,
                    attach, stored, prompt, exit>>
        /\ agent'.queue = agent.queue
    BY <1>15 DEF ShellEnds, AgentTypes
  <2>2. \/ (agent'.customs = agent.customs /\ shell'.text = shell.text)
        \/ agent'.customs = agent.customs \union shell.text
    BY <1>15 DEF ShellEnds, AgentTypes, TaskTypes
  <2>3. ASSUME NEW i \in Items
        PROVE  /\ Gone(i)' <=> Gone(i)
               /\ Aside(i)' <=> Aside(i)
               /\ WithTask(i) => WithTask(i)'
    BY <2>1, <2>2 DEF Gone, InHistory, Aside, InQueue, WithTask
  <2> QED BY <2>1, <2>3 DEF PlaceInv
<1>16. ASSUME RecordCommitted PROVE PlaceInv'
  BY <1>16 DEF Aside, Committed, Gone, InHistory, InQueue, PlaceInv,
         RecordCommitted, WithTask
<1>17. ASSUME RecordSettles PROVE PlaceInv'
  BY <1>17 DEF Aside, Gone, InHistory, InQueue, PlaceInv, RecordSettles,
         TasksInv, WithTask
<1>18. ASSUME PromptCommitted PROVE PlaceInv'
  <2>1. /\ UNCHANGED <<owner, given, slips, editor, cleared, draft, source,
                       attach, stored, shell, exit>>
        /\ agent'.queue = agent.queue /\ agent'.customs = {}
        /\ prompt'.text = {} /\ prompt'.images = {}
    BY <1>18 DEF PromptCommitted, Settled, AgentTypes, TaskTypes, NoPrompt
  <2>2. history' = [history EXCEPT ![shown] =
            WithRecords(@ \union {Message(prompt.text, prompt.images)})]
    BY <1>18 DEF PromptCommitted
  <2>3. ASSUME NEW i PROVE
            (InHistory(i))' <=> \/ InHistory(i) \/ i \in prompt.text
                                \/ i \in prompt.images \/ i \in agent.customs
    <3>1. shown \in Convs /\ history \in [Convs -> SUBSET Messages]
      BY DEF SessionTypes
    <3>2. history'[shown] = WithRecords(history[shown]
                               \union {Message(prompt.text, prompt.images)})
      BY <2>2, <3>1
    <3>3. \A c \in Convs \ {shown} : history'[c] = history[c]
      BY <2>2, <3>1
    <3>4. \A m : m \in history'[shown] <=>
              \/ m \in history[shown] \/ m = Message(prompt.text, prompt.images)
              \/ (agent.customs # {} /\ m = Message(agent.customs, {}))
      BY <3>2 DEF WithRecords
    <3>5. /\ Message(agent.customs, {}).text = agent.customs
          /\ Message(agent.customs, {}).images = {}
          /\ Message(prompt.text, prompt.images).text = prompt.text
          /\ Message(prompt.text, prompt.images).images = prompt.images
      BY DEF Message
    <3>6. ASSUME i \in prompt.text \/ i \in prompt.images PROVE (InHistory(i))'
      BY <3>1, <3>4, <3>5, <3>6 DEF InHistory
    <3>7. ASSUME i \in agent.customs PROVE (InHistory(i))'
      BY <3>1, <3>4, <3>5, <3>7 DEF InHistory
    <3>8. ASSUME InHistory(i) PROVE (InHistory(i))'
      BY <3>1, <3>3, <3>4, <3>8 DEF InHistory
    <3> QED BY <3>1, <3>3, <3>4, <3>5, <3>6, <3>7, <3>8 DEF InHistory
  <2>4. ASSUME NEW i \in Items
        PROVE  /\ Gone(i) => Gone(i)'
               /\ Aside(i)' <=> Aside(i)
               /\ WithTask(i) => Gone(i)' \/ WithTask(i)'
    BY <2>1, <2>3 DEF Gone, Aside, InQueue, WithTask
  <2> QED BY <2>1, <2>4 DEF PlaceInv
<1>19. ASSUME PromptDropped PROVE PlaceInv'
  <2>1. /\ UNCHANGED <<owner, given, editor, cleared, draft, source,
                       attach, stored, shell, exit>>
        /\ agent'.queue = agent.queue /\ agent'.customs = {}
        /\ slips' = slips \union ((prompt.text \union prompt.images) \intersect Items)
    BY <1>19 DEF PromptDropped, Settled, AgentTypes, Slips
  <2>2. history' = [history EXCEPT ![shown] = WithRecords(@)]
    BY <1>19 DEF PromptDropped
  <2>3. ASSUME NEW i
        PROVE  (InHistory(i))' <=> InHistory(i) \/ i \in agent.customs
    BY <2>2, RecordsJoin
  <2>4. ASSUME NEW i \in Items
        PROVE  /\ Gone(i) => Gone(i)'
               /\ Aside(i)' <=> Aside(i)
               /\ WithTask(i) => Gone(i)' \/ WithTask(i)'
    BY <2>1, <2>3 DEF Gone, Aside, InQueue, WithTask
  <2> QED BY <2>1, <2>4 DEF PlaceInv
<1>20. ASSUME NEW m \in Messages, Drain(m) PROVE PlaceInv'
  BY <1>20 DEF Aside, Drain, Gone, InHistory, InQueue, PlaceInv, SessionTypes,
         WithTask
<1>21. ASSUME RunEnds PROVE PlaceInv'
  <2>1. /\ UNCHANGED <<owner, given, slips, editor, cleared, draft, source,
                       attach, stored, shell, exit>>
        /\ agent'.queue = agent.queue /\ agent'.customs = {}
        /\ prompt.text = {} /\ prompt.images = {}
    BY <1>21 DEF RunEnds, Settled, AgentTypes, TasksInv
  <2>2. history' = [history EXCEPT ![shown] = WithRecords(@)]
    BY <1>21 DEF RunEnds
  <2>3. ASSUME NEW i
        PROVE  (InHistory(i))' <=> InHistory(i) \/ i \in agent.customs
    BY <2>2, RecordsJoin
  <2>4. ASSUME NEW i \in Items
        PROVE  /\ Gone(i) => Gone(i)'
               /\ Aside(i)' <=> Aside(i)
               /\ WithTask(i) => Gone(i)' \/ WithTask(i)'
    BY <2>1, <2>3 DEF Gone, Aside, InQueue, WithTask
  <2> QED BY <2>1, <2>4 DEF PlaceInv
<1>22. ASSUME StartReplacement PROVE PlaceInv'
  <2>1. /\ UNCHANGED <<owner, given, slips, history, cleared, draft, source,
                       attach, agent, stored, prompt, shell>>
        /\ editor = {Slash} /\ editor' = {} /\ exit = "none" /\ exit' = exit
    BY <1>22 DEF StartReplacement, Plain, KeyRead
  <2>2. ASSUME NEW i \in Items
        PROVE  /\ Gone(i)' <=> Gone(i)
               /\ Aside(i)' <=> Aside(i)
               /\ WithTask(i)' <=> WithTask(i)
    BY <2>1 DEF Gone, InHistory, Aside, InQueue, WithTask
  <2> QED BY <2>1, <2>2, InteractiveSessionAssumption DEF PlaceInv, Items
<1>23. ASSUME StartCompact PROVE PlaceInv'
  BY <1>23, InteractiveSessionAssumption DEF Aside, Gone, InHistory, InQueue,
         Items, PlaceInv, StartCompact, WithTask
<1>24. ASSUME NEW kind \in {"save", "export"}, NEW c \in Convs, StartSave(kind, c) PROVE PlaceInv'
  BY <1>24, InteractiveSessionAssumption DEF Aside, Gone, InHistory, InQueue,
         Items, PlaceInv, StartSave, WithTask
<1>25. ASSUME NEW kind \in Selectors, OpenSelector(kind) PROVE PlaceInv'
  BY <1>25, InteractiveSessionAssumption DEF Aside, Gone, InHistory, InQueue,
         Items, OpenSelector, PlaceInv, WithTask
<1>26. ASSUME NEW kind \in Selectors, LeaveSelector(kind) PROVE PlaceInv'
  BY <1>26 DEF Aside, Gone, InHistory, InQueue, LeaveSelector, PlaceInv,
         Slips, WithTask
<1>27. ASSUME NEW kind \in Selectors, ChooseInSelector(kind) PROVE PlaceInv'
  BY <1>27 DEF Aside, ChooseInSelector, Gone, InHistory, InQueue, PlaceInv,
         Slips, WithTask
<1>28. ASSUME ReplacementPrepares PROVE PlaceInv'
  <2>1. /\ UNCHANGED <<owner, given, slips, history, stored, attach, prompt, shell, exit>>
        /\ editor' = {} /\ cleared' = {}
        /\ source' = Recalled(editor \union cleared)
        /\ draft' = draft \union (Queued \intersect queuedImages)
        /\ agent'.queue = {} /\ agent'.customs = agent.customs
    BY <1>28 DEF ReplacementPrepares, SetAside, TakeQueuedImages, AgentTypes
  <2>2. source = {}
    BY <1>28 DEF ReplacementPrepares, ReplaceInv
  <2>3. ASSUME NEW i \in Items
        PROVE  i \in source' <=> \/ i \in editor \/ i \in cleared
                                 \/ (InQueue(i) /\ i \in Texts)
    BY <2>1, QueuedItems, InteractiveSessionAssumption DEF Recalled, Joined, Items
  <2>4. ASSUME NEW i \in Items, InQueue(i) PROVE i \in Texts \/ i \in draft'
    BY <2>1, <2>4, QueuedItems DEF QueuedInv, Items
  <2>5. ASSUME NEW i \in Items PROVE i \in draft' => i \in draft \/ InQueue(i)
    BY <2>1, QueuedItems
  <2>6. ASSUME NEW i \in Items
        PROVE  /\ Gone(i)' <=> Gone(i)
               /\ WithTask(i)' <=> WithTask(i)
               /\ (Aside(i))' <=> i \in editor \/ Aside(i)
    BY <2>1, <2>2, <2>3, <2>4, <2>5 DEF Gone, InHistory, Aside, InQueue, WithTask
  <2> QED BY <2>1, <2>6 DEF PlaceInv
<1>29. ASSUME ReplacementFails PROVE PlaceInv'
  BY <1>29, InteractiveSessionAssumption DEF Aside, Gone, HomeInv, InHistory,
         InQueue, Items, Joined, PlaceInv, ReplacementFails, SourceText,
         SwitchOver, WithTask
<1>30. ASSUME ReplacementPublished PROVE PlaceInv'
  <2> DEFINE c == manage.target
             state == IF manage.kind = "fork" THEN CHOOSE m \in manage.copy : TRUE
                      ELSE stored[c]
  <2>1. /\ UNCHANGED <<given, slips, prompt, attach, shell, exit>>
        /\ cleared' = {} /\ source' = {} /\ agent' = IdleAgent
    BY <1>30 DEF ReplacementPublished, SwitchOver
  <2>2. /\ c \in Convs /\ shown \in Convs
        /\ prompt.text = {} /\ prompt.images = {} /\ shell.text = {}
        /\ agent.customs = {} /\ agent.queue = {} /\ attach = None
        /\ manage.kind # "fork" => manage.copy = {}
        /\ manage.kind = "fork" => \E m \in history[shown] : manage.copy = {m}
        /\ c \in known => manage.kind = "resume"
        /\ shown \in known
    BY <1>30 DEF ReplacementPublished, ReplaceInv, Replacing, TasksInv, SessionTypes,
              TaskTypes
  <2>3. /\ history' = [history EXCEPT ![c] =
                          IF manage.kind = "clone" THEN history[shown] ELSE @]
        /\ owner' = [i \in Items |-> IF i \in AllOf(manage.copy)
                                     THEN owner[i] \union {c} ELSE owner[i]]
    BY <1>30 DEF ReplacementPublished
  <2>4. ASSUME NEW i, InHistory(i) PROVE (InHistory(i))'
    <3>1. manage.kind = "clone" => history[c] = {}
      BY <2>2 DEF KnownInv
    <3> QED BY <2>2, <2>3, <2>4, <3>1 DEF InHistory, SessionTypes
  <2>5. ASSUME NEW i \in Items, owner'[i] # {} PROVE owner[i] # {} \/ InHistory(i)
    BY <2>2, <2>3, <2>5 DEF AllOf, Contents, InHistory
  <2>6. CASE c = shown
    <3>1. /\ UNCHANGED <<draft, stored>>
          /\ editor' = Joined(source \union editor \union cleared)
      BY <1>30, <2>6 DEF ReplacementPublished, SourceText
    <3>2. ASSUME NEW i \in Items
          PROVE  i \in editor' <=> i \in source \/ i \in editor \/ i \in cleared
      BY <3>1, InteractiveSessionAssumption DEF Joined, Items
    <3>3. ASSUME NEW i \in Items
          PROVE  (Aside(i))' \/ i \in editor' <=> Aside(i) \/ i \in editor
      BY <2>1, <2>2, <3>1, <3>2 DEF Aside, InQueue, IdleAgent
    <3> QED BY <2>1, <2>2, <2>4, <2>5, <3>3 DEF PlaceInv, Gone, WithTask, IdleAgent
  <2>7. CASE c # shown
    <3>1. /\ editor' = state.text /\ draft' = state.images
          /\ stored' = [stored EXCEPT ![shown] = Message(SourceText, draft),
                                      ![c] = EmptyDraft]
      BY <1>30, <2>7 DEF ReplacementPublished, SwitchDrafts
    <3>2. /\ stored'[c] = EmptyDraft
          /\ stored'[shown] = Message(SourceText, draft)
          /\ \A d \in Convs \ {c, shown} : stored'[d] = stored[d]
      BY <2>2, <2>7, <3>1 DEF DraftTypes
    <3>3. ASSUME NEW i \in Items
          PROVE  i \in SourceText <=> i \in source \/ i \in editor \/ i \in cleared
      BY InteractiveSessionAssumption DEF SourceText, Joined, Items
    <3>4. /\ manage.kind = "fork" => state \in history[shown]
          /\ manage.kind # "fork" => state = stored[c]
      BY <2>2
    <3>5. /\ stored[shown] = EmptyDraft
          /\ manage.kind # "resume" => stored[c] = EmptyDraft
      BY <2>2 DEF KnownInv
    <3>6. ASSUME NEW i \in Items, i \in state.text \/ i \in state.images
          PROVE  Aside(i) \/ InHistory(i)
      BY <2>2, <3>4, <3>6 DEF Aside, InHistory
    <3>7. ASSUME NEW i \in Items, (Aside(i))' \/ i \in editor'
          PROVE  Aside(i) \/ i \in editor \/ InHistory(i)
      <4>1. CASE i \in editor' \/ i \in draft'
        BY <3>1, <3>6, <4>1
      <4>2. CASE \E d \in Convs : i \in stored'[d].text \/ i \in stored'[d].images
        BY <2>2, <3>2, <3>3, <4>2 DEF Aside, EmptyDraft, Message
      <4> QED BY <2>1, <2>2, <3>7, <4>1, <4>2 DEF Aside, InQueue, IdleAgent
    <3>8. ASSUME NEW i \in Items, Aside(i) \/ i \in editor
          PROVE  (Aside(i))' \/ i \in editor'
      <4>1. CASE \/ i \in source \/ i \in editor \/ i \in cleared \/ i \in draft
        <5>1. i \in stored'[shown].text \/ i \in stored'[shown].images
          BY <3>2, <3>3, <4>1 DEF Message
        <5> QED BY <2>2, <5>1 DEF Aside
      <4>2. CASE \E d \in Convs : i \in stored[d].text \/ i \in stored[d].images
        <5>1. PICK d \in Convs : i \in stored[d].text \/ i \in stored[d].images
          BY <4>2
        <5>2. CASE d = c
          BY <3>1, <3>4, <3>5, <5>1, <5>2 DEF Aside, EmptyDraft, Message
        <5>3. CASE d # c
          BY <2>2, <3>2, <3>5, <5>1, <5>3 DEF Aside, EmptyDraft, Message
        <5> QED BY <5>2, <5>3
      <4> QED BY <2>2, <3>8, <4>1, <4>2 DEF Aside, InQueue
    <3> HIDE DEF state
    <3> QED BY <2>1, <2>2, <2>4, <2>5, <3>7, <3>8
            DEF PlaceInv, Gone, WithTask, IdleAgent
  <2> QED BY <2>6, <2>7
<1>31. ASSUME CompactStarts PROVE PlaceInv'
  BY <1>31 DEF Aside, CompactStarts, Gone, InHistory, InQueue, PlaceInv,
         WithTask
<1>32. ASSUME ManualEnds PROVE PlaceInv'
  BY <1>32 DEF Aside, Gone, InHistory, InQueue, ManualEnds, PlaceInv, Settled,
         TasksInv, WithTask
<1>33. ASSUME EscapeCompaction PROVE PlaceInv'
  BY <1>33 DEF Aside, EscapeCompaction, Gone, InHistory, InQueue, PlaceInv,
         WithTask
<1>34. ASSUME EscapeWork PROVE PlaceInv'
  BY <1>34, QueuedItems, InteractiveSessionAssumption DEF Aside, EscapeWork,
         Forgets, Gone, HomeInv, InHistory, InQueue, Items, Joined, PlaceInv,
         QueuedInv, Recall, Recalled, Slips, TakeQueuedImages, WithTask
<1>35. ASSUME RequestExit PROVE PlaceInv'
  <2>1. UNCHANGED <<owner, given, slips, history, cleared, draft, source, attach,
                   agent, stored, prompt, shell>> /\ editor' = {} /\ exit = "none"
    BY <1>35 DEF RequestExit, Plain, KeyRead
  <2>2. ASSUME NEW i \in Items
        PROVE  /\ Gone(i)' <=> Gone(i)
               /\ Aside(i)' <=> Aside(i)
               /\ WithTask(i)' <=> WithTask(i)
    BY <2>1 DEF Gone, InHistory, Aside, InQueue, WithTask
  <2>3. exit' = exit \/ (exit' = "requested" /\ Unsubmitted({}) = {})
    BY <1>35 DEF RequestExit, AskOrExit
  <2>4. ASSUME NEW i \in Items, exit' = "requested" PROVE ~ Aside(i)
    BY <2>1, <2>3, <2>4, WaitingItems
  <2>5. editor = {} \/ editor = {Slash}
    BY <1>35 DEF RequestExit
  <2> QED BY <2>1, <2>2, <2>3, <2>4, <2>5, InteractiveSessionAssumption
          DEF PlaceInv, Items
<1>36. ASSUME SelectorExit PROVE PlaceInv'
  BY <1>36, QueuedItems, WaitingItems DEF Aside, AskOrExit, Gone, InHistory,
         InQueue, KeyRead, PlaceInv, Selecting, SelectorExit, Slips, WithTask
<1>37. ASSUME TrustExit PROVE PlaceInv'
  BY <1>37, QueuedItems, WaitingItems DEF Aside, Gone, InHistory, InQueue,
         PlaceInv, Slips, TrustExit, WithTask
<1>38. ASSUME SignalExit PROVE PlaceInv'
  <2>1. ASSUME NEW i \in Items, i \in editor \/ Aside(i) PROVE owner[i] # {}
    BY <2>1 DEF HomeInv, Aside
  <2>2. ASSUME NEW i \in Items, owner[i] # {} PROVE Gone(i)'
    BY <1>38, <2>2 DEF SignalExit, Seen, Gone
  <2>3. exit' = "requested" /\ UNCHANGED <<owner, editor>>
    BY <1>38 DEF SignalExit
  <2>4. ASSUME NEW i \in Items PROVE Aside(i)' => Aside(i)
    BY <1>38 DEF SignalExit, Aside, InQueue
  <2> QED BY <2>1, <2>2, <2>3, <2>4 DEF PlaceInv
<1>39. ASSUME ConfirmExit PROVE PlaceInv'
  BY <1>39, QueuedItems, WaitingItems DEF Aside, ConfirmExit, EmptyDraft,
         GivesUp, Gone, InHistory, InQueue, Message, PlaceInv, WithTask
<1>40. ASSUME KeepEditing PROVE PlaceInv'
  BY <1>40 DEF Aside, Gone, InHistory, InQueue, KeepEditing, PlaceInv, Slips,
         WithTask
<1>41. ASSUME ShutdownStarts PROVE PlaceInv'
  BY <1>41 DEF Aside, Gone, InHistory, InQueue, PlaceInv, ShutdownStarts,
         WithTask
<1>42. ASSUME ShutdownAborts PROVE PlaceInv'
  BY <1>42 DEF Aside, Gone, InHistory, InQueue, PlaceInv, ShutdownAborts,
         Slips, WithTask
<1>43. ASSUME ShutdownSaves PROVE PlaceInv'
  BY <1>43 DEF Aside, Gone, InHistory, InQueue, PlaceInv, ShutdownSaves,
         WithTask
<1>44. ASSUME RuntimeCloses PROVE PlaceInv'
  BY <1>44 DEF AgentTypes, Aside, ExitInv, Gone, InHistory, InQueue, PlaceInv,
         RuntimeCloses, TasksInv, WithTask
<1>45. ASSUME UNCHANGED <<editor, cleared, draft, stored, source, prompt,
       attach, shell, exit, agent, history, owner, given, slips>> PROVE
       PlaceInv'
  BY <1>45 DEF Aside, Gone, InHistory, InQueue, PlaceInv, WithTask
<1> QED
  BY <1>1, <1>2, <1>3, <1>4, <1>5, <1>6, <1>7, <1>8, <1>9, <1>10, <1>11,
         <1>12, <1>13, <1>14, <1>15, <1>16, <1>17, <1>18, <1>19, <1>20, <1>21,
         <1>22, <1>23, <1>24, <1>25, <1>26, <1>27, <1>28, <1>29, <1>30, <1>31,
         <1>32, <1>33, <1>34, <1>35, <1>36, <1>37, <1>38, <1>39, <1>40, <1>41,
         <1>42, <1>43, <1>44, <1>45 DEF AgentSteps, BoundedKeys,
         CompactSettles, EscapeManagement, FreeKeys, Keys, OpenExternal,
         ReplacementRefused, SaveEnds, ScreenNext, ScreenTasks, Selectors,
         Shutdown, Tasks, TrustAnswered, allVars, screenVars

(* What the way out has waited for does not start again.                   *)
LEMMA ExitInvKept ==
    ASSUME TaskTypes, AgentTypes, SessionTypes, TasksInv, ExitInv,
           [ScreenNext]_allVars
    PROVE  ExitInv'
<1> USE DEF draftVars, exitVars, ghostVars, sessionVars, taskVars
<1>1. ASSUME Submit PROVE ExitInv'
  BY <1>1 DEF ExitInv, KeyRead, Plain, Submit
<1>2. ASSUME QueueInput PROVE ExitInv'
  BY <1>2 DEF ExitInv, QueueInput
<1>3. ASSUME PromptStarts PROVE ExitInv'
  BY <1>3 DEF ExitInv, PromptStarts
<1>4. ASSUME PromptSettles PROVE ExitInv'
  BY <1>4 DEF ExitInv, PromptSettles
<1>5. ASSUME AltUp PROVE ExitInv'
  BY <1>5 DEF AltUp, Covered, ExitInv
<1>6. ASSUME StartShell PROVE ExitInv'
  BY <1>6 DEF ExitInv, KeyRead, Plain, StartShell
<1>7. ASSUME ShellEnds PROVE ExitInv'
  BY <1>7 DEF ExitInv, ShellEnds
<1>8. ASSUME RecordCommitted PROVE ExitInv'
  BY <1>8 DEF ExitInv, RecordCommitted, TasksInv
<1>9. ASSUME RecordSettles PROVE ExitInv'
  BY <1>9 DEF Covered, ExitInv, NoShell, RecordSettles
<1>10. ASSUME PromptCommitted PROVE ExitInv'
  BY <1>10 DEF ExitInv, PromptCommitted, TasksInv
<1>11. ASSUME PromptDropped PROVE ExitInv'
  BY <1>11 DEF ExitInv, PromptDropped, TasksInv
<1>12. ASSUME NEW m \in Messages, Drain(m) PROVE ExitInv'
  BY <1>12 DEF AllOf, Covered, Drain, ExitInv, SaveHolds, SessionUnsaved,
         Unsaved
<1>13. ASSUME RunEnds PROVE ExitInv'
  BY <1>13 DEF ExitInv, RunEnds, TasksInv
<1>14. ASSUME StartReplacement PROVE ExitInv'
  BY <1>14 DEF ExitInv, KeyRead, Plain, StartReplacement
<1>15. ASSUME StartCompact PROVE ExitInv'
  BY <1>15 DEF ExitInv, KeyRead, Plain, StartCompact
<1>16. ASSUME NEW kind \in {"save", "export"}, NEW c \in Convs, StartSave(kind, c) PROVE ExitInv'
  BY <1>16 DEF ExitInv, KeyRead, Plain, StartSave
<1>17. ASSUME NEW kind \in Selectors, ChooseInSelector(kind) PROVE ExitInv'
  BY <1>17 DEF ChooseInSelector, ExitInv, KeyRead, Selecting
<1>18. ASSUME ReplacementPrepares PROVE ExitInv'
  BY <1>18 DEF ExitInv, ReplacementPrepares
<1>19. ASSUME ReplacementRefused PROVE ExitInv'
  BY <1>19 DEF ExitInv, ReplacementRefused
<1>20. ASSUME TrustAnswered PROVE ExitInv'
  BY <1>20 DEF ExitInv, TrustAnswered
<1>21. ASSUME ReplacementFails PROVE ExitInv'
  BY <1>21 DEF ExitInv, ReplacementFails, SwitchOver
<1>22. ASSUME ReplacementPublished PROVE ExitInv'
  BY <1>22 DEF ExitInv, ReplacementPublished, SwitchOver
<1>23. ASSUME CompactStarts PROVE ExitInv'
  BY <1>23 DEF CompactStarts, ExitInv
<1>24. ASSUME ManualEnds PROVE ExitInv'
  BY <1>24 DEF AllOf, Contents, Covered, ExitInv, ManualEnds, Message, Reply,
         SaveFails, SaveHolds, SessionTypes
<1>25. ASSUME CompactSettles PROVE ExitInv'
  BY <1>25 DEF CompactSettles, ExitInv
<1>26. ASSUME SaveEnds PROVE ExitInv'
  BY <1>26 DEF ExitInv, SaveEnds
<1>27. ASSUME EscapeCompaction PROVE ExitInv'
  BY <1>27 DEF Covered, EscapeCompaction, ExitInv
<1>28. ASSUME EscapeManagement PROVE ExitInv'
  BY <1>28 DEF EscapeManagement, ExitInv
<1>29. ASSUME EscapeWork PROVE ExitInv'
  BY <1>29 DEF Covered, EscapeWork, ExitInv
<1>30. ASSUME RequestExit PROVE ExitInv'
  BY <1>30 DEF AskOrExit, Covered, ExitInv, RequestExit
<1>31. ASSUME SelectorExit PROVE ExitInv'
  BY <1>31 DEF AskOrExit, Covered, ExitInv, SelectorExit
<1>32. ASSUME TrustExit PROVE ExitInv'
  BY <1>32 DEF ExitInv, TrustExit
<1>33. ASSUME SignalExit PROVE ExitInv'
  BY <1>33 DEF ExitInv, SignalExit
<1>34. ASSUME ConfirmExit PROVE ExitInv'
  BY <1>34 DEF ConfirmExit, ExitInv
<1>35. ASSUME KeepEditing PROVE ExitInv'
  BY <1>35 DEF ExitInv, KeepEditing, KeyRead
<1>36. ASSUME ShutdownStarts PROVE ExitInv'
  BY <1>36 DEF ExitInv, ShutdownStarts
<1>37. ASSUME ShutdownAborts PROVE ExitInv'
  BY <1>37 DEF ExitInv, ShutdownAborts
<1>38. ASSUME ShutdownSaves PROVE ExitInv'
  BY <1>38 DEF AllOf, Covered, ExitInv, ShutdownSaves, Uncovered, Unsaved
<1>39. ASSUME RuntimeCloses PROVE ExitInv'
  BY <1>39 DEF AgentBusy, Covered, ExitInv, RuntimeCloses
<1>40. ASSUME UNCHANGED <<prompt, manage, shell, exit, discard, agent,
       history, unsaved, backups>> PROVE ExitInv'
  BY <1>40 DEF Covered, ExitInv
<1> QED
  BY <1>1, <1>2, <1>3, <1>4, <1>5, <1>6, <1>7, <1>8, <1>9, <1>10, <1>11,
         <1>12, <1>13, <1>14, <1>15, <1>16, <1>17, <1>18, <1>19, <1>20, <1>21,
         <1>22, <1>23, <1>24, <1>25, <1>26, <1>27, <1>28, <1>29, <1>30, <1>31,
         <1>32, <1>33, <1>34, <1>35, <1>36, <1>37, <1>38, <1>39, <1>40 DEF
         AgentSteps, AttachmentEnds, BoundedKeys, ClearAttachments, CtrlC,
         ExternalReturns, FreeKeys, Keys, LeaveSelector, OpenExternal,
         OpenSelector, ScreenNext, ScreenTasks, Selectors, Shutdown,
         StartAttachment, SubmitRefused, Tasks, Type, TypeSlash, allVars,
         screenVars

-----------------------------------------------------------------------------
(* The theorem                                                             *)

LEMMA ScreenStarts == ScreenInit => ScreenInv
<1> SUFFICES ASSUME ScreenInit PROVE ScreenInv
  OBVIOUS
<1>1. shown \in Convs /\ known = {shown}
  BY InteractiveSessionAssumption DEF ScreenInit
<1>2. DraftTypes /\ FlagTypes
  BY DEF ScreenInit, DraftTypes, FlagTypes, Drafts, EmptyDraft, Message
<1>3. TaskTypes /\ AgentTypes
  BY DEF ScreenInit, TaskTypes, AgentTypes, NoPrompt, NoTask, NoShell, IdleAgent
<1>4. SessionTypes
  BY <1>1 DEF ScreenInit, SessionTypes
<1>5. TasksInv /\ ReplaceInv /\ ExitInv
  BY DEF ScreenInit, TasksInv, ReplaceInv, Replacing, ExitInv, NoPrompt, NoTask,
         NoShell, IdleAgent
<1>6. KnownInv
  BY <1>1 DEF ScreenInit, KnownInv
<1>7. QueuedInv
  BY DEF ScreenInit, QueuedInv, InQueue, IdleAgent
<1>8. HomeInv
  BY DEF ScreenInit, HomeInv, InQueue, IdleAgent, EmptyDraft, Message, NoPrompt
<1>9. PlaceInv
  BY DEF ScreenInit, PlaceInv
<1> QED BY <1>2, <1>3, <1>4, <1>5, <1>6, <1>7, <1>8, <1>9 DEF ScreenInv

LEMMA ScreenInvKept == ScreenInv /\ [ScreenNext]_allVars => ScreenInv'
BY DraftTypesKept, FlagTypesKept, TaskTypesKept, AgentTypesKept,
   SessionTypesKept, TasksInvKept, ReplaceInvKept, KnownInvKept,
   QueuedInvKept, HomeInvKept, PlaceInvKept, ExitInvKept DEF ScreenInv

LEMMA ScreenInvSuffices == ScreenInv => NothingLost
<1> SUFFICES ASSUME ScreenInv PROVE NothingLost
  OBVIOUS
<1> USE DEF ScreenInv
<1>1. NothingDropped
  <2> SUFFICES ASSUME NEW i \in Items, owner[i] # {},
                      i \notin given, i \notin slips, i \notin InHistories
               PROVE  exit # "done" /\ i \in StillHeld
    BY DEF NothingDropped, Seen
  <2>1. ~ Gone(i)
    BY HistoryItems DEF Gone
  <2>2. exit # "done" /\ (i \in editor \/ Aside(i) \/ WithTask(i))
    BY <2>1 DEF PlaceInv
  <2> QED BY <2>2, WaitingItems DEF StillHeld, WithTask
<1>2. DraftsStayHome
  BY QueuedItems DEF DraftsStayHome, HomeInv, Contents
<1>3. ExitCoversHistories
  BY DEF ExitCoversHistories, ExitInv, Covered
<1> QED BY <1>1, <1>2, <1>3 DEF NothingLost

(* Whatever the user types, attaches, queues, recalls, switches or cancels *)
(* on the interactive screen, with any number of texts, images and         *)
(* conversations: until the user gives it up it is on the screen, with a   *)
(* task, in the agent's queues or in a history, or it was dropped at one   *)
(* of the places where interactive.py itself drops it; drafts stay in the  *)
(* conversation they were typed in; and the screen closes only when every  *)
(* unsaved history is saved, backed up or abandoned by the user.           *)
THEOREM NothingIsLost == ScreenSpec => []NothingLost
<1>1. ScreenSpec => []ScreenInv
  BY ScreenStarts, ScreenInvKept, PTL DEF ScreenSpec
<1> QED BY <1>1, ScreenInvSuffices, PTL

=============================================================================

--------------------------- MODULE CodingSession ---------------------------
(***************************************************************************)
(* The application's sessions: the Agent's history, the manager that saves *)
(* it to one JSONL file under an advisory lock, and the runtime that       *)
(* replaces the current session by a new, an opened or a derived one.      *)
(*                                                                         *)
(* The bodies under the manager's lock do not wait, so a commit, a save    *)
(* and a close are one step each; a failing write may leave any part of    *)
(* its text, and so may a process that is lost in the middle of one.  A    *)
(* switch is admitted, prepared and owned; between these steps everybody   *)
(* else runs.                                                              *)
(***************************************************************************)
EXTENDS Naturals, SequencesExt

CONSTANTS Paths, NoPath,
    MaxSessions, MaxEntries, MaxSaves, MaxMishaps

ASSUME CodingSessionAssumption ==
    /\ NoPath \notin Paths
    /\ MaxSessions \in Nat \ {0}
    /\ {MaxEntries, MaxSaves, MaxMishaps} \subseteq Nat

VARIABLES
    sessions,      \* every AgentSession of this process, oldest first
    current,       \* AgentSessionRuntime.current_session, 0 for none
    switch,        \* _preparing and _switch_task
    closing,       \* AgentSessionRuntime._close_task
    files,         \* path -> file
    entries,       \* history entries made so far
    saves,         \* explicit saves, exports and changes of a path so far
    mishaps,       \* failed writes and lost processes so far
    acknowledged,  \* path -> the history last written there with success
    forsaken       \* paths given up under a candidate, see Forsake

disk == <<files, acknowledged>>
counts == <<entries, saves, mishaps>>
vars == <<sessions, current, switch, closing, disk, counts, forsaken>>

-----------------------------------------------------------------------------
(* The text of a file.  An entry names itself and its parent; the header    *)
(* counts the entries it was written with.                                 *)

Line(kind, n, parent) == [kind |-> kind, n |-> n, parent |-> parent]
Torn == Line("torn", 0, 0)

Entries == [kind : {"setup", "message"},
            n : 1..MaxEntries, parent : 0..MaxEntries]

(* encode_history: the header counts the records of the snapshot           *)
Text(history) == <<Line("header", Len(history), 0)>> \o history

(* Of a file, the lines that decode_history reads, and what stands after    *)
(* the last line break: nothing, a whole line or a part of one.  A broken   *)
(* line in the middle is skipped by whoever reads, so it is not kept.       *)
NoFile == [made |-> FALSE, lines |-> <<>>, rest |-> <<>>]

(* What a file is after an append.  A line put after an unterminated one   *)
(* makes one broken line with it.                                          *)
Appended(file, text) ==
    IF text = <<>> THEN [file EXCEPT !.made = TRUE]
    ELSE [made |-> TRUE, rest |-> <<>>,
          lines |-> file.lines \o
                        (IF file.rest = <<>> THEN text ELSE Tail(text))]

(* A part of a line after the last line break                              *)
Broken(file, line) ==
    [file EXCEPT !.made = TRUE,
                 !.rest = IF @ = <<>> THEN <<line>> ELSE <<Torn>>]

(* What an append that stops anywhere may leave                            *)
CutShort(file, text) ==
    LET part(k) == Appended(file, SubSeq(text, 1, k)) IN
    {part(k) : k \in 0..Len(text)}
    \union {Broken(part(k), text[k + 1]) : k \in 0..Len(text) - 1}
    \union {Broken(part(k), Torn) : k \in 0..Len(text) - 1}

(* decode_history: broken lines are skipped.  Of an entry its number, its   *)
(* parent and its kind are kept, whatever else _encode writes in the line.  *)
Records(file) ==
    file.lines \o (IF file.rest = <<Torn>> THEN <<>> ELSE file.rest)
Decoded(file) == Tail(Records(file))

(* validate_history: known parents, distinct identifiers.  There are no     *)
(* compactions and no edits here, whose targets it also looks for.          *)
ValidHistory(history) ==
    \A i \in 1..Len(history) :
        /\ \A j \in 1..i - 1 : history[j].n # history[i].n
        /\ history[i].parent # 0 =>
              \E j \in 1..i - 1 : history[j].n = history[i].parent

Readable(file) ==
    /\ Records(file) # <<>>
    /\ Records(file)[1].kind = "header"
    /\ \A i \in 2..Len(Records(file)) : Records(file)[i].kind # "header"
    /\ Records(file)[1].n <= Len(Decoded(file))
    /\ ValidHistory(Decoded(file))

-----------------------------------------------------------------------------
(* Sessions                                                                *)

Session(history, path, writer, save) ==
    [hist |-> history, agent |-> "idle", shut |-> FALSE,
     path |-> path, writer |-> writer, closed |-> FALSE, save |-> save]

NoSwitch == [phase |-> "none", kind |-> "new", path |-> NoPath,
             hist |-> <<>>, previous |-> <<>>, inner |-> FALSE]

Sessions ==
    [hist : Seq(Entries),
     agent : {"idle", "busy", "closing", "closed"}, shut : BOOLEAN,
     path : Paths \union {NoPath}, writer : Paths \union {NoPath},
     closed : BOOLEAN, save : {"pending", "saved", "unsaved"}]

Switches ==
    [phase : {"none", "admitted", "prepared", "owned", "retiring"},
     kind : {"new", "open", "derive"}, path : Paths \union {NoPath},
     hist : Seq(Entries), previous : Seq(Entries), inner : BOOLEAN]

TypeOK ==
    /\ sessions \in Seq(Sessions)
    /\ current \in 0..Len(sessions)
    /\ switch \in Switches
    /\ closing \in {"no", "asked", "session"}
    /\ entries \in 0..MaxEntries
    /\ saves \in 0..MaxSaves
    /\ mishaps \in 0..MaxMishaps
    /\ forsaken \subseteq Paths

Init ==
    /\ sessions = <<>>
    /\ current = 0
    /\ switch = NoSwitch
    /\ closing = "no"
    /\ files = [p \in Paths |-> NoFile]
    /\ entries = 0
    /\ saves = 0
    /\ mishaps = 0
    /\ acknowledged = [p \in Paths |-> <<>>]
    /\ forsaken = {}

Candidate ==
    IF switch.phase \in {"prepared", "owned", "retiring"}
    THEN Len(sessions) ELSE 0

(* The paths this process has locked                                       *)
Held == {sessions[i].writer : i \in 1..Len(sessions)} \ {NoPath}
Busy(i) == sessions[i].agent \in {"busy", "closing"}
Published(i) == i \in 1..Len(sessions) /\ i # Candidate

(* _has_user_activity                                                      *)
UserActivity(history) ==
    \E i \in 1..Len(history) : history[i].kind = "message"

(* What SessionManager.commit writes: everything the first time            *)
ToWrite(s, new) == IF s.save = "pending" THEN Text(s.hist) ELSE new

(* Whether it writes at all                                                *)
Writes(s) ==
    /\ s.path # NoPath
    /\ ~s.closed
    /\ s.save # "unsaved"
    /\ s.save = "pending" => UserActivity(s.hist)

(* The first write is exclusive                                            *)
Refused(s) == s.save = "pending" /\ files[s.path].made

(* SessionManager.commit of the records new, already part of s.hist.  The  *)
(* session with index i of all becomes s, and how it is saved follows.     *)
Commit(all, i, s, new) ==
    LET file == files[s.path]
        text == ToWrite(s, new)
        become(save) == sessions' = [all EXCEPT ![i] =
                                        [s EXCEPT !.save = save]]
    IN
    \/ /\ ~Writes(s)
       /\ become(s.save)
       /\ UNCHANGED <<mishaps, disk>>
    \/ /\ Writes(s)
       /\ Refused(s)
       /\ become("unsaved")
       /\ UNCHANGED <<mishaps, disk>>
    \/ /\ Writes(s)
       /\ ~Refused(s)
       /\ become("saved")
       /\ files' = [files EXCEPT ![s.path] = Appended(file, text)]
       /\ acknowledged' = [acknowledged EXCEPT ![s.path] = s.hist]
       /\ UNCHANGED mishaps
    \/ /\ Writes(s)
       /\ ~Refused(s)
       /\ mishaps < MaxMishaps
       /\ mishaps' = mishaps + 1
       /\ become("unsaved")
       /\ \E cut \in CutShort(file, text) :
              files' = [files EXCEPT ![s.path] = cut]
       /\ UNCHANGED acknowledged

-----------------------------------------------------------------------------
(* The Agent of a session                                                  *)

(* AgentSession.ensure_can_accept_work                                     *)
AcceptsWork(i) ==
    /\ sessions[i].save # "unsaved"
    /\ ~sessions[i].shut
    /\ sessions[i].agent \in {"idle", "busy"}

Prompt(i) ==
    /\ i = current
    /\ i # 0
    /\ AcceptsWork(i)
    /\ sessions[i].agent = "idle"
    /\ sessions' = [sessions EXCEPT ![i].agent = "busy"]
    /\ UNCHANGED <<current, switch, closing, disk, counts, forsaken>>

(* A record joins the history and is committed by the first listener: of   *)
(* an activity, its closing included, or of a change of the model.         *)
NewEntry(history, kind) ==
    Line(kind, entries + 1, IF history = <<>> THEN 0 ELSE Last(history).n)

MayRecord(i, kind) ==
    /\ entries < MaxEntries
    /\ entries' = entries + 1
    /\ Published(i)
    /\ sessions[i].agent # "closed"
    /\ kind = "message" => Busy(i)

Record(i, kind) ==
    /\ MayRecord(i, kind)
    /\ LET entry == NewEntry(sessions[i].hist, kind) IN
       Commit(sessions, i, [sessions[i] EXCEPT !.hist = Append(@, entry)],
              <<entry>>)
    /\ UNCHANGED <<current, switch, closing, saves, forsaken>>

FinishActivity(i) ==
    /\ Busy(i)
    /\ sessions' = [sessions EXCEPT ![i].agent =
                        IF @ = "closing" THEN "closed" ELSE "idle"]
    /\ switch' = IF i = current THEN [switch EXCEPT !.inner = FALSE] ELSE switch
    /\ UNCHANGED <<current, closing, disk, counts, forsaken>>

(* Agent.close: at once without an activity                                *)
AgentClosing(s) ==
    [s EXCEPT !.agent = IF @ = "busy" THEN "closing"
                        ELSE IF @ = "idle" THEN "closed" ELSE @]

ManagerClosed(s) == [s EXCEPT !.writer = NoPath, !.closed = TRUE]

-----------------------------------------------------------------------------
(* SessionManager.save and export                                          *)

Whole(history) == [made |-> TRUE, lines |-> Text(history), rest |-> <<>>]

Replaced(p, history) ==
    /\ files' = [files EXCEPT ![p] = Whole(history)]
    /\ acknowledged' = [acknowledged EXCEPT ![p] = history]

(* A derived conversation gets a file name that nobody else knows before it *)
(* is published.                                                           *)
Unknown(p) ==
    /\ switch.phase # "none" /\ switch.kind = "derive"
    /\ p = switch.path /\ p # NoPath

SamePath(s) == current # 0 /\ s.path = sessions[current].path

(* The file of a candidate that has no lock of its own: it was read under   *)
(* the lock of the current session, and is to take that lock over.          *)
Lent(i) ==
    IF i = current /\ Candidate # 0 /\ sessions[Candidate].writer = NoPath
    THEN {sessions[Candidate].path} \ {NoPath} ELSE {}

(* Nothing holds the current session back meanwhile.  When it gives up the  *)
(* lock, or writes another history to the file, the candidate knows nothing *)
(* of it.                                                                   *)
Forsake(i) == forsaken' = forsaken \union Lent(i)

(* save has the lock of its destination, or takes it if nobody else has it *)
TakesLock(i, p) == p # sessions[i].path \/ sessions[i].writer = NoPath

Saveable(i, p) == TakesLock(i, p) => p \notin Held

Counted == saves < MaxSaves /\ saves' = saves + 1

Save(i, p) ==
    /\ Counted
    /\ Published(i)
    /\ ~Unknown(p)
    /\ \/ /\ Saveable(i, p)
          /\ Replaced(p, sessions[i].hist)
          /\ sessions' = [sessions EXCEPT ![i].path = p, ![i].save = "saved",
                ![i].writer = IF sessions[i].closed THEN @ ELSE p]
          /\ IF p \in Lent(i) /\ sessions[Candidate].hist = sessions[i].hist
             THEN UNCHANGED forsaken ELSE Forsake(i)
          /\ UNCHANGED mishaps
       \/ /\ TakesLock(i, p)
          /\ sessions' = [sessions EXCEPT ![i].save = "unsaved"]
          /\ UNCHANGED <<mishaps, disk, forsaken>>
       \/ /\ Saveable(i, p)
          /\ mishaps < MaxMishaps
          /\ mishaps' = mishaps + 1
          /\ sessions' = [sessions EXCEPT ![i].save = "unsaved"]
          /\ UNCHANGED <<disk, forsaken>>
    /\ UNCHANGED <<current, switch, closing, entries>>

(* The path of a session is set: another lock, and nothing is written.     *)
Rebind(i, p) ==
    /\ Counted
    /\ Published(i)
    /\ p # sessions[i].path
    /\ sessions[i].closed \/ p \notin Held
    /\ ~Unknown(p)
    /\ sessions' = [sessions EXCEPT ![i].path = p,
            ![i].writer = IF sessions[i].closed THEN NoPath ELSE p,
            ![i].save = IF @ = "unsaved" THEN @ ELSE "pending"]
    /\ Forsake(i)
    /\ UNCHANGED <<current, switch, closing, disk, entries, mishaps>>

(* An export elsewhere holds the other lock while it writes.               *)
Export(i, p) ==
    /\ Counted
    /\ Published(i)
    /\ p # sessions[i].path
    /\ p \notin Held
    /\ ~Unknown(p)
    /\ Replaced(p, sessions[i].hist)
    /\ UNCHANGED <<sessions, current, switch, closing, entries, mishaps,
                   forsaken>>

-----------------------------------------------------------------------------
(* AgentSessionRuntime                                                     *)

Admissible ==
    /\ switch.phase = "none"
    /\ closing = "no"
    /\ Len(sessions) < MaxSessions

(* A switch may be asked for by a callback of the current activity.        *)
Admitted(kind, path, history) ==
    /\ \E inner \in BOOLEAN :
          /\ inner => current # 0 /\ Busy(current)
          /\ switch' = [phase |-> "admitted", kind |-> kind, path |-> path,
                hist |-> history, inner |-> inner,
                previous |-> IF current = 0 \/ kind = "new" THEN <<>>
                             ELSE sessions[current].hist]
    /\ UNCHANGED <<sessions, current, closing, disk, counts, forsaken>>

NewSession(path) == Admissible /\ Admitted("new", path, <<>>)
OpenSession(path) == Admissible /\ path # NoPath /\ Admitted("open", path, <<>>)

(* A clone takes the whole path, a fork what comes before a user message.  *)
Ancestors(history) ==
    {history} \union {SubSeq(history, 1, n - 1) :
        n \in {m \in 1..Len(history) : history[m].kind = "message"}}

Fresh(path) ==
    path # NoPath =>
        /\ ~files[path].made
        /\ \A i \in 1..Len(sessions) : sessions[i].path # path

DeriveSession(path) ==
    /\ Admissible
    /\ current # 0
    /\ sessions[current].agent = "idle"
    /\ Fresh(path)
    /\ \E history \in Ancestors(sessions[current].hist) :
           Admitted("derive", path, history)

SwitchFails ==
    /\ switch' = NoSwitch
    /\ sessions' = IF Candidate = 0 THEN sessions ELSE Front(sessions)

Add(s) ==
    /\ sessions' = Append(sessions, s)
    /\ switch' = [switch EXCEPT !.phase = "prepared"]

PrepareFile(kind) ==
    /\ switch.phase = "admitted"
    /\ switch.kind = kind
    /\ switch.path \notin Held
    /\ Add(Session(switch.hist, switch.path, switch.path, "pending"))
    /\ UNCHANGED <<current, closing, disk, counts, forsaken>>

PrepareNew == PrepareFile("new")
PrepareDerived == PrepareFile("derive")

(* Reading under the lock of the current session, or one of its own        *)
Borrows == SamePath(switch) /\ sessions[current].writer # NoPath

(* Mutant: the tail of the file is left as it is.                          *)
MutSeparated(file) == file

(* prepare_append                                                          *)
Separated(file) == [file EXCEPT !.lines = Records(file), !.rest = <<>>]

PrepareOpen ==
    LET file == files[switch.path] IN
    /\ switch.phase = "admitted"
    /\ switch.kind = "open"
    /\ SamePath(switch) => ~Busy(current)
    /\ Borrows \/ switch.path \notin Held
    /\ Readable(file)
    /\ Add(Session(Decoded(file), switch.path,
                   IF Borrows THEN NoPath ELSE switch.path, "saved"))
    /\ files' = [files EXCEPT ![switch.path] = Separated(file)]
    /\ UNCHANGED <<current, closing, acknowledged, counts, forsaken>>

(* A failure or a cancellation of the preparation                          *)
PreparationFails ==
    /\ switch.phase \in {"admitted", "prepared"}
    /\ SwitchFails
    /\ UNCHANGED <<current, closing, disk, counts, forsaken>>

HandOver ==
    /\ switch.phase = "prepared"
    /\ switch' = [switch EXCEPT !.phase = "owned"]
    /\ UNCHANGED <<sessions, current, closing, disk, counts, forsaken>>

(* Mutant: only an activity that still runs is looked at.                  *)
MutUnstable == Busy(current)

Unstable ==
    Busy(current) \/ sessions[current].hist # switch.previous

Rejected ==
    /\ current # 0
    /\ switch.kind = "derive" \/ (switch.kind = "open"
                                  /\ SamePath(sessions[Candidate]))
    /\ Unstable

(* The first part of _publish, up to the wait for the old Agent.  An       *)
(* activity cannot wait for itself.                                        *)
BeginPublish ==
    /\ switch.phase = "owned"
    /\ \/ /\ Rejected \/ switch.inner
          /\ SwitchFails
       \/ /\ ~Rejected /\ ~switch.inner
          /\ switch' = [switch EXCEPT !.phase = "retiring"]
          /\ sessions' = IF current = 0 THEN sessions
                         ELSE [sessions EXCEPT ![current] = AgentClosing(@)]
    /\ UNCHANGED <<current, closing, disk, counts, forsaken>>

Retired(old) == ManagerClosed(old)

(* _take_writer_from, or the old manager's close                           *)
Transferred(s) ==
    IF SamePath(s) /\ s.path # NoPath /\ sessions[current].writer # NoPath
    THEN [s EXCEPT !.writer = sessions[current].writer] ELSE s

Publish ==
    /\ switch.phase = "retiring"
    /\ current # 0 => sessions[current].agent = "closed"
    /\ switch' = NoSwitch
    /\ current' = Candidate
    /\ LET s == Transferred(sessions[Candidate])
           retired == IF current = 0 THEN sessions
                      ELSE [sessions EXCEPT ![current] = Retired(@)]
       IN  \/ /\ switch.kind # "derive"
              /\ sessions' = [retired EXCEPT ![Candidate] = s]
              /\ UNCHANGED <<mishaps, disk>>
           \/ /\ switch.kind = "derive"
              /\ Commit(retired, Candidate, s, s.hist)
    /\ UNCHANGED <<closing, entries, saves, forsaken>>

-----------------------------------------------------------------------------
(* Closing                                                                 *)

Shut(s) == [AgentClosing(s) EXCEPT !.shut = TRUE]

(* AgentSession.close by the host, not through the runtime                 *)
CloseSession ==
    /\ current # 0
    /\ ~sessions[current].shut
    /\ sessions' = [sessions EXCEPT ![current] = Shut(@)]
    /\ UNCHANGED <<current, switch, closing, disk, counts, forsaken>>

(* The rest of AgentSession._close                                         *)
ReleaseWriter(i) ==
    /\ sessions[i].shut
    /\ sessions[i].agent = "closed"
    /\ ~sessions[i].closed
    /\ sessions' = [sessions EXCEPT ![i] = ManagerClosed(@)]
    /\ Forsake(i)
    /\ UNCHANGED <<current, switch, closing, disk, counts>>

(* AgentSessionRuntime.close                                               *)
Close ==
    /\ closing = "no"
    /\ switch.phase \notin {"admitted", "prepared"}
    /\ closing' = "asked"
    /\ UNCHANGED <<sessions, current, switch, disk, counts, forsaken>>

CloseCurrent ==
    /\ closing = "asked"
    /\ switch.phase = "none"
    /\ closing' = IF current = 0 THEN "no" ELSE "session"
    /\ sessions' = IF current = 0 THEN sessions
                   ELSE [sessions EXCEPT ![current] = Shut(@)]
    /\ UNCHANGED <<current, switch, disk, counts, forsaken>>

Closed ==
    /\ closing = "session"
    /\ sessions[current].closed
    /\ closing' = "no"
    /\ UNCHANGED <<sessions, current, switch, disk, counts, forsaken>>

-----------------------------------------------------------------------------
(* The world                                                               *)

(* Another process opens the conversation, goes on with it and closes it.  *)
(* That it still holds the lock when this one wants it is one reason why a *)
(* preparation or a save fails.                                            *)
OtherAppends(p) ==
    /\ entries < MaxEntries
    /\ entries' = entries + 1
    /\ p \notin Held
    /\ Readable(files[p])
    /\ LET history == Append(Decoded(files[p]),
                             NewEntry(Decoded(files[p]), "message")) IN
       /\ files' = [files EXCEPT ![p] =
                        Appended(Separated(@), <<Last(history)>>)]
       /\ acknowledged' = [acknowledged EXCEPT ![p] = history]
    /\ UNCHANGED <<sessions, current, switch, closing, saves, mishaps,
                   forsaken>>

(* This process is lost, and its locks with it, now or while it writes.    *)
ProcessLost ==
    /\ mishaps < MaxMishaps
    /\ mishaps' = mishaps + 1
    /\ sessions # <<>>
    /\ sessions' = <<>>
    /\ current' = 0
    /\ switch' = NoSwitch
    /\ closing' = "no"
    /\ UNCHANGED <<saves, acknowledged, forsaken>>

Crash == ProcessLost /\ UNCHANGED <<files, entries>>

CrashWriting(i, kind) ==
    /\ ProcessLost
    /\ MayRecord(i, kind)
    /\ LET entry == NewEntry(sessions[i].hist, kind)
           s == [sessions[i] EXCEPT !.hist = Append(@, entry)] IN
       /\ Writes(s)
       /\ ~Refused(s)
       /\ \E cut \in CutShort(files[s.path], ToWrite(s, <<entry>>)) :
              files' = [files EXCEPT ![s.path] = cut]

Next ==
    \/ \E i \in 1..Len(sessions) :
          \/ Prompt(i)
          \/ \E kind \in {"setup", "message"} :
                Record(i, kind) \/ CrashWriting(i, kind)
          \/ FinishActivity(i)
          \/ \E p \in Paths : Save(i, p) \/ Export(i, p)
          \/ \E p \in Paths \union {NoPath} : Rebind(i, p)
          \/ ReleaseWriter(i)
    \/ \E p \in Paths \union {NoPath} :
          NewSession(p) \/ OpenSession(p) \/ DeriveSession(p)
    \/ PrepareNew \/ PrepareDerived \/ PrepareOpen \/ PreparationFails
    \/ HandOver \/ BeginPublish \/ Publish
    \/ CloseSession \/ Close \/ CloseCurrent \/ Closed
    \/ \E p \in Paths : OtherAppends(p)
    \/ Crash

Spec == Init /\ [][Next]_vars

-----------------------------------------------------------------------------
(* What is wanted                                                          *)

(* What was written to a file with success is read from it by whoever      *)
(* opens it later, whatever failed writes and lost processes left behind.  *)
SavedSurvives ==
    \A p \in Paths \ forsaken :
        acknowledged[p] # <<>> =>
            /\ Readable(files[p])
            /\ IsPrefix(acknowledged[p], Decoded(files[p]))

(* A manager that says "saved" and still has its file says so of the whole *)
(* history of its Agent, inactive and setup records included.              *)
SavedIsComplete ==
    \A i \in 1..Len(sessions) :
        LET s == sessions[i] IN
        s.save = "saved" /\ s.writer \notin {NoPath} \union forsaken =>
            Readable(files[s.writer]) /\ Decoded(files[s.writer]) = s.hist

(* The open current session holds the lock of the file it is bound to.     *)
(* (Not so of a forsaken file: a candidate for it is published unlocked.)   *)
HoldsItsFile(exempt) ==
    current # 0 /\ ~sessions[current].closed
            /\ sessions[current].path \notin exempt =>
        sessions[current].writer = sessions[current].path
CurrentHoldsItsFile == HoldsItsFile({})

(* But for that, no two holders share a path, and nobody but the current   *)
(* session and the candidate keeps a lock, of the file it is bound to.     *)
LocksOwned ==
    /\ HoldsItsFile(forsaken)
    /\ \A i \in 1..Len(sessions) :
          sessions[i].writer # NoPath =>
              /\ i \in {current, Candidate}
              /\ sessions[i].writer = sessions[i].path
              /\ \A j \in 1..Len(sessions) :
                    sessions[j].writer = sessions[i].writer => i = j

(* A switch to the file of the current session loses none of its saved     *)
(* records and takes its lock over.                                        *)
KeepsSaved(old, new) ==
    /\ switch.kind = "open" /\ new.path = old.path
    /\ old.writer # NoPath /\ old.save = "saved"
    => new.hist = old.hist /\ new.writer = old.writer

(* So it is unless the file was given up under the candidate, and a derived *)
(* conversation is what the current one was.                               *)
Kept(old, new) ==
    /\ old.writer \notin forsaken => KeepsSaved(old, new)
    /\ switch.kind = "derive" =>
          /\ new.hist \in Ancestors(old.hist)
          /\ new.path = NoPath \/ new.path # old.path

HandsOver == current # 0 /\ current' \notin {0, current}

HandoffKeepsHistory ==
    [][HandsOver => Kept(sessions[current], sessions'[current'])]_vars

(* (Not so of every file: a save may put more there than the candidate has  *)
(* read.)                                                                  *)
HandoffKeepsSaved ==
    [][HandsOver => KeepsSaved(sessions[current], sessions'[current'])]_vars

(* What a save means, together: what was reported as saved is in the file  *)
(* whatever happens later, and is a whole history.                         *)
SavedWhole ==
    TypeOK /\ SavedSurvives /\ SavedIsComplete

(* The files of the sessions, together: what was reported as saved is read *)
(* back whole, and a file has one writer, the session bound to it; of a     *)
(* file that was given up under a candidate, only that it has one writer.  *)
FilesSound == SavedWhole /\ LocksOwned

=============================================================================

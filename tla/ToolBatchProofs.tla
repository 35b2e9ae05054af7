-------------------------- MODULE ToolBatchProofs --------------------------
(***************************************************************************)
(* Proofs about one tool batch, for every number of calls, crashes and     *)
(* lost drives: results are placed once and in order, what is staged for a *)
(* call lives as long as the call needs it, and no effect is started twice *)
(* or after it was settled; and about the shell output a tool streams.     *)
(*                                                                         *)
(* The invariant has two halves.  What the Session keeps is ordered by     *)
(* _replace_call and the materialization, whoever wrote it.  That no write *)
(* is refused, and no checkpoint stale, holds because a drive that was not *)
(* lost has the only tasks: that is Alone.                                 *)
(***************************************************************************)
EXTENDS ToolBatch, ShellOutput, SequenceTheorems, TLAPS

(* The points of a call's task, and the points of the drive at which a     *)
(* failure of a task reaches it.                                           *)
Fetching == {"hook", "publish"}
Running == {"admit", "exec", "after"}
Working == Fetching \union Running \union {"stage", "recover"}
Gathering == {"prefix", "gather", "suffix"}

Effects == {EffectPending(r) : r \in Replays}

(* What a task knows of the call it works on or is about to place.         *)
TaskKnows(d, p) ==
    LET w == worker[d][p] IN
    /\ p = 0 => w.at \in {"none", "place", "insert"}
    /\ w.at \in Fetching => w.expected = Planned
    /\ w.at \in Running \union {"recover"} => w.expected \in Effects
    /\ w.at = "stage" => w.expected \in Effects \union {Planned}
    /\ w.at = "insert" =>
           /\ w.target \in Calls
           /\ \A b \in 1..(w.target - 1) : call[b].at = "completed"

(* No task has gone past the intent of call c.                             *)
Untouched(d, c) ==
    /\ worker[d][c].at \notin Running
    /\ worker[d][c].at = "stage" => worker[d][c].expected = Planned

(* A planned call was not started, nor was one at its first admission, and *)
(* an unsafe one is admitted only from there.                              *)
Admitted ==
    \A c \in Calls :
        /\ call[c] = Planned =>
               /\ attempts[c] = 0
               /\ \A d \in Drives : /\ Untouched(d, c)
                                     /\ worker[d][c].at # "recover"
        /\ \A d \in Drives :
               worker[d][c].at = "admit" =>
                   /\ call[c].at = "pending"
                   /\ attempts[c] = 0
                   /\ \A e \in Drives \ {d} : Untouched(e, c)

(* Where the drive is, whatever was lost.                                  *)
Driven ==
    /\ pc # "idle" => drive \in Drives
    /\ at = "none" => pc = "idle"

(* A drive without a lost one before it is the lane's first; only its own  *)
(* abort stops it, which closed admission before.                          *)
SoleDrive ==
    /\ ~faulted
    /\ drive \in {0, 1}
    /\ drive = 1 /\ pc = "idle" => at # "tools"
    /\ \A d \in Drives : reason[d] # "none" =>
           reason[d] = "abort" /\ d = 1 /\ drive = 1 /\ closed
    /\ seals => drive = 1 /\ closed

(* It has the only tasks, and leaves some behind only when it is aborted.  *)
SoleTasks ==
    /\ \A d \in Drives \ {1}, p \in Tasks : worker[d][p] = NoTask
    /\ pc \in {"top", "enter", "reconcile"} =>
           \A p \in Tasks : worker[1][p] = NoTask
    /\ pc \in {"idle", "aborting"} =>
           \/ \A p \in Tasks : worker[1][p] = NoTask
           \/ reason[1] = "abort"
    /\ pc \in {"prefix", "suffix"} =>
           \A c \in Calls : worker[1][c] = NoTask
    /\ pc = "gather" => worker[1][0] = NoTask

(* Nobody else changes a call that one of its tasks works on or places.    *)
SoleWork ==
    /\ pc \in Gathering =>
           \A c \in Calls : worker[1][c].at \in Working =>
               at = "tools" /\ call[c] = worker[1][c].expected
    /\ \A p, q \in Tasks :
           worker[1][p].at = "insert" /\ worker[1][q].at = "insert" => p = q
    /\ pc \in Gathering =>
           \A p \in Tasks : worker[1][p].at = "insert" =>
               call[worker[1][p].target].at = "ready"
    /\ \A c \in Calls : worker[1][c].at = "exec" =>
           worker[1][c].run = attempts[c]

Alone == lost = 0 => SoleDrive /\ SoleTasks /\ SoleWork

IInv ==
    /\ TypeOK
    /\ OneResultEachInOrder
    /\ TemporaryDataOwned
    /\ \A d \in Drives, p \in Tasks : TaskKnows(d, p)
    /\ Admitted
    /\ UnsafeOnce
    /\ Driven
    /\ Alone
    /\ FreshCheckpoint

-----------------------------------------------------------------------------
(* Shell output                                                            *)

LEMMA Halves ==
    ASSUME NEW C, NEW s \in Seq(C), NEW n \in 0..Len(s)
    PROVE  SubSeq(s, 1, n) \o From(s, n + 1) = s
<1>1. 1 \in 1..(Len(s) + 1) /\ n \in (1 - 1)..Len(s) /\ Len(s) \in n..Len(s)
  OBVIOUS
<1>2. SubSeq(s, 1, n) \o SubSeq(s, n + 1, Len(s)) = SubSeq(s, 1, Len(s))
  BY <1>1, ConcatAdjacentSubSeq
<1> QED
  BY <1>2, SubSeqFull DEF From

(* An update from one view to the next, whichever overlap was found, makes  *)
(* the first text the second (_update_from, apply_shell_output_update).    *)
THEOREM UpdatesRebuild ==
    ASSUME NEW C, NEW before \in Seq(C), NEW after \in Seq(C),
           NEW update \in Updates(before, after)
    PROVE  ApplyUpdate(before, update) = after
<1>1. PICK n \in {0} \union Overlaps(before, after) :
         update = UpdateBy(before, after, n)
  BY DEF Updates
<1>2. CASE before = after
  BY <1>1, <1>2 DEF UpdateBy, ApplyUpdate
<1>3. CASE /\ before # after
           /\ Len(before) <= Len(after) /\ SubSeq(after, 1, Len(before)) = before
  <2>1. ApplyUpdate(before, update) = before \o From(after, Len(before) + 1)
    BY <1>1, <1>3 DEF UpdateBy, ApplyUpdate
  <2>2. Len(before) \in 0..Len(after)
    BY <1>3
  <2>3. SubSeq(after, 1, Len(before)) \o From(after, Len(before) + 1) = after
    BY <2>2, Halves
  <2> QED
    BY <2>1, <2>3, <1>3, Zenon
<1>4. CASE /\ before # after
           /\ ~(Len(before) <= Len(after) /\ SubSeq(after, 1, Len(before)) = before)
           /\ n > 0
  <2>1. ApplyUpdate(before, update)
           = From(before, (Len(before) - n) + 1) \o From(after, n + 1)
    BY <1>1, <1>4 DEF UpdateBy, ApplyUpdate
  <2>2. n \in Overlaps(before, after)
    BY <1>4
  <2>3. n \in 1..Len(after) /\ LastOf(before, n) = SubSeq(after, 1, n)
    BY <2>2 DEF Overlaps, Least
  <2>4. From(before, (Len(before) - n) + 1) = LastOf(before, n)
    BY DEF From, LastOf
  <2>5. SubSeq(after, 1, n) \o From(after, n + 1) = after
    <3>1. n \in 0..Len(after)
      BY <2>3
    <3> QED
      BY <3>1, Halves
  <2> QED
    BY <2>1, <2>3, <2>4, <2>5, Zenon
<1>5. CASE /\ before # after
           /\ ~(Len(before) <= Len(after) /\ SubSeq(after, 1, Len(before)) = before)
           /\ ~(n > 0)
  BY <1>1, <1>5 DEF UpdateBy, ApplyUpdate
<1> QED
  BY <1>2, <1>3, <1>4, <1>5

-----------------------------------------------------------------------------
(* What the values are                                                     *)

LEMMA Indices ==
  /\ Calls \subseteq Tasks /\ 0 \in Tasks /\ 0 \notin Calls
  /\ \A p \in Tasks : p = 0 \/ p \in Calls
  /\ 1 \in Drives /\ 0 \notin Drives
  /\ \A d \in Drives : d \in 0..(MaxMishaps + 1)
  /\ MaxMishaps \in Nat /\ NumCalls \in Nat
  BY ToolBatchAssumption DEF Calls, Tasks, Drives

LEMMA States ==
  /\ Planned \in ToolCallStates /\ OutcomeReady \in ToolCallStates
  /\ Completed \in ToolCallStates /\ Effects \subseteq ToolCallStates
  /\ \A s \in ToolCallStates :
         /\ s.at \in {"planned", "pending", "ready", "completed"}
         /\ s = Planned <=> s.at = "planned"
         /\ s \in Effects <=> s.at = "pending"
         /\ s = OutcomeReady <=> s.at = "ready"
         /\ s = Completed <=> s.at = "completed"
  /\ \A r \in Replays :
         EffectPending(r) \in Effects /\ EffectPending(r).replay = r
  /\ "never" \in Replays
  BY DEF ToolCallStates, Effects, Planned, OutcomeReady, Completed,
         EffectPending, Replays

LEMMA Idle ==
  /\ NoTask \in TaskStates /\ Placing \in TaskStates
  /\ NoTask.at = "none" /\ Placing.at = "place"
  BY Indices, States DEF NoTask, Placing, TaskStates

(* One task moves and the others stay.                                     *)
LEMMA Moved ==
  ASSUME TypeOK, NEW d \in Drives, NEW p \in Tasks, NEW t \in TaskStates,
         Move(d, p, t)
  PROVE  /\ worker' \in [Drives -> [Tasks -> TaskStates]]
         /\ \A e \in Drives, q \in Tasks :
                worker'[e][q] = IF e = d /\ q = p THEN t ELSE worker[e][q]
  BY DEF TypeOK, Move
(* A task that is at no point past an intent disturbs no admission.        *)
LEMMA AdmittedKept ==
  ASSUME Admitted, UNCHANGED <<call, attempts>>,
         \A e \in Drives, c \in Calls :
             \/ worker'[e][c] = worker[e][c]
             \/ worker'[e][c].at \in {"none", "hook", "place", "insert"}
             \/ worker'[e][c].at = "recover" /\ call[c] # Planned
  PROVE  Admitted'
<1>1. ASSUME NEW e \in Drives, NEW c \in Calls, Untouched(e, c)
      PROVE  Untouched(e, c)'
  BY <1>1 DEF Untouched, Running
<1>2. ASSUME NEW e \in Drives, NEW c \in Calls
      PROVE  /\ worker'[e][c].at = "admit" => worker[e][c].at = "admit"
             /\ call[c] = Planned /\ worker'[e][c].at = "recover" =>
                    worker[e][c].at = "recover"
  OBVIOUS
<1> QED
  BY <1>1, <1>2 DEF Admitted

(* What the Session keeps of the batch, when a step leaves it alone.        *)
LEMMA StoredKept ==
  ASSUME UNCHANGED storedVars
  PROVE  /\ OneResultEachInOrder => OneResultEachInOrder'
         /\ TemporaryDataOwned => TemporaryDataOwned'
<1>1. UNCHANGED <<at, call, branch, args, staged, output>>
  BY DEF storedVars
<1>2. OneResultEachInOrder => OneResultEachInOrder'
  BY <1>1, Zenon DEF OneResultEachInOrder
<1>3. TemporaryDataOwned => TemporaryDataOwned'
  BY <1>1, Zenon DEF TemporaryDataOwned
<1> QED
  BY <1>2, <1>3

LEMMA ResultsKept ==
  ASSUME UNCHANGED <<at, call, branch>>
  PROVE  OneResultEachInOrder => OneResultEachInOrder'
  BY Zenon DEF OneResultEachInOrder

LEMMA EffectsKept ==
  ASSUME UNCHANGED <<call, attempts>>
  PROVE  UnsafeOnce => UnsafeOnce'
  BY DEF UnsafeOnce

LEMMA StutterKeeps ==
  ASSUME IInv, UNCHANGED vars
  PROVE  IInv'
<1>1. TypeOK'
  BY Indices
     DEF IInv, TypeOK, vars, storedVars, taskVars, abortVars, historyVars
<1>2. OneResultEachInOrder'
  BY Indices
     DEF IInv, TypeOK, OneResultEachInOrder, vars, storedVars, taskVars,
         abortVars, historyVars
<1>3. TemporaryDataOwned'
  BY Indices
     DEF IInv, TypeOK, TemporaryDataOwned, vars, storedVars, taskVars,
         abortVars, historyVars
<1>4. (\A e \in Drives, q \in Tasks : TaskKnows(e, q))'
  BY Indices, Idle
     DEF IInv, TaskKnows, vars, storedVars, taskVars, abortVars, historyVars,
         Fetching, Running
<1>5. Admitted'
  BY Indices, Idle
     DEF IInv, TaskKnows, Admitted, Untouched, Driven, vars, storedVars,
         taskVars, abortVars, historyVars, Fetching, Running
<1>6. UnsafeOnce'
  BY Indices
     DEF IInv, TypeOK, UnsafeOnce, Admitted, vars, storedVars, taskVars,
         abortVars, historyVars
<1>7. Driven'
  BY Indices
     DEF IInv, TypeOK, Driven, vars, storedVars, taskVars, abortVars,
         historyVars
<1>8. (lost = 0 => SoleDrive)'
  BY Indices, Idle
     DEF IInv, Driven, Alone, SoleDrive, vars, storedVars, taskVars,
         abortVars, historyVars
<1>9. (lost = 0 => SoleTasks)'
  BY Indices, Idle
     DEF IInv, Driven, Alone, SoleDrive, SoleTasks, vars, storedVars,
         taskVars, abortVars, historyVars
<1>10. (lost = 0 => SoleWork)'
  BY Indices, Idle
     DEF IInv, Driven, Alone, SoleDrive, SoleTasks, SoleWork, TaskKnows, vars,
         storedVars, taskVars, abortVars, historyVars, Fetching, Running,
         Working, Gathering
<1>11. FreshCheckpoint'
  BY Indices, Idle
     DEF IInv, TypeOK, FreshCheckpoint, Alone, SoleTasks, SoleWork, vars,
         storedVars, taskVars, abortVars, historyVars, Fetching, Running,
         Working, Gathering
<1> QED
  BY <1>1, <1>2, <1>3, <1>4, <1>5, <1>6, <1>7, <1>8, <1>9, <1>10, <1>11
     DEF IInv, Alone

LEMMA FailKeeps ==
  ASSUME IInv, NEW d \in Drives, NEW p \in Tasks, NEW why, Fail(d, p, why),
         why = "cancelled" => lost + crashes < MaxMishaps,
         lost = 0 /\ d = drive /\ pc \in Gathering =>
             why = "cancelled" \/ (why = "abort" /\ reason[d] = "abort")
  PROVE  IInv'
<1>w. /\ worker' \in [Drives -> [Tasks -> TaskStates]]
      /\ \A e \in Drives, q \in Tasks :
             worker'[e][q] = IF e = d /\ q = p THEN NoTask ELSE worker[e][q]
  BY Indices, Idle, Moved DEF IInv, Fail
<1>l. lost' = 0 =>
          /\ lost = 0
          /\ UNCHANGED <<storedVars, drive, attempts, abortVars, faulted>>
          /\ pc' = pc \/ (pc' = "aborting" /\ pc \in Gathering /\ reason[d] = "abort")
  BY Indices DEF IInv, TypeOK, Fail, Fault, Gathering
<1>1. TypeOK'
  <2>1. reason' \in [Drives -> {"none", "abort", "fault"}]
    BY DEF IInv, TypeOK, Fail, Fault, abortVars
  <2>2. lost' \in 0..MaxMishaps
    BY Indices DEF IInv, TypeOK, Fail
  <2>3. /\ pc' \in {"idle", "top", "enter", "prefix", "gather", "suffix",
                  "aborting", "reconcile"}
        /\ faulted' \in BOOLEAN
        /\ UNCHANGED <<storedVars, drive, attempts, crashes, marked, closed, req,
                       seals>>
    BY Zenon DEF IInv, TypeOK, Fail, Fault, abortVars
  <2> QED
    BY <1>w, <2>1, <2>2, <2>3 DEF IInv, TypeOK, storedVars
<1>2. OneResultEachInOrder'
  BY Indices, States, Idle, <1>w
     DEF IInv, TypeOK, OneResultEachInOrder, storedVars, abortVars, Fail,
         Fault, Gathering
<1>3. TemporaryDataOwned'
  BY Indices, States, Idle, <1>w
     DEF IInv, TypeOK, TemporaryDataOwned, storedVars, abortVars, Fail, Fault,
         Gathering
<1>4. (\A e \in Drives, q \in Tasks : TaskKnows(e, q))'
  BY Indices, Idle, <1>w
     DEF IInv, TaskKnows, storedVars, abortVars, Fail, Fault, Fetching,
         Running, Gathering
<1>5. Admitted'
  BY Idle, Indices, AdmittedKept, <1>w DEF IInv, Fail, storedVars
<1>6. UnsafeOnce'
  BY Indices, States, Idle, <1>w
     DEF IInv, TypeOK, UnsafeOnce, Admitted, storedVars, abortVars, Fail,
         Fault, Gathering
<1>7. Driven'
  BY Indices, States, Idle, <1>w
     DEF IInv, TypeOK, Driven, storedVars, abortVars, Fail, Fault, Gathering
<1>8. (lost = 0 => SoleDrive)'
  BY <1>l, Indices DEF IInv, Alone, SoleDrive, abortVars, storedVars, Gathering
<1>9. (lost = 0 => SoleTasks)'
  BY <1>l, <1>w, Idle, Indices
     DEF IInv, Alone, SoleDrive, SoleTasks, abortVars, Gathering
<1>10. (lost = 0 => SoleWork)'
  BY <1>l, <1>w, Idle, Indices
     DEF IInv, Alone, SoleWork, Working, Fetching, Running, Gathering,
         storedVars
<1>11. FreshCheckpoint'
  BY Indices, Idle, <1>w
     DEF IInv, TypeOK, FreshCheckpoint, Alone, SoleTasks, SoleWork,
         storedVars, abortVars, Fail, Fault, Fetching, Running, Working,
         Gathering
<1> QED
  BY <1>1, <1>2, <1>3, <1>4, <1>5, <1>6, <1>7, <1>8, <1>9, <1>10, <1>11
     DEF IInv, Alone

LEMMA ResumeKeeps ==
  ASSUME IInv, Resume
  PROVE  IInv'
<1>1. TypeOK'
  <2>1. drive' \in 0..(MaxMishaps + 1)
    BY Indices DEF IInv, TypeOK, Resume
  <2> QED
    BY <2>1, Zenon DEF IInv, TypeOK, Resume, storedVars, historyVars
<1>2. OneResultEachInOrder'
  BY StoredKept DEF IInv, Resume, historyVars, storedVars
<1>3. TemporaryDataOwned'
  BY StoredKept DEF IInv, Resume, historyVars, storedVars
<1>4. (\A e \in Drives, q \in Tasks : TaskKnows(e, q))'
  BY Indices, Idle
     DEF IInv, TaskKnows, storedVars, historyVars, Resume, Drives, Fetching,
         Running
<1>5. Admitted'
  BY Indices, Idle
     DEF IInv, TaskKnows, Admitted, Untouched, Driven, storedVars,
         historyVars, Resume, Drives, Fetching, Running
<1>6. UnsafeOnce'
  BY EffectsKept DEF IInv, Resume, historyVars, storedVars
<1>7. Driven'
  BY Indices, States, Idle
     DEF IInv, TypeOK, Driven, storedVars, historyVars, Resume, Drives
<1>8. (lost = 0 => SoleDrive)'
  BY Indices, Idle
     DEF IInv, Driven, Alone, SoleDrive, storedVars, historyVars, Resume,
         Drives
<1>9. (lost = 0 => SoleTasks)'
  BY Indices, Idle
     DEF IInv, Driven, Alone, SoleDrive, SoleTasks, storedVars, historyVars,
         Resume, Drives
<1>10. (lost = 0 => SoleWork)'
  BY Indices, Idle
     DEF IInv, Driven, Alone, SoleDrive, SoleTasks, SoleWork, TaskKnows,
         storedVars, historyVars, Resume, Drives, Fetching, Running, Working,
         Gathering
<1>11. FreshCheckpoint'
  BY Indices, Idle
     DEF IInv, TypeOK, FreshCheckpoint, Alone, SoleTasks, SoleWork,
         storedVars, historyVars, Resume, Drives, Fetching, Running, Working,
         Gathering
<1> QED
  BY <1>1, <1>2, <1>3, <1>4, <1>5, <1>6, <1>7, <1>8, <1>9, <1>10, <1>11
     DEF IInv, Alone

LEMMA CheckAbortKeeps ==
  ASSUME IInv, CheckAbort
  PROVE  IInv'
<1>1. TypeOK'
  BY Indices, States, Idle
     DEF IInv, TypeOK, storedVars, abortVars, historyVars, CheckAbort
<1>2. OneResultEachInOrder'
  BY StoredKept DEF IInv, CheckAbort, historyVars, storedVars
<1>3. TemporaryDataOwned'
  BY StoredKept DEF IInv, CheckAbort, historyVars, storedVars
<1>4. (\A e \in Drives, q \in Tasks : TaskKnows(e, q))'
  BY Indices, Idle
     DEF IInv, TaskKnows, storedVars, abortVars, historyVars, CheckAbort,
         Fetching, Running
<1>5. Admitted'
  BY Indices, Idle
     DEF IInv, TaskKnows, Admitted, Untouched, Driven, storedVars, abortVars,
         historyVars, CheckAbort, Fetching, Running
<1>6. UnsafeOnce'
  BY EffectsKept DEF IInv, CheckAbort, historyVars, storedVars
<1>7. Driven'
  BY Indices, States, Idle
     DEF IInv, TypeOK, Driven, storedVars, abortVars, historyVars, CheckAbort
<1>8. (lost = 0 => SoleDrive)'
  BY Indices, Idle
     DEF IInv, Driven, Alone, SoleDrive, storedVars, abortVars, historyVars,
         CheckAbort
<1>9. (lost = 0 => SoleTasks)'
  BY Indices, Idle
     DEF IInv, Driven, Alone, SoleDrive, SoleTasks, storedVars, abortVars,
         historyVars, CheckAbort
<1>10. (lost = 0 => SoleWork)'
  BY Indices, Idle
     DEF IInv, Driven, Alone, SoleDrive, SoleTasks, SoleWork, TaskKnows,
         storedVars, abortVars, historyVars, CheckAbort, Fetching, Running,
         Working, Gathering
<1>11. FreshCheckpoint'
  BY Indices, Idle
     DEF IInv, TypeOK, FreshCheckpoint, Alone, SoleTasks, SoleWork,
         storedVars, abortVars, historyVars, CheckAbort, Fetching, Running,
         Working, Gathering
<1> QED
  BY <1>1, <1>2, <1>3, <1>4, <1>5, <1>6, <1>7, <1>8, <1>9, <1>10, <1>11
     DEF IInv, Alone

LEMMA RequestAbortKeeps ==
  ASSUME IInv, RequestAbort
  PROVE  IInv'
<1>1. TypeOK'
  BY Indices, States, Idle
     DEF IInv, TypeOK, storedVars, taskVars, historyVars, RequestAbort,
         ClosesAdmission
<1>2. OneResultEachInOrder'
  BY StoredKept DEF IInv, RequestAbort, historyVars, storedVars
<1>3. TemporaryDataOwned'
  BY StoredKept DEF IInv, RequestAbort, historyVars, storedVars
<1>4. (\A e \in Drives, q \in Tasks : TaskKnows(e, q))'
  BY Indices, Idle
     DEF IInv, TaskKnows, storedVars, taskVars, historyVars, RequestAbort,
         ClosesAdmission, Fetching, Running
<1>5. Admitted'
  BY Indices, Idle
     DEF IInv, TaskKnows, Admitted, Untouched, Driven, storedVars, taskVars,
         historyVars, RequestAbort, ClosesAdmission, Fetching, Running
<1>6. UnsafeOnce'
  BY EffectsKept DEF IInv, RequestAbort, historyVars, storedVars
<1>7. Driven'
  BY Indices, States, Idle
     DEF IInv, TypeOK, Driven, storedVars, taskVars, historyVars,
         RequestAbort, ClosesAdmission
<1>8. (lost = 0 => SoleDrive)'
  BY Indices, Idle
     DEF IInv, Driven, Alone, SoleDrive, storedVars, taskVars, historyVars,
         RequestAbort, ClosesAdmission
<1>9. (lost = 0 => SoleTasks)'
  BY Indices, Idle
     DEF IInv, Driven, Alone, SoleDrive, SoleTasks, storedVars, taskVars,
         historyVars, RequestAbort, ClosesAdmission
<1>10. (lost = 0 => SoleWork)'
  BY Indices, Idle
     DEF IInv, Driven, Alone, SoleDrive, SoleTasks, SoleWork, TaskKnows,
         storedVars, taskVars, historyVars, RequestAbort, ClosesAdmission,
         Fetching, Running, Working, Gathering
<1>11. FreshCheckpoint'
  BY Indices, Idle
     DEF IInv, TypeOK, FreshCheckpoint, Alone, SoleTasks, SoleWork,
         storedVars, taskVars, historyVars, RequestAbort, ClosesAdmission,
         Fetching, Running, Working, Gathering
<1> QED
  BY <1>1, <1>2, <1>3, <1>4, <1>5, <1>6, <1>7, <1>8, <1>9, <1>10, <1>11
     DEF IInv, Alone

LEMMA MarkAbortKeeps ==
  ASSUME IInv, MarkAbort
  PROVE  IInv'
<1>1. TypeOK'
  BY Indices, States, Idle
     DEF IInv, TypeOK, storedVars, taskVars, historyVars, MarkAbort
<1>2. OneResultEachInOrder'
  BY StoredKept DEF IInv, MarkAbort, historyVars, storedVars
<1>3. TemporaryDataOwned'
  BY StoredKept DEF IInv, MarkAbort, historyVars, storedVars
<1>4. (\A e \in Drives, q \in Tasks : TaskKnows(e, q))'
  BY Indices, Idle
     DEF IInv, TaskKnows, storedVars, taskVars, historyVars, MarkAbort,
         Fetching, Running
<1>5. Admitted'
  BY Indices, Idle
     DEF IInv, TaskKnows, Admitted, Untouched, Driven, storedVars, taskVars,
         historyVars, MarkAbort, Fetching, Running
<1>6. UnsafeOnce'
  BY EffectsKept DEF IInv, MarkAbort, historyVars, storedVars
<1>7. Driven'
  BY Indices, States, Idle
     DEF IInv, TypeOK, Driven, storedVars, taskVars, historyVars, MarkAbort
<1>8. (lost = 0 => SoleDrive)'
  BY Indices, Idle
     DEF IInv, Driven, Alone, SoleDrive, storedVars, taskVars, historyVars,
         MarkAbort
<1>9. (lost = 0 => SoleTasks)'
  BY Indices, Idle
     DEF IInv, Driven, Alone, SoleDrive, SoleTasks, storedVars, taskVars,
         historyVars, MarkAbort
<1>10. (lost = 0 => SoleWork)'
  BY Indices, Idle
     DEF IInv, Driven, Alone, SoleDrive, SoleTasks, SoleWork, TaskKnows,
         storedVars, taskVars, historyVars, MarkAbort, Fetching, Running,
         Working, Gathering
<1>11. FreshCheckpoint'
  BY Indices, Idle
     DEF IInv, TypeOK, FreshCheckpoint, Alone, SoleTasks, SoleWork,
         storedVars, taskVars, historyVars, MarkAbort, Fetching, Running,
         Working, Gathering
<1> QED
  BY <1>1, <1>2, <1>3, <1>4, <1>5, <1>6, <1>7, <1>8, <1>9, <1>10, <1>11
     DEF IInv, Alone

LEMMA SignalAbortKeeps ==
  ASSUME IInv, SignalAbort
  PROVE  IInv'
<1>1. TypeOK'
  BY Indices, States, Idle
     DEF IInv, TypeOK, storedVars, taskVars, historyVars, SignalAbort
<1>2. OneResultEachInOrder'
  BY StoredKept DEF IInv, SignalAbort, historyVars, storedVars
<1>3. TemporaryDataOwned'
  BY StoredKept DEF IInv, SignalAbort, historyVars, storedVars
<1>4. (\A e \in Drives, q \in Tasks : TaskKnows(e, q))'
  BY Indices, Idle
     DEF IInv, TaskKnows, storedVars, taskVars, historyVars, SignalAbort,
         Fetching, Running
<1>5. Admitted'
  BY Indices, Idle
     DEF IInv, TaskKnows, Admitted, Untouched, Driven, storedVars, taskVars,
         historyVars, SignalAbort, Fetching, Running
<1>6. UnsafeOnce'
  BY EffectsKept DEF IInv, SignalAbort, historyVars, storedVars
<1>7. Driven'
  BY Indices, States, Idle
     DEF IInv, TypeOK, Driven, storedVars, taskVars, historyVars, SignalAbort
<1>8. (lost = 0 => SoleDrive)'
  BY Indices, Idle
     DEF IInv, Driven, Alone, SoleDrive, storedVars, taskVars, historyVars,
         SignalAbort
<1>9. (lost = 0 => SoleTasks)'
  BY Indices, Idle
     DEF IInv, Driven, Alone, SoleDrive, SoleTasks, storedVars, taskVars,
         historyVars, SignalAbort
<1>10. (lost = 0 => SoleWork)'
  BY Indices, Idle
     DEF IInv, Driven, Alone, SoleDrive, SoleTasks, SoleWork, TaskKnows,
         storedVars, taskVars, historyVars, SignalAbort, Fetching, Running,
         Working, Gathering
<1>11. FreshCheckpoint'
  BY Indices, Idle
     DEF IInv, TypeOK, FreshCheckpoint, Alone, SoleTasks, SoleWork,
         storedVars, taskVars, historyVars, SignalAbort, Fetching, Running,
         Working, Gathering
<1> QED
  BY <1>1, <1>2, <1>3, <1>4, <1>5, <1>6, <1>7, <1>8, <1>9, <1>10, <1>11
     DEF IInv, Alone

LEMMA EnterBatchKeeps ==
  ASSUME IInv, EnterBatch
  PROVE  IInv'
<1>w. /\ worker' \in [Drives -> [Tasks -> TaskStates]]
      /\ \A e \in Drives, q \in Tasks :
             worker'[e][q] = IF e = drive /\ q = 0 THEN Placing ELSE worker[e][q]
  BY Indices, Idle, Moved DEF IInv, Driven, EnterBatch
<1>1. TypeOK'
  BY Indices, States, Idle, <1>w
     DEF IInv, TypeOK, storedVars, abortVars, historyVars, EnterBatch
<1>2. OneResultEachInOrder'
  BY StoredKept DEF IInv, EnterBatch, historyVars, storedVars
<1>3. TemporaryDataOwned'
  BY StoredKept DEF IInv, EnterBatch, historyVars, storedVars
<1>4. (\A e \in Drives, q \in Tasks : TaskKnows(e, q))'
  BY Indices, Idle, <1>w
     DEF IInv, TaskKnows, storedVars, abortVars, historyVars, EnterBatch,
         Fetching, Running
<1>5. Admitted'
  BY Indices, Idle, States, AdmittedKept, <1>w
     DEF IInv, EnterBatch, historyVars, storedVars
<1>6. UnsafeOnce'
  BY EffectsKept DEF IInv, EnterBatch, historyVars, storedVars
<1>7. Driven'
  BY Indices, States, Idle, <1>w
     DEF IInv, TypeOK, Driven, storedVars, abortVars, historyVars, EnterBatch
<1>8. (lost = 0 => SoleDrive)'
  BY Indices, Idle, <1>w
     DEF IInv, Driven, Alone, SoleDrive, storedVars, abortVars, historyVars,
         EnterBatch
<1>9. (lost = 0 => SoleTasks)'
  BY Indices, Idle, <1>w
     DEF IInv, Driven, Alone, SoleDrive, SoleTasks, storedVars, abortVars,
         historyVars, EnterBatch
<1>10. (lost = 0 => SoleWork)'
  BY Indices, Idle, <1>w
     DEF IInv, Driven, Alone, SoleDrive, SoleTasks, SoleWork, TaskKnows,
         storedVars, abortVars, historyVars, EnterBatch, Fetching, Running,
         Working, Gathering
<1>11. FreshCheckpoint'
  BY Indices, Idle, <1>w
     DEF IInv, TypeOK, FreshCheckpoint, Alone, SoleTasks, SoleWork,
         storedVars, abortVars, historyVars, EnterBatch, Fetching, Running,
         Working, Gathering
<1> QED
  BY <1>1, <1>2, <1>3, <1>4, <1>5, <1>6, <1>7, <1>8, <1>9, <1>10, <1>11
     DEF IInv, Alone

LEMMA CallsDoneKeeps ==
  ASSUME IInv, CallsDone
  PROVE  IInv'
<1>w. /\ worker' \in [Drives -> [Tasks -> TaskStates]]
      /\ mode # "parallel" => worker' = worker
      /\ mode = "parallel" => \A e \in Drives, q \in Tasks :
             worker'[e][q] = IF e = drive /\ q = 0 THEN Placing ELSE worker[e][q]
  <2>1. CASE mode # "parallel"
    BY <2>1 DEF IInv, TypeOK, CallsDone
  <2>2. CASE mode = "parallel"
    BY <2>2, Indices, Idle, Moved DEF IInv, Driven, CallsDone
  <2> QED
    BY <2>1, <2>2
<1>1. TypeOK'
  BY Indices, States, Idle, <1>w
     DEF IInv, TypeOK, storedVars, abortVars, historyVars, CallsDone
<1>2. OneResultEachInOrder'
  BY StoredKept DEF IInv, CallsDone, historyVars, storedVars
<1>3. TemporaryDataOwned'
  BY StoredKept DEF IInv, CallsDone, historyVars, storedVars
<1>4. (\A e \in Drives, q \in Tasks : TaskKnows(e, q))'
  BY Indices, Idle, <1>w
     DEF IInv, TaskKnows, storedVars, abortVars, historyVars, CallsDone,
         Fetching, Running
<1>5. Admitted'
  BY Indices, Idle, States, AdmittedKept, <1>w
     DEF IInv, CallsDone, historyVars, storedVars
<1>6. UnsafeOnce'
  BY EffectsKept DEF IInv, CallsDone, historyVars, storedVars
<1>7. Driven'
  BY Indices, States, Idle, <1>w
     DEF IInv, TypeOK, Driven, storedVars, abortVars, historyVars, CallsDone
<1>8. (lost = 0 => SoleDrive)'
  BY Indices, Idle, <1>w
     DEF IInv, Driven, Alone, SoleDrive, storedVars, abortVars, historyVars,
         CallsDone
<1>9. (lost = 0 => SoleTasks)'
  BY Indices, Idle, <1>w
     DEF IInv, Driven, Alone, SoleDrive, SoleTasks, storedVars, abortVars,
         historyVars, CallsDone
<1>10. (lost = 0 => SoleWork)'
  BY Indices, Idle, <1>w
     DEF IInv, Driven, Alone, SoleDrive, SoleTasks, SoleWork, TaskKnows,
         storedVars, abortVars, historyVars, CallsDone, Fetching, Running,
         Working, Gathering
<1>11. FreshCheckpoint'
  BY Indices, Idle, <1>w
     DEF IInv, TypeOK, FreshCheckpoint, Alone, SoleTasks, SoleWork,
         storedVars, abortVars, historyVars, CallsDone, Fetching, Running,
         Working, Gathering
<1> QED
  BY <1>1, <1>2, <1>3, <1>4, <1>5, <1>6, <1>7, <1>8, <1>9, <1>10, <1>11
     DEF IInv, Alone

LEMMA StartCallsKeeps ==
  ASSUME IInv, StartCalls
  PROVE  IInv'
<1>w. /\ worker' \in [Drives -> [Tasks -> TaskStates]]
      /\ \A e \in Drives \ {drive}, q \in Tasks : worker'[e][q] = worker[e][q]
      /\ at # "tools" => worker' = worker
      /\ at = "tools" => \A q \in Tasks :
             \/ worker'[drive][q] = NoTask
             \/ /\ q \in Calls
                /\ worker'[drive][q].expected = call[q]
                /\ \/ call[q] = Planned /\ worker'[drive][q].at = "hook"
                   \/ call[q] \in Effects /\ worker'[drive][q].at = "recover"
  <2>1. CASE at # "tools"
    BY <2>1 DEF IInv, TypeOK, StartCalls
  <2>2. CASE at = "tools"
    <3> DEFINE T(q) == IF q \in Started
                       THEN [NoTask EXCEPT
                                !.at = IF call[q].at = "planned" THEN "hook"
                                       ELSE "recover",
                                !.expected = call[q]]
                       ELSE NoTask
    <3>1. worker' = [worker EXCEPT ![drive] = [q \in Tasks |-> T(q)]]
      BY <2>2 DEF StartCalls
    <3>2. \A q \in Tasks : q \in Started =>
              /\ q \in Calls
              /\ call[q] \in ToolCallStates
              /\ call[q].at \in {"planned", "pending"}
      BY DEF Started, Unfinished, IInv, TypeOK
    <3>3. ASSUME NEW q \in Tasks
          PROVE  /\ T(q) \in TaskStates
                 /\ \/ T(q) = NoTask
                    \/ /\ q \in Calls
                       /\ T(q).expected = call[q]
                       /\ \/ call[q] = Planned /\ T(q).at = "hook"
                          \/ call[q] \in Effects /\ T(q).at = "recover"
      <4>1. CASE q \in Started
        BY <3>2, <4>1, States, Indices DEF TaskStates, NoTask
      <4>2. CASE q \notin Started
        BY <4>2, Idle
      <4> QED
        BY <4>1, <4>2
    <3> HIDE DEF T
    <3> QED
      BY <2>2, <3>1, <3>3 DEF IInv, TypeOK, Driven, StartCalls
  <2> QED
    BY <2>1, <2>2
<1>p. /\ drive \in Drives /\ UNCHANGED <<storedVars, drive, abortVars, faulted, historyVars>>
      /\ pc = "prefix" /\ worker[drive][0] = NoTask
      /\ (at # "tools" /\ pc' = "top" /\ worker' = worker) \/ (at = "tools" /\ pc' = "gather")
      /\ \A e \in Drives, q \in Tasks :
             \/ worker'[e][q] = worker[e][q] /\ (e # drive \/ at # "tools")
             \/ worker'[e][q] = NoTask /\ e = drive
             \/ /\ q \in Calls /\ e = drive /\ at = "tools"
                /\ worker'[e][q].expected = call[q]
                /\ \/ call[q] = Planned /\ worker'[e][q].at = "hook"
                   \/ call[q] \in Effects /\ worker'[e][q].at = "recover"
  BY <1>w DEF IInv, Driven, StartCalls
<1>1. TypeOK'
  BY Indices, States, Idle, <1>w
     DEF IInv, TypeOK, storedVars, abortVars, historyVars, StartCalls
<1>2. OneResultEachInOrder'
  BY StoredKept DEF IInv, StartCalls, historyVars, storedVars
<1>3. TemporaryDataOwned'
  BY StoredKept DEF IInv, StartCalls, historyVars, storedVars
<1>4. (\A e \in Drives, q \in Tasks : TaskKnows(e, q))'
  BY <1>p, Idle, Indices DEF IInv, TaskKnows, Fetching, Running, storedVars
<1>5. Admitted'
  <2>1. \A c \in Calls : call[c] \in Effects => call[c] # Planned
    BY States
  <2> QED
    BY <1>p, <2>1, Idle, Indices, AdmittedKept
       DEF IInv, storedVars, historyVars
<1>6. UnsafeOnce'
  BY EffectsKept DEF IInv, StartCalls, historyVars, storedVars
<1>7. Driven'
  BY Indices, States, Idle, <1>w
     DEF IInv, TypeOK, Driven, storedVars, abortVars, historyVars, StartCalls
<1>8. (lost = 0 => SoleDrive)'
  BY Indices, Idle, <1>w
     DEF IInv, Driven, Alone, SoleDrive, storedVars, abortVars, historyVars,
         StartCalls
<1>9. (lost = 0 => SoleTasks)'
  BY <1>p, Idle, Indices DEF IInv, Alone, SoleDrive, SoleTasks, historyVars
<1>10. (lost = 0 => SoleWork)'
  BY <1>p, Idle, Indices
     DEF IInv, Alone, SoleDrive, SoleTasks, SoleWork, TaskKnows, Working,
         Fetching, Running, Gathering, storedVars, historyVars
<1>11. FreshCheckpoint'
  BY Indices, Idle, <1>w
     DEF IInv, TypeOK, FreshCheckpoint, Alone, SoleTasks, SoleWork,
         storedVars, abortVars, historyVars, StartCalls, Fetching, Running,
         Working, Gathering
<1> QED
  BY <1>1, <1>2, <1>3, <1>4, <1>5, <1>6, <1>7, <1>8, <1>9, <1>10, <1>11
     DEF IInv, Alone

LEMMA LeaveBatchKeeps ==
  ASSUME IInv, LeaveBatch
  PROVE  IInv'
<1>1. TypeOK'
  BY Indices, States, Idle
     DEF IInv, TypeOK, storedVars, abortVars, historyVars, LeaveBatch
<1>2. OneResultEachInOrder'
  BY StoredKept DEF IInv, LeaveBatch, historyVars, storedVars
<1>3. TemporaryDataOwned'
  BY StoredKept DEF IInv, LeaveBatch, historyVars, storedVars
<1>4. (\A e \in Drives, q \in Tasks : TaskKnows(e, q))'
  BY Indices, Idle
     DEF IInv, TaskKnows, storedVars, abortVars, historyVars, LeaveBatch,
         Fetching, Running
<1>5. Admitted'
  BY Indices, Idle
     DEF IInv, TaskKnows, Admitted, Untouched, Driven, storedVars, abortVars,
         historyVars, LeaveBatch, Fetching, Running
<1>6. UnsafeOnce'
  BY EffectsKept DEF IInv, LeaveBatch, historyVars, storedVars
<1>7. Driven'
  BY Indices, States, Idle
     DEF IInv, TypeOK, Driven, storedVars, abortVars, historyVars, LeaveBatch
<1>8. (lost = 0 => SoleDrive)'
  BY Indices, Idle
     DEF IInv, Driven, Alone, SoleDrive, storedVars, abortVars, historyVars,
         LeaveBatch
<1>9. (lost = 0 => SoleTasks)'
  BY Indices, Idle
     DEF IInv, Driven, Alone, SoleDrive, SoleTasks, storedVars, abortVars,
         historyVars, LeaveBatch
<1>10. (lost = 0 => SoleWork)'
  BY Indices, Idle
     DEF IInv, Driven, Alone, SoleDrive, SoleTasks, SoleWork, TaskKnows,
         storedVars, abortVars, historyVars, LeaveBatch, Fetching, Running,
         Working, Gathering
<1>11. FreshCheckpoint'
  BY Indices, Idle
     DEF IInv, TypeOK, FreshCheckpoint, Alone, SoleTasks, SoleWork,
         storedVars, abortVars, historyVars, LeaveBatch, Fetching, Running,
         Working, Gathering
<1> QED
  BY <1>1, <1>2, <1>3, <1>4, <1>5, <1>6, <1>7, <1>8, <1>9, <1>10, <1>11
     DEF IInv, Alone

LEMMA ReconcileAbortKeeps ==
  ASSUME IInv, ReconcileAbort
  PROVE  IInv'
<1>1. TypeOK'
  BY Indices, States, Idle
     DEF IInv, TypeOK, abortVars, historyVars, ReconcileAbort
<1>2. OneResultEachInOrder'
  BY Indices, States, Idle
     DEF IInv, TypeOK, OneResultEachInOrder, abortVars, historyVars,
         ReconcileAbort
<1>3. TemporaryDataOwned'
  BY Indices, States, Idle
     DEF IInv, TypeOK, TemporaryDataOwned, abortVars, historyVars,
         ReconcileAbort
<1>4. (\A e \in Drives, q \in Tasks : TaskKnows(e, q))'
  BY Indices, Idle
     DEF IInv, TaskKnows, abortVars, historyVars, ReconcileAbort, Fetching,
         Running
<1>5. Admitted'
  BY Indices, Idle
     DEF IInv, TaskKnows, Admitted, Untouched, Driven, abortVars, historyVars,
         ReconcileAbort, Fetching, Running
<1>6. UnsafeOnce'
  BY Indices, States, Idle
     DEF IInv, TypeOK, UnsafeOnce, Admitted, abortVars, historyVars,
         ReconcileAbort
<1>7. Driven'
  BY Indices, States, Idle
     DEF IInv, TypeOK, Driven, abortVars, historyVars, ReconcileAbort
<1>8. (lost = 0 => SoleDrive)'
  BY Indices, Idle
     DEF IInv, Driven, Alone, SoleDrive, abortVars, historyVars,
         ReconcileAbort
<1>9. (lost = 0 => SoleTasks)'
  BY Indices, Idle
     DEF IInv, Driven, Alone, SoleDrive, SoleTasks, abortVars, historyVars,
         ReconcileAbort
<1>10. (lost = 0 => SoleWork)'
  BY Indices, Idle
     DEF IInv, Driven, Alone, SoleDrive, SoleTasks, SoleWork, TaskKnows,
         abortVars, historyVars, ReconcileAbort, Fetching, Running, Working,
         Gathering
<1>11. FreshCheckpoint'
  BY Indices, Idle
     DEF IInv, TypeOK, FreshCheckpoint, Alone, SoleTasks, SoleWork, abortVars,
         historyVars, ReconcileAbort, Fetching, Running, Working, Gathering
<1> QED
  BY <1>1, <1>2, <1>3, <1>4, <1>5, <1>6, <1>7, <1>8, <1>9, <1>10, <1>11
     DEF IInv, Alone

LEMMA StopKeeps ==
  ASSUME IInv, Stop, crashes' \in 0..MaxMishaps
  PROVE  IInv'
<1>w. /\ worker' \in [Drives -> [Tasks -> TaskStates]]
      /\ \A e \in Drives, q \in Tasks : worker'[e][q] = NoTask
  BY Idle DEF Stop, NoTasks
<1>1. TypeOK'
  <2>1. reason' \in [Drives -> {"none", "abort", "fault"}]
    BY DEF Stop
  <2>2. drive' \in 0..(MaxMishaps + 1) /\ crashes' \in 0..MaxMishaps
    BY Indices DEF Stop
  <2> QED
    BY <1>w, <2>1, <2>2, Zenon DEF IInv, TypeOK, Stop, storedVars
<1>2. OneResultEachInOrder'
  BY StoredKept DEF IInv, Stop, storedVars
<1>3. TemporaryDataOwned'
  BY StoredKept DEF IInv, Stop, storedVars
<1>4. (\A e \in Drives, q \in Tasks : TaskKnows(e, q))'
  BY Indices, Idle, <1>w
     DEF IInv, TaskKnows, storedVars, Stop, Fetching, Running
<1>5. Admitted'
  BY Indices, Idle, States, AdmittedKept, <1>w DEF IInv, Stop, storedVars
<1>6. UnsafeOnce'
  BY EffectsKept DEF IInv, Stop, storedVars
<1>7. Driven'
  BY Indices, States, Idle, <1>w DEF IInv, TypeOK, Driven, storedVars, Stop
<1>8. (lost = 0 => SoleDrive)'
  BY Indices, Idle, <1>w DEF IInv, Driven, Alone, SoleDrive, storedVars, Stop
<1>9. (lost = 0 => SoleTasks)'
  BY Indices, Idle, <1>w
     DEF IInv, Driven, Alone, SoleDrive, SoleTasks, storedVars, Stop
<1>10. (lost = 0 => SoleWork)'
  BY Indices, Idle, <1>w
     DEF IInv, Driven, Alone, SoleDrive, SoleTasks, SoleWork, TaskKnows,
         storedVars, Stop, Fetching, Running, Working, Gathering
<1>11. FreshCheckpoint'
  BY Indices, Idle, <1>w
     DEF IInv, TypeOK, FreshCheckpoint, Alone, SoleTasks, SoleWork,
         storedVars, Stop, Fetching, Running, Working, Gathering
<1> QED
  BY <1>1, <1>2, <1>3, <1>4, <1>5, <1>6, <1>7, <1>8, <1>9, <1>10, <1>11
     DEF IInv, Alone

(* A task goes on by itself: to a point that its own knowledge allows.     *)
LEMMA GoesOn ==
  ASSUME IInv, NEW d \in Drives, NEW p \in Tasks, NEW t \in TaskStates,
         Move(d, p, t),
         UNCHANGED <<storedVars, drive, pc, abortVars, faulted, historyVars>>,
         t.expected = worker[d][p].expected, t.target = worker[d][p].target,
         t.at \in Working \ {"admit", "exec"},
         worker[d][p].at \in Working,
         t.at = "after" => worker[d][p].at \in Running,
         t.at = "publish" => worker[d][p].at \in Fetching,
         t.at \notin {"hook", "recover"},
         worker[d][p].at = "recover" =>
             \A e \in Drives : worker[e][p].at # "admit"
  PROVE  IInv'
<1>t. t \in TaskStates
  BY Indices, States, Idle DEF IInv, TypeOK, TaskStates
<1>w. /\ worker' \in [Drives -> [Tasks -> TaskStates]]
      /\ \A e \in Drives, q \in Tasks :
             worker'[e][q] = IF e = d /\ q = p THEN t ELSE worker[e][q]
  BY <1>t, Indices, Moved DEF IInv
<1>1. TypeOK'
  BY Indices, States, Idle, <1>t, <1>w
     DEF IInv, TypeOK, storedVars, abortVars, historyVars, Fetching, Running,
         Working
<1>2. OneResultEachInOrder'
  BY StoredKept DEF IInv, historyVars, storedVars
<1>3. TemporaryDataOwned'
  BY StoredKept DEF IInv, historyVars, storedVars
<1>4. (\A e \in Drives, q \in Tasks : TaskKnows(e, q))'
  BY Indices, Idle, <1>t, <1>w
     DEF IInv, TaskKnows, storedVars, abortVars, historyVars, Fetching,
         Running, Working
<1>5. Admitted'
  <2>1. UNCHANGED <<call, attempts>>
    BY DEF storedVars, historyVars
  <2>2. ASSUME NEW e \in Drives, NEW c \in Calls
        PROVE  /\ worker'[e][c].at = "admit" => worker[e][c].at = "admit"
               /\ worker'[e][c].at = "recover" => worker[e][c].at = "recover"
    BY <1>w, Indices DEF Working, Fetching, Running
  <2>3. ASSUME NEW c \in Calls, call[c] = Planned, NEW e \in Drives
        PROVE  Untouched(e, c)'
    <3>1. Untouched(e, c) /\ TaskKnows(e, c) /\ worker[e][c].at # "recover"
      BY <2>3, Indices DEF IInv, Admitted
    <3> QED
      BY <1>w, <3>1, Indices
         DEF Untouched, TaskKnows, Working, Fetching, Running
  <2>4. ASSUME NEW c \in Calls, NEW f \in Drives, worker[f][c].at = "admit", worker'[f][c].at = "admit",
               NEW e \in Drives \ {f}
        PROVE  Untouched(e, c)'
    <3>1. Untouched(e, c) /\ TaskKnows(e, c)
      BY <2>4, Indices DEF IInv, Admitted
    <3>2. e = d /\ c = p => worker[e][c].at # "recover"
      <4> SUFFICES ASSUME e = d, c = p, worker[d][p].at = "recover"
                   PROVE  FALSE
        OBVIOUS
      <4>1. worker[f][p].at # "admit"
        OBVIOUS
      <4> QED
        BY <2>4, <4>1
    <3> QED
      BY <1>w, <3>1, <3>2, Indices
         DEF Untouched, TaskKnows, Working, Fetching, Running
  <2> QED
    BY <2>1, <2>2, <2>3, <2>4 DEF IInv, Admitted
<1>6. UnsafeOnce'
  BY EffectsKept DEF IInv, historyVars, storedVars
<1>7. Driven'
  BY Indices, States, Idle, <1>t, <1>w
     DEF IInv, TypeOK, Driven, storedVars, abortVars, historyVars, Fetching,
         Running, Working
<1>8. (lost = 0 => SoleDrive)'
  BY Indices, Idle, <1>t, <1>w
     DEF IInv, Driven, Alone, SoleDrive, storedVars, abortVars, historyVars,
         Fetching, Running, Working
<1>9. (lost = 0 => SoleTasks)'
  BY Indices, Idle, <1>t, <1>w
     DEF IInv, Driven, Alone, SoleDrive, SoleTasks, storedVars, abortVars,
         historyVars, Fetching, Running, Working
<1>10. (lost = 0 => SoleWork)'
  BY Indices, Idle, <1>t, <1>w
     DEF IInv, Driven, Alone, SoleDrive, SoleTasks, SoleWork, TaskKnows,
         storedVars, abortVars, historyVars, Fetching, Running, Working,
         Gathering
<1>11. FreshCheckpoint'
  BY Indices, Idle, <1>t, <1>w
     DEF IInv, TypeOK, FreshCheckpoint, Alone, SoleTasks, SoleWork,
         storedVars, abortVars, historyVars, Fetching, Running, Working,
         Gathering
<1> QED
  BY <1>1, <1>2, <1>3, <1>4, <1>5, <1>6, <1>7, <1>8, <1>9, <1>10, <1>11
     DEF IInv, Alone

(* A task at another point                                                 *)
LEMMA Repointed ==
  ASSUME NEW w \in TaskStates,
         NEW point \in {"publish", "exec", "after", "stage"}
  PROVE  /\ [w EXCEPT !.at = point] \in TaskStates
         /\ [w EXCEPT !.at = point].at = point
         /\ [w EXCEPT !.at = point].expected = w.expected
         /\ [w EXCEPT !.at = point].run = w.run
         /\ [w EXCEPT !.at = point].target = w.target
  BY DEF TaskStates

LEMMA RaiseKeeps ==
  ASSUME IInv, NEW d \in Drives, NEW p \in Tasks, RaiseIfCancelled(d, p)
  PROVE  IInv'
<1>1. reason[d] # "cancelled"
  BY DEF IInv, TypeOK
<1>2. lost = 0 => reason[d] = "abort"
  BY DEF RaiseIfCancelled, IInv, Alone, SoleDrive
<1>3. Fail(d, p, reason[d])
  BY DEF RaiseIfCancelled
<1> QED
  BY <1>1, <1>2, <1>3, FailKeeps

(* A task whose drive was not lost finds its call as it expects it.         *)
LEMMA ExpectedAlone ==
  ASSUME IInv, lost = 0, NEW d \in Drives, d = drive, pc \in Gathering,
         NEW c \in Calls, worker[d][c].at \in Working
  PROVE  Expected(d, c) /\ d = 1 /\ ~faulted
<1>1. SoleDrive /\ SoleWork
  BY DEF IInv, Alone
<1>2. d = 1
  BY <1>1, Indices DEF SoleDrive
<1> QED
  BY <1>1, <1>2 DEF Expected, SoleDrive, SoleWork

LEMMA BeforeToolKeeps ==
  ASSUME IInv, NEW d \in Drives, NEW c \in Calls, BeforeTool(d, c)
  PROVE  IInv'
<1>1. CASE RaiseIfCancelled(d, c)
  BY <1>1, RaiseKeeps, Indices
<1>2. ASSUME NEW point \in {"stage", "publish"},
             Move(d, c, [worker[d][c] EXCEPT !.at = point]),
             UNCHANGED <<storedVars, drive, pc, abortVars, faulted, historyVars>>
      PROVE  IInv'
  <2>1. worker[d][c] \in TaskStates /\ c \in Tasks /\ worker[d][c].at = "hook"
    BY Indices DEF IInv, TypeOK, BeforeTool
  <2> QED
    BY <1>2, <2>1, Repointed, GoesOn DEF Working, Fetching, Running
<1> QED
  BY <1>1, <1>2 DEF BeforeTool

LEMMA ToolReturnsKeeps ==
  ASSUME IInv, NEW d \in Drives, NEW c \in Calls, ToolReturns(d, c)
  PROVE  IInv'
<1>1. CASE reason[d] = "fault" /\ Fail(d, c, "fault")
  <2>1. lost # 0
    BY <1>1 DEF IInv, Alone, SoleDrive
  <2> QED
    BY <1>1, <2>1, FailKeeps, Indices
<1>2. CASE /\ Move(d, c, [worker[d][c] EXCEPT !.at = "after"])
           /\ UNCHANGED <<storedVars, drive, pc, abortVars, faulted, historyVars>>
  <2>1. worker[d][c] \in TaskStates /\ c \in Tasks /\ worker[d][c].at = "exec"
    BY Indices DEF IInv, TypeOK, ToolReturns
  <2> QED
    BY <1>2, <2>1, Repointed, GoesOn DEF Working, Fetching, Running
<1> QED
  BY <1>1, <1>2 DEF ToolReturns

LEMMA ToolCancelledKeeps ==
  ASSUME IInv, NEW d \in Drives, NEW c \in Calls, ToolCancelled(d, c)
  PROVE  IInv'
  BY FailKeeps, Indices DEF ToolCancelled

LEMMA AfterToolKeeps ==
  ASSUME IInv, NEW d \in Drives, NEW c \in Calls, AfterTool(d, c)
  PROVE  IInv'
<1>1. CASE RaiseIfCancelled(d, c)
  BY <1>1, RaiseKeeps, Indices
<1>2. CASE /\ Move(d, c, [worker[d][c] EXCEPT !.at = "stage"])
           /\ UNCHANGED <<storedVars, drive, pc, abortVars, faulted, historyVars>>
  <2>1. worker[d][c] \in TaskStates /\ c \in Tasks /\ worker[d][c].at = "after"
    BY Indices DEF IInv, TypeOK, AfterTool
  <2> QED
    BY <1>2, <2>1, Repointed, GoesOn DEF Working, Fetching, Running
<1> QED
  BY <1>1, <1>2 DEF AfterTool

LEMMA WriteProgressKeeps ==
  ASSUME IInv, NEW d \in Drives, NEW c \in Calls, WriteProgress(d, c)
  PROVE  IInv'
<1>w. worker[d][c].run \in Nat /\ c \in Tasks /\ worker[d][c].at = "exec"
  BY Indices DEF IInv, TypeOK, TaskStates, WriteProgress
<1>1. TypeOK'
  <2>1. output' \in [Calls -> Nat]
    BY <1>w DEF IInv, TypeOK, WriteProgress
  <2> QED
    BY <2>1 DEF IInv, TypeOK, WriteProgress, taskVars, abortVars, historyVars
<1>2. OneResultEachInOrder'
  BY Indices, States, Idle
     DEF IInv, TypeOK, OneResultEachInOrder, taskVars, abortVars, historyVars,
         WriteProgress, Owns
<1>3. TemporaryDataOwned'
  BY Indices, States, Idle
     DEF IInv, TypeOK, TemporaryDataOwned, taskVars, abortVars, historyVars,
         WriteProgress, Owns
<1>4. (\A e \in Drives, q \in Tasks : TaskKnows(e, q))'
  BY Indices, Idle
     DEF IInv, TaskKnows, taskVars, abortVars, historyVars, WriteProgress,
         Owns, Fetching, Running
<1>5. Admitted'
  BY Indices, Idle
     DEF IInv, TaskKnows, Admitted, Untouched, Driven, taskVars, abortVars,
         historyVars, WriteProgress, Owns, Fetching, Running
<1>6. UnsafeOnce'
  BY Indices, States, Idle
     DEF IInv, TypeOK, UnsafeOnce, Admitted, taskVars, abortVars, historyVars,
         WriteProgress, Owns
<1>7. Driven'
  BY Indices, States, Idle
     DEF IInv, TypeOK, Driven, taskVars, abortVars, historyVars,
         WriteProgress, Owns
<1>8. (lost = 0 => SoleDrive)'
  BY Indices, Idle
     DEF IInv, Driven, Alone, SoleDrive, taskVars, abortVars, historyVars,
         WriteProgress, Owns
<1>9. (lost = 0 => SoleTasks)'
  BY Indices, Idle
     DEF IInv, Driven, Alone, SoleDrive, SoleTasks, taskVars, abortVars,
         historyVars, WriteProgress, Owns
<1>10. (lost = 0 => SoleWork)'
  BY Indices, Idle
     DEF IInv, Driven, Alone, SoleDrive, SoleTasks, SoleWork, TaskKnows,
         taskVars, abortVars, historyVars, WriteProgress, Owns, Fetching,
         Running, Working, Gathering
<1>11. FreshCheckpoint'
  <2>1. lost = 0 => worker[d][c].run = attempts[c]
    BY <1>w, Idle, Indices DEF IInv, Alone, SoleTasks, SoleWork
  <2> QED
    BY <2>1 DEF IInv, TypeOK, FreshCheckpoint, WriteProgress, historyVars
<1> QED
  BY <1>1, <1>2, <1>3, <1>4, <1>5, <1>6, <1>7, <1>8, <1>9, <1>10, <1>11
     DEF IInv, Alone

LEMMA RefuseMemoKeeps ==
  ASSUME IInv, NEW d \in Drives, NEW c \in Calls, RefuseMemo(d, c)
  PROVE  IInv'
<1>w. lost # 0
  <2> SUFFICES ASSUME lost = 0
               PROVE  FALSE
    OBVIOUS
  <2>1. SoleDrive /\ SoleTasks /\ SoleWork
    BY DEF IInv, Alone
  <2>2. worker[d][c].at = "exec" /\ reason[d] = "none" /\ ~Owns(c) /\ c \in Tasks
    BY Indices DEF RefuseMemo
  <2>3. d = 1
    BY <2>1, <2>2, Idle DEF SoleTasks
  <2>4. pc \in Gathering
    BY <2>1, <2>2, <2>3, Idle DEF SoleTasks, Gathering, IInv, TypeOK
  <2>5. at = "tools" /\ call[c] \in Effects
    BY <2>1, <2>2, <2>3, <2>4 DEF SoleWork, Working, Running, IInv, TaskKnows
  <2> QED
    BY <2>2, <2>5, States DEF Owns
<1>1. TypeOK'
  BY Indices, States, Idle, <1>w
     DEF IInv, TypeOK, storedVars, taskVars, historyVars, RefuseMemo, Fault
<1>2. OneResultEachInOrder'
  BY StoredKept DEF IInv, RefuseMemo, historyVars, storedVars
<1>3. TemporaryDataOwned'
  BY StoredKept DEF IInv, RefuseMemo, historyVars, storedVars
<1>4. (\A e \in Drives, q \in Tasks : TaskKnows(e, q))'
  BY Indices, Idle, <1>w
     DEF IInv, TaskKnows, storedVars, taskVars, historyVars, RefuseMemo,
         Fault, Fetching, Running
<1>5. Admitted'
  BY Indices, Idle, <1>w
     DEF IInv, TaskKnows, Admitted, Untouched, Driven, storedVars, taskVars,
         historyVars, RefuseMemo, Fault, Fetching, Running
<1>6. UnsafeOnce'
  BY EffectsKept DEF IInv, RefuseMemo, historyVars, storedVars
<1>7. Driven'
  BY Indices, States, Idle, <1>w
     DEF IInv, TypeOK, Driven, storedVars, taskVars, historyVars, RefuseMemo,
         Fault
<1>8. (lost = 0 => SoleDrive)'
  BY Indices, Idle, <1>w
     DEF IInv, Driven, Alone, SoleDrive, storedVars, taskVars, historyVars,
         RefuseMemo, Fault
<1>9. (lost = 0 => SoleTasks)'
  BY Indices, Idle, <1>w
     DEF IInv, Driven, Alone, SoleDrive, SoleTasks, storedVars, taskVars,
         historyVars, RefuseMemo, Fault
<1>10. (lost = 0 => SoleWork)'
  BY Indices, Idle, <1>w
     DEF IInv, Driven, Alone, SoleDrive, SoleTasks, SoleWork, TaskKnows,
         storedVars, taskVars, historyVars, RefuseMemo, Fault, Fetching,
         Running, Working, Gathering
<1>11. FreshCheckpoint'
  BY Indices, Idle, <1>w
     DEF IInv, TypeOK, FreshCheckpoint, Alone, SoleTasks, SoleWork,
         storedVars, taskVars, historyVars, RefuseMemo, Fault, Fetching,
         Running, Working, Gathering
<1> QED
  BY <1>1, <1>2, <1>3, <1>4, <1>5, <1>6, <1>7, <1>8, <1>9, <1>10, <1>11
     DEF IInv, Alone

LEMMA IntentKeeps ==
  ASSUME IInv, NEW d \in Drives, NEW c \in Calls, NEW r \in Replays,
         worker[d][c].at = "publish", Expected(d, c),
         call' = [call EXCEPT ![c] = EffectPending(r)],
         NEW t, t = [NoTask EXCEPT !.at = "admit",
                                   !.expected = EffectPending(r)],
         Move(d, c, t),
         args' = args \union {c},
         UNCHANGED <<at, mode, branch, staged, output, drive, pc, abortVars,
                     faulted, historyVars>>
  PROVE  IInv'
<1>t. t \in TaskStates
      /\ t.at = "admit" /\ t.expected = EffectPending(r)
  BY Indices, States, Idle DEF IInv, TypeOK, TaskStates, NoTask
<1>w. /\ worker' \in [Drives -> [Tasks -> TaskStates]]
      /\ \A e \in Drives, q \in Tasks :
             worker'[e][q] = IF e = d /\ q = c THEN t ELSE worker[e][q]
  BY <1>t, Indices, Moved DEF IInv
<1>c. /\ call[c] = Planned /\ c \in Tasks /\ at = "tools"
      /\ call' \in [Calls -> ToolCallStates]
      /\ \A b \in Calls : call'[b] = IF b = c THEN EffectPending(r) ELSE call[b]
  BY States, Indices
     DEF IInv, TypeOK, TaskKnows, Expected, Fetching, Running, Effects
<1>1. TypeOK'
  BY Indices, States, Idle, <1>t, <1>w, <1>c
     DEF IInv, TypeOK, abortVars, historyVars
<1>2. OneResultEachInOrder'
  BY Indices, States, Idle, <1>t, <1>w, <1>c
     DEF IInv, TypeOK, OneResultEachInOrder, abortVars, historyVars
<1>3. TemporaryDataOwned'
  BY Indices, States, Idle, <1>t, <1>w, <1>c
     DEF IInv, TypeOK, TemporaryDataOwned, abortVars, historyVars
<1>4. (\A e \in Drives, q \in Tasks : TaskKnows(e, q))'
  <2>1. \A b \in Calls : call[b].at = "completed" => call'[b].at = "completed"
    BY <1>c, States
  <2>2. TaskKnows(d, c)'
    <3>1. worker'[d][c] = t /\ c # 0
      BY <1>w, Indices
    <3> QED
      BY <1>t, <3>1, States DEF TaskKnows, Fetching, Running
  <2>3. ASSUME NEW e \in Drives, NEW q \in Tasks, ~(e = d /\ q = c)
        PROVE  TaskKnows(e, q)'
    <3>1. worker'[e][q] = worker[e][q] /\ TaskKnows(e, q)
      BY <1>w, <2>3 DEF IInv
    <3>2. worker[e][q].target \in Calls =>
              \A b \in 1..(worker[e][q].target - 1) : b \in Calls
      BY ToolBatchAssumption DEF Calls
    <3> QED
      BY <2>1, <3>1, <3>2 DEF TaskKnows
  <2> QED
    BY <2>2, <2>3
<1>5. Admitted'
  <2>1. UNCHANGED attempts
    BY DEF historyVars
  <2>2. ASSUME NEW b \in Calls, b # c
        PROVE  call'[b] = call[b] /\ \A e \in Drives : worker'[e][b] = worker[e][b]
    BY <1>c, <1>w, <2>2, Indices
  <2>3. /\ call'[c] # Planned /\ call'[c].at = "pending" /\ attempts[c] = 0
        /\ \A e \in Drives : Untouched(e, c) /\ worker[e][c].at # "recover"
    BY <1>c, States, Indices DEF IInv, Admitted
  <2>4. \A e \in Drives \ {d} : worker'[e][c] = worker[e][c]
    BY <1>w, Indices
  <2> QED
    BY <2>1, <2>2, <2>3, <2>4 DEF IInv, Admitted, Untouched, Running
<1>6. UnsafeOnce'
  BY Indices, States, Idle, <1>t, <1>w, <1>c
     DEF IInv, TypeOK, UnsafeOnce, Admitted, abortVars, historyVars
<1>7. Driven'
  BY Indices, States, Idle, <1>t, <1>w, <1>c
     DEF IInv, TypeOK, Driven, abortVars, historyVars
<1>8. (lost = 0 => SoleDrive)'
  BY Indices, Idle, <1>t, <1>w, <1>c
     DEF IInv, Driven, Alone, SoleDrive, abortVars, historyVars
<1>9. (lost = 0 => SoleTasks)'
  BY Indices, Idle, <1>t, <1>w, <1>c
     DEF IInv, Driven, Alone, SoleDrive, SoleTasks, abortVars, historyVars
<1>10. (lost = 0 => SoleWork)'
  <2> SUFFICES ASSUME lost = 0, SoleTasks, SoleWork
               PROVE  SoleWork'
    BY DEF IInv, Alone, historyVars
  <2>1. d = 1
    BY Idle, Indices DEF SoleTasks
  <2>2. UNCHANGED <<pc, at, attempts>>
    BY DEF historyVars
  <2>3. ASSUME pc \in Gathering, NEW b \in Calls, worker'[1][b].at \in Working
        PROVE  at = "tools" /\ call'[b] = worker'[1][b].expected
    BY <1>c, <1>t, <1>w, <2>1, <2>3, Idle, Indices
       DEF SoleWork, Working, Fetching, Running
  <2>4. ASSUME pc \in Gathering, NEW q \in Tasks, worker'[1][q].at = "insert"
        PROVE  call'[worker'[1][q].target].at = "ready"
    <3>1. worker'[1][q] = worker[1][q] /\ TaskKnows(1, q)
      BY <1>t, <1>w, <2>4, Idle, Indices DEF IInv
    <3> QED
      BY <1>c, <2>4, <3>1, States DEF SoleWork, TaskKnows
  <2>5. ASSUME NEW q \in Tasks
        PROVE  /\ worker'[1][q].at = "insert" => worker[1][q].at = "insert"
               /\ worker'[1][q].at = "exec" => worker'[1][q] = worker[1][q]
    BY <1>t, <1>w, Idle, Indices
  <2> QED
    BY <2>2, <2>3, <2>4, <2>5, Indices DEF SoleWork
<1>11. FreshCheckpoint'
  BY Indices, Idle, <1>t, <1>w, <1>c
     DEF IInv, TypeOK, FreshCheckpoint, Alone, SoleTasks, SoleWork, abortVars,
         historyVars, Fetching, Running, Working, Gathering
<1> QED
  BY <1>1, <1>2, <1>3, <1>4, <1>5, <1>6, <1>7, <1>8, <1>9, <1>10, <1>11
     DEF IInv, Alone

LEMMA PublishToolIntentKeeps ==
  ASSUME IInv, NEW d \in Drives, NEW c \in Calls, PublishToolIntent(d, c)
  PROVE  IInv'
<1>1. CASE ~Expected(d, c)
  <2>1. ~(lost = 0 /\ d = drive /\ pc \in Gathering)
    BY <1>1, ExpectedAlone DEF PublishToolIntent, Working, Fetching
  <2>2. Fail(d, c, "error")
    BY <1>1 DEF PublishToolIntent
  <2> QED
    BY <2>1, <2>2, FailKeeps, Indices
<1>2. CASE Expected(d, c)
  BY <1>2, IntentKeeps DEF PublishToolIntent
<1> QED
  BY <1>1, <1>2

LEMMA OutcomeKeeps ==
  ASSUME IInv, NEW d \in Drives, NEW c \in Calls,
         worker[d][c].at = "stage", Expected(d, c),
         call' = [call EXCEPT ![c] = OutcomeReady],
         staged' = staged \union {c}, output' = [output EXCEPT ![c] = 0],
         Move(d, c, Placing),
         UNCHANGED <<at, mode, branch, args, drive, pc, abortVars, faulted,
                     attempts, lost, crashes>>
  PROVE  IInv'
<1>t. Placing \in TaskStates
  BY Indices, States, Idle DEF IInv, TypeOK, TaskStates
<1>w. /\ worker' \in [Drives -> [Tasks -> TaskStates]]
      /\ \A e \in Drives, q \in Tasks :
             worker'[e][q] = IF e = d /\ q = c THEN Placing ELSE worker[e][q]
  BY <1>t, Indices, Moved DEF IInv
<1>c. /\ call[c] \in Effects \union {Planned} /\ c \in Tasks /\ at = "tools"
      /\ call' \in [Calls -> ToolCallStates]
      /\ \A b \in Calls : call'[b] = IF b = c THEN OutcomeReady ELSE call[b]
  BY States, Indices
     DEF IInv, TypeOK, TaskKnows, Expected, Fetching, Running, Effects
<1>1. TypeOK'
  BY Indices, States, Idle, <1>t, <1>w, <1>c DEF IInv, TypeOK, abortVars
<1>2. OneResultEachInOrder'
  BY Indices, States, Idle, <1>t, <1>w, <1>c
     DEF IInv, TypeOK, OneResultEachInOrder, abortVars
<1>3. TemporaryDataOwned'
  BY Indices, States, Idle, <1>t, <1>w, <1>c
     DEF IInv, TypeOK, TemporaryDataOwned, abortVars
<1>4. (\A e \in Drives, q \in Tasks : TaskKnows(e, q))'
  <2>1. \A b \in Calls : call[b].at = "completed" => call'[b].at = "completed"
    BY <1>c, States
  <2>2. TaskKnows(d, c)'
    <3>1. worker'[d][c] = Placing /\ c # 0
      BY <1>w, Indices
    <3> QED
      BY Idle, <3>1 DEF TaskKnows, Fetching, Running
  <2>3. ASSUME NEW e \in Drives, NEW q \in Tasks, ~(e = d /\ q = c)
        PROVE  TaskKnows(e, q)'
    <3>1. worker'[e][q] = worker[e][q] /\ TaskKnows(e, q)
      BY <1>w, <2>3 DEF IInv
    <3>2. worker[e][q].target \in Calls =>
              \A b \in 1..(worker[e][q].target - 1) : b \in Calls
      BY ToolBatchAssumption DEF Calls
    <3> QED
      BY <2>1, <3>1, <3>2 DEF TaskKnows
  <2> QED
    BY <2>2, <2>3
<1>5. Admitted'
  <2>2. ASSUME NEW b \in Calls, b # c
        PROVE  call'[b] = call[b] /\ \A e \in Drives : worker'[e][b] = worker[e][b]
    BY <1>c, <1>w, <2>2, Indices
  <2>3. /\ call'[c] # Planned
        /\ \A e \in Drives : worker[e][c].at # "admit"
    BY <1>c, States, Indices DEF IInv, Admitted, Untouched, Running, Expected
  <2>4. \A e \in Drives : worker'[e][c].at = "admit" => worker[e][c].at = "admit"
    BY <1>w, Indices, Idle
  <2> QED
    BY <2>2, <2>3, <2>4 DEF IInv, Admitted, Untouched
<1>6. UnsafeOnce'
  <2>1. OutcomeReady # EffectPending("never")
    BY States
  <2> QED
    BY <1>c, <2>1 DEF IInv, UnsafeOnce
<1>7. Driven'
  BY Indices, States, Idle, <1>t, <1>w, <1>c
     DEF IInv, TypeOK, Driven, abortVars
<1>8. (lost = 0 => SoleDrive)'
  BY Indices, Idle, <1>t, <1>w, <1>c
     DEF IInv, Driven, Alone, SoleDrive, abortVars
<1>9. (lost = 0 => SoleTasks)'
  BY Indices, Idle, <1>t, <1>w, <1>c
     DEF IInv, Driven, Alone, SoleDrive, SoleTasks, abortVars
<1>10. (lost = 0 => SoleWork)'
  <2> SUFFICES ASSUME lost = 0, SoleTasks, SoleWork
               PROVE  SoleWork'
    BY DEF IInv, Alone
  <2>1. d = 1
    BY Idle, Indices DEF SoleTasks
  <2>2. UNCHANGED <<pc, at, attempts>>
    OBVIOUS
  <2>3. ASSUME pc \in Gathering, NEW b \in Calls, worker'[1][b].at \in Working
        PROVE  at = "tools" /\ call'[b] = worker'[1][b].expected
    BY <1>c, <1>t, <1>w, <2>1, <2>3, Idle, Indices
       DEF SoleWork, Working, Fetching, Running
  <2>4. ASSUME pc \in Gathering, NEW q \in Tasks, worker'[1][q].at = "insert"
        PROVE  call'[worker'[1][q].target].at = "ready"
    <3>1. worker'[1][q] = worker[1][q] /\ TaskKnows(1, q)
      BY <1>t, <1>w, <2>4, Idle, Indices DEF IInv
    <3> QED
      BY <1>c, <2>4, <3>1, States DEF SoleWork, TaskKnows
  <2>5. ASSUME NEW q \in Tasks
        PROVE  /\ worker'[1][q].at = "insert" => worker[1][q].at = "insert"
               /\ worker'[1][q].at = "exec" => worker'[1][q] = worker[1][q]
    BY <1>t, <1>w, Idle, Indices
  <2> QED
    BY <2>2, <2>3, <2>4, <2>5, Indices DEF SoleWork
<1>11. FreshCheckpoint'
  BY Indices, Idle, <1>t, <1>w, <1>c
     DEF IInv, TypeOK, FreshCheckpoint, Alone, SoleTasks, SoleWork, abortVars,
         Fetching, Running, Working, Gathering
<1> QED
  BY <1>1, <1>2, <1>3, <1>4, <1>5, <1>6, <1>7, <1>8, <1>9, <1>10, <1>11
     DEF IInv, Alone

LEMMA StageResultKeeps ==
  ASSUME IInv, NEW d \in Drives, NEW c \in Calls, StageResult(d, c)
  PROVE  IInv'
<1>1. CASE ~Expected(d, c)
  <2>1. ~(lost = 0 /\ d = drive /\ pc \in Gathering)
    BY <1>1, ExpectedAlone DEF StageResult, Working
  <2>2. Fail(d, c, "error")
    BY <1>1 DEF StageResult
  <2> QED
    BY <2>1, <2>2, FailKeeps, Indices
<1>2. CASE Expected(d, c)
  BY <1>2, OutcomeKeeps DEF StageResult
<1> QED
  BY <1>1, <1>2

LEMMA StartKeeps ==
  ASSUME IInv, NEW d \in Drives, NEW c \in Calls, NEW t \in TaskStates,
         t.expected = worker[d][c].expected, t.at \in {"exec", "after"},
         t.at = "exec" => t.run = attempts[c] + 1 /\ ~closed,
         \/ worker[d][c].at = "admit" /\ UNCHANGED output
         \/ /\ worker[d][c].at = "recover"
            /\ \A e \in Drives : worker[e][c].at # "admit"
            /\ at = "tools" /\ call[c].at = "pending" /\ call[c].replay = "safe"
            /\ output' = ClearedCheckpoint(c),
         Move(d, c, t),
         attempts' = IF t.at = "after" THEN attempts
                     ELSE [attempts EXCEPT ![c] = @ + 1],
         UNCHANGED <<at, mode, call, branch, args, staged, drive, pc,
                     abortVars, faulted, lost, crashes>>
  PROVE  IInv'
<1>t. t \in TaskStates
  BY Indices, States, Idle DEF IInv, TypeOK, TaskStates
<1>w. /\ worker' \in [Drives -> [Tasks -> TaskStates]]
      /\ \A e \in Drives, q \in Tasks :
             worker'[e][q] = IF e = d /\ q = c THEN t ELSE worker[e][q]
  BY <1>t, Indices, Moved DEF IInv
<1>c. /\ c \in Tasks /\ c # 0
      /\ \A b \in Calls \ {c} : attempts'[b] = attempts[b]
      /\ t.at = "after" => attempts' = attempts
      /\ t.at = "exec" => attempts'[c] = attempts[c] + 1
      /\ attempts' \in [Calls -> Nat]
  <2>1. t.at = "exec" => t.at # "after"
    OBVIOUS
  <2>2. CASE t.at = "after"
    BY <2>1, <2>2, Indices DEF IInv, TypeOK
  <2>3. CASE t.at # "after"
    BY <2>1, <2>3, Indices DEF IInv, TypeOK
  <2> QED
    BY <2>2, <2>3
<1>o. /\ output' \in [Calls -> Nat]
      /\ \A b \in Calls : output'[b] = output[b] \/ output'[b] = 0
      /\ worker[d][c].at = "recover" => output'[c] = 0
  <2>1. output \in [Calls -> Nat]
    BY DEF IInv, TypeOK
  <2>2. CASE output' = output /\ worker[d][c].at = "admit"
    BY <2>1, <2>2
  <2>3. CASE output' = ClearedCheckpoint(c)
    BY <2>1, <2>3 DEF ClearedCheckpoint
  <2> QED
    BY <2>2, <2>3
<1>p. /\ call[c].at = "pending" /\ call[c] # Planned
      /\ \A e \in Drives : worker'[e][c].at # "admit"
  <2>1. call[c].at = "pending" /\ \A e \in Drives \ {d} : worker[e][c].at # "admit"
    BY Indices DEF IInv, Admitted, Untouched, Running
  <2> QED
    BY <2>1, <1>w, <1>c, States DEF IInv, TypeOK
<1>1. TypeOK'
  <2>1. UNCHANGED <<marked, reason, closed, req, seals>>
    BY DEF abortVars
  <2>2. /\ UNCHANGED <<at, mode, call, branch, args, staged, drive, pc, faulted,
                      lost, crashes>>
    OBVIOUS
  <2> QED
    BY ONLY IInv, <2>1, <2>2, <1>w, <1>c, <1>o, ZenonT(60) DEF IInv, TypeOK
<1>2. OneResultEachInOrder'
  BY ResultsKept DEF IInv
<1>3. TemporaryDataOwned'
  BY <1>o DEF IInv, TemporaryDataOwned
<1>4. (\A e \in Drives, q \in Tasks : TaskKnows(e, q))'
  BY Indices, Idle, <1>t, <1>w, <1>c
     DEF IInv, TaskKnows, abortVars, Fetching, Running, ClearedCheckpoint
<1>5. Admitted'
  <2>1. ASSUME NEW b \in Calls, b # c
        PROVE  /\ attempts'[b] = attempts[b]
               /\ \A e \in Drives : worker'[e][b] = worker[e][b]
    BY <1>w, <1>c, <2>1, Indices
  <2> QED
    BY <1>p, <2>1 DEF IInv, Admitted, Untouched
<1>6. UnsafeOnce'
  <2>1. call[c] = EffectPending("never") => worker[d][c].at = "admit"
    BY States DEF EffectPending
  <2>2. worker[d][c].at = "admit" => attempts[c] = 0
    BY DEF IInv, Admitted
  <2>3. call[c] = EffectPending("never") => attempts'[c] <= 1
    BY <1>c, <2>1, <2>2
  <2> QED
    BY <1>c, <2>3 DEF IInv, UnsafeOnce
<1>7. Driven'
  BY Indices, States, Idle, <1>t, <1>w, <1>c
     DEF IInv, TypeOK, Driven, abortVars, ClearedCheckpoint
<1>8. (lost = 0 => SoleDrive)'
  BY Indices, Idle, <1>t, <1>w, <1>c
     DEF IInv, Driven, Alone, SoleDrive, abortVars, ClearedCheckpoint
<1>9. (lost = 0 => SoleTasks)'
  <2> SUFFICES ASSUME lost = 0, SoleTasks
               PROVE  SoleTasks'
    BY DEF IInv, Alone
  <2>1. d = 1
    BY <1>c, Idle DEF SoleTasks
  <2> QED
    BY <1>c, <1>w, <2>1, Idle, Indices DEF SoleTasks, abortVars
<1>10. (lost = 0 => SoleWork)'
  <2> SUFFICES ASSUME lost = 0, SoleTasks, SoleWork
               PROVE  SoleWork'
    BY DEF IInv, Alone
  <2>1. d = 1
    BY <1>c, Idle DEF SoleTasks
  <2>2. \A q \in Tasks : worker'[1][q] = IF q = c THEN t ELSE worker[1][q]
    BY <1>w, <2>1, Indices
  <2>3. worker[1][c].at \in Working
    BY <2>1 DEF Working, Running
  <2>4. ASSUME pc \in Gathering, NEW b \in Calls, worker'[1][b].at \in Working
        PROVE  at = "tools" /\ call[b] = worker'[1][b].expected
    BY <2>1, <2>2, <2>3, <2>4, Indices DEF SoleWork
  <2>5. ASSUME NEW q \in Tasks, worker'[1][q].at = "insert"
        PROVE  worker'[1][q] = worker[1][q]
    BY <2>2, <2>5
  <2>6. ASSUME NEW b \in Calls, worker'[1][b].at = "exec"
        PROVE  worker'[1][b].run = attempts'[b]
    BY <1>c, <2>2, <2>6, Indices DEF SoleWork
  <2> QED
    BY <2>4, <2>5, <2>6 DEF SoleWork
<1>11. FreshCheckpoint'
  <2> SUFFICES ASSUME lost = 0
               PROVE  \A b \in Calls : output'[b] \in {0, attempts'[b]}
    BY DEF FreshCheckpoint
  <2>1. \A b \in Calls : output[b] \in {0, attempts[b]}
    BY DEF IInv, FreshCheckpoint
  <2>2. worker[d][c].at = "admit" => output[c] = 0 /\ output' = output
    BY <2>1 DEF IInv, Admitted
  <2> QED
    BY <1>c, <1>o, <2>1, <2>2
<1> QED
  BY <1>1, <1>2, <1>3, <1>4, <1>5, <1>6, <1>7, <1>8, <1>9, <1>10, <1>11
     DEF IInv, Alone

(* There is a first call that is not completed, unless all of them are.     *)
LEMMA FirstIsFirst ==
  ASSUME TypeOK, OneResultEachInOrder, FirstUnfinished # 0
  PROVE  /\ FirstUnfinished \in Calls
         /\ \A b \in 1..(FirstUnfinished - 1) : call[b].at = "completed"
<1> DEFINE n == Len(branch) + 1
<1>1. Len(branch) \in Nat /\ {c \in Calls : call[c].at = "completed"} = 1..Len(branch)
  BY DEF TypeOK, OneResultEachInOrder
<1>2. PICK c \in Calls : call[c].at # "completed"
  BY DEF FirstUnfinished
<1>3. n \in Calls /\ call[n].at # "completed"
  BY <1>1, <1>2, ToolBatchAssumption DEF Calls
<1>4. \A b \in 1..(n - 1) : call[b].at = "completed"
  BY <1>1
<1> HIDE DEF n
<1> QED
  BY <1>2, <1>3, <1>4 DEF FirstUnfinished

LEMMA PlaceKeeps ==
  ASSUME IInv, NEW d \in Drives, NEW p \in Tasks, NEW t \in TaskStates,
         Move(d, p, t), worker[d][p].at = "place", LockFree(d),
         UNCHANGED <<storedVars, drive, pc, abortVars, faulted, historyVars>>,
         \/ t.at = "none"
         \/ /\ t.at = "insert" /\ t.target \in Calls
            /\ call[t.target].at = "ready"
            /\ \A b \in 1..(t.target - 1) : call[b].at = "completed"
  PROVE  IInv'
<1>t. t \in TaskStates
  BY Indices, States, Idle DEF IInv, TypeOK, TaskStates
<1>w. /\ worker' \in [Drives -> [Tasks -> TaskStates]]
      /\ \A e \in Drives, q \in Tasks :
             worker'[e][q] = IF e = d /\ q = p THEN t ELSE worker[e][q]
  BY <1>t, Indices, Moved DEF IInv
<1>1. TypeOK'
  BY Indices, States, Idle, <1>t, <1>w
     DEF IInv, TypeOK, storedVars, abortVars, historyVars, LockFree
<1>2. OneResultEachInOrder'
  BY StoredKept DEF IInv, historyVars, storedVars
<1>3. TemporaryDataOwned'
  BY StoredKept DEF IInv, historyVars, storedVars
<1>4. (\A e \in Drives, q \in Tasks : TaskKnows(e, q))'
  BY Indices, Idle, <1>t, <1>w
     DEF IInv, TaskKnows, storedVars, abortVars, historyVars, Fetching,
         Running, LockFree
<1>5. Admitted'
  BY Indices, Idle, States, AdmittedKept, <1>w
     DEF IInv, historyVars, storedVars
<1>6. UnsafeOnce'
  BY EffectsKept DEF IInv, historyVars, storedVars
<1>7. Driven'
  BY Indices, States, Idle, <1>t, <1>w
     DEF IInv, TypeOK, Driven, storedVars, abortVars, historyVars, LockFree
<1>8. (lost = 0 => SoleDrive)'
  BY Indices, Idle, <1>t, <1>w
     DEF IInv, Driven, Alone, SoleDrive, storedVars, abortVars, historyVars,
         LockFree
<1>9. (lost = 0 => SoleTasks)'
  BY Indices, Idle, <1>t, <1>w
     DEF IInv, Driven, Alone, SoleDrive, SoleTasks, storedVars, abortVars,
         historyVars, LockFree
<1>10. (lost = 0 => SoleWork)'
  <2> SUFFICES ASSUME lost = 0, SoleTasks, SoleWork
               PROVE  SoleWork'
    BY DEF IInv, Alone, historyVars
  <2>1. d = 1
    BY Idle DEF SoleTasks
  <2>2. \A q \in Tasks : worker'[1][q] = IF q = p THEN t ELSE worker[1][q]
    BY <1>w, <2>1, Indices
  <2>3. t.at \notin Working \union {"exec"}
    BY DEF Working, Fetching, Running
  <2>4. UNCHANGED <<pc, at, call, attempts>>
    BY DEF storedVars, historyVars
  <2>5. ASSUME pc \in Gathering, NEW b \in Calls, worker'[1][b].at \in Working
        PROVE  at = "tools" /\ call[b] = worker'[1][b].expected
    BY <2>2, <2>3, <2>5, Indices DEF SoleWork
  <2>6. \A q \in Tasks : worker[1][q].at # "insert"
    BY <2>1 DEF LockFree
  <2>7. ASSUME NEW q \in Tasks, worker'[1][q].at = "insert"
        PROVE  q = p /\ call[worker'[1][q].target].at = "ready"
    BY <2>2, <2>6, <2>7
  <2>8. ASSUME NEW b \in Calls, worker'[1][b].at = "exec"
        PROVE  worker'[1][b].run = attempts[b]
    BY <2>2, <2>3, <2>8, Indices DEF SoleWork
  <2> QED
    BY <2>4, <2>5, <2>7, <2>8 DEF SoleWork
<1>11. FreshCheckpoint'
  BY Indices, Idle, <1>t, <1>w
     DEF IInv, TypeOK, FreshCheckpoint, Alone, SoleTasks, SoleWork,
         storedVars, abortVars, historyVars, Fetching, Running, Working,
         Gathering, LockFree
<1> QED
  BY <1>1, <1>2, <1>3, <1>4, <1>5, <1>6, <1>7, <1>8, <1>9, <1>10, <1>11
     DEF IInv, Alone

LEMMA AdmissionKeeps ==
  ASSUME IInv, NEW d \in Drives, NEW c \in Calls,
         Admission(d, c), UNCHANGED <<at, mode, call, branch, args, staged>>,
         \/ worker[d][c].at = "admit" /\ UNCHANGED output
         \/ /\ worker[d][c].at = "recover"
            /\ \A e \in Drives : worker[e][c].at # "admit"
            /\ at = "tools" /\ call[c].at = "pending" /\ call[c].replay = "safe"
            /\ output' = ClearedCheckpoint(c)
  PROVE  IInv'
<1>1. worker[d][c] \in TaskStates /\ attempts[c] \in Nat
  BY Indices DEF IInv, TypeOK
<1>2. CASE closed
  <2> DEFINE t == [worker[d][c] EXCEPT !.at = "after"]
  <2>1. /\ t \in TaskStates /\ t.expected = worker[d][c].expected
        /\ t.at = "after"
    BY <1>1, Repointed
  <2>2. Move(d, c, t) /\ UNCHANGED <<attempts, drive, pc, abortVars, faulted, lost, crashes>>
    BY <1>2 DEF Admission
  <2> HIDE DEF t
  <2> QED
    BY <2>1, <2>2, StartKeeps
<1>3. CASE ~closed
  <2> DEFINE t == [worker[d][c] EXCEPT !.at = "exec", !.run = attempts[c] + 1]
  <2>1. /\ t \in TaskStates /\ t.expected = worker[d][c].expected
        /\ t.at = "exec" /\ t.run = attempts[c] + 1
    <3>1. attempts[c] + 1 \in Nat
      BY <1>1
    <3> QED
      BY <1>1, <3>1, Zenon DEF TaskStates
  <2>2. /\ Move(d, c, t) /\ attempts' = [attempts EXCEPT ![c] = @ + 1]
        /\ UNCHANGED <<drive, pc, abortVars, faulted, lost, crashes>>
    BY <1>3 DEF Admission
  <2> HIDE DEF t
  <2> QED
    BY <1>3, <2>1, <2>2, StartKeeps
<1> QED
  BY <1>2, <1>3

LEMMA AdmitEffectKeeps ==
  ASSUME IInv, NEW d \in Drives, NEW c \in Calls, AdmitEffect(d, c)
  PROVE  IInv'
<1>1. CASE faulted
  <2>1. lost # 0
    BY <1>1 DEF IInv, Alone, SoleDrive
  <2>2. Fail(d, c, "error")
    BY <1>1 DEF AdmitEffect
  <2> QED
    BY <2>1, <2>2, FailKeeps, Indices
<1>2. CASE ~faulted
  BY <1>2, AdmissionKeeps DEF AdmitEffect, storedVars
<1> QED
  BY <1>1, <1>2

LEMMA RecoverPendingCallKeeps ==
  ASSUME IInv, NEW d \in Drives, NEW c \in Calls, RecoverPendingCall(d, c)
  PROVE  IInv'
<1>1. PICK tool \in Replays \union {"absent"} :
          IF c \notin args \/ (Replayable(tool, c) /\ (~Owns(c) \/ faulted))
          THEN Fail(d, c, "error")
          ELSE IF Replayable(tool, c)
          THEN /\ output' = ClearedCheckpoint(c)
               /\ Admission(d, c)
               /\ UNCHANGED <<at, mode, call, branch, args, staged>>
          ELSE /\ Move(d, c, [worker[d][c] EXCEPT !.at = "stage"])
               /\ UNCHANGED <<storedVars, drive, pc, abortVars, faulted,
                              historyVars>>
  BY DEF RecoverPendingCall
<1>2. /\ worker[d][c].at = "recover" /\ worker[d][c] \in TaskStates
      /\ \A e \in Drives : worker[e][c].at # "admit"
      /\ c \in Tasks
  BY Indices DEF RecoverPendingCall, IInv, TypeOK
<1>3. CASE c \notin args \/ (Replayable(tool, c) /\ (~Owns(c) \/ faulted))
  <2>1. ASSUME lost = 0, d = drive, pc \in Gathering
        PROVE  FALSE
    <3>1. Expected(d, c) /\ ~faulted
      BY <1>2, <2>1, ExpectedAlone DEF Working
    <3>2. call[c].at = "pending" /\ at = "tools"
      BY <1>2, <3>1, States DEF Expected, IInv, TaskKnows
    <3>3. c \in args
      BY <3>2 DEF IInv, TemporaryDataOwned
    <3> QED
      BY <1>3, <3>1, <3>2, <3>3 DEF Owns
  <2> QED
    BY <1>1, <1>3, <2>1, FailKeeps, Indices
<1>4. CASE ~(c \notin args \/ (Replayable(tool, c) /\ (~Owns(c) \/ faulted)))
           /\ Replayable(tool, c)
  BY <1>1, <1>2, <1>4, AdmissionKeeps DEF Owns, Replayable
<1>5. CASE ~(c \notin args \/ (Replayable(tool, c) /\ (~Owns(c) \/ faulted)))
           /\ ~Replayable(tool, c)
  BY <1>1, <1>2, <1>5, Repointed, GoesOn DEF Working, Fetching, Running
<1> QED
  BY <1>3, <1>4, <1>5

LEMMA FindReadyKeeps ==
  ASSUME IInv, NEW d \in Drives, NEW p \in Tasks, FindReady(d, p)
  PROVE  IInv'
<1>1. PICK t : /\ Move(d, p, t)
               /\ \/ t = NoTask
                  \/ /\ t = [NoTask EXCEPT !.at = "insert", !.target = FirstUnfinished]
                     /\ at = "tools" /\ FirstUnfinished # 0
                     /\ call[FirstUnfinished].at = "ready"
  BY DEF FindReady
<1>2. /\ worker[d][p].at = "place" /\ LockFree(d)
      /\ UNCHANGED <<storedVars, drive, pc, abortVars, faulted, historyVars>>
  BY DEF FindReady
<1>3. FirstUnfinished # 0 =>
          /\ FirstUnfinished \in Calls
          /\ \A b \in 1..(FirstUnfinished - 1) : call[b].at = "completed"
  BY FirstIsFirst DEF IInv
<1>4. t \in TaskStates
  <2>1. CASE t = NoTask
    BY <2>1, Idle
  <2>2. CASE t # NoTask
    <3>1. t = [at |-> "insert", expected |-> Planned, run |-> 0,
               target |-> FirstUnfinished]
      BY <1>1, <2>2 DEF NoTask
    <3>2. FirstUnfinished \in Tasks /\ 0 \in Nat
      BY <1>1, <1>3, <2>2, Indices
    <3> QED
      BY <3>1, <3>2, States DEF TaskStates
  <2> QED
    BY <2>1, <2>2
<1>5. \/ t.at = "none"
      \/ /\ t.at = "insert" /\ t.target = FirstUnfinished
         /\ FirstUnfinished # 0 /\ call[FirstUnfinished].at = "ready"
  BY <1>1, Idle DEF NoTask
<1> QED
  BY <1>1, <1>2, <1>3, <1>4, <1>5, PlaceKeeps

LEMMA PlacedKeeps ==
  ASSUME IInv, NEW d \in Drives, NEW p \in Tasks, NEW c \in Calls,
         worker[d][p].at = "insert", worker[d][p].target = c,
         at = "tools", call[c].at = "ready", c \in staged,
         call' = [call EXCEPT ![c] = Completed],
         NEW over \in BOOLEAN,
         over <=> \A b \in Calls : call'[b].at = "completed",
         branch' = Append(branch, c),
         staged' = staged \ {c},
         args' = IF over THEN {} ELSE args,
         at' = IF over THEN "checkpoint" ELSE at,
         Move(d, p, Placing),
         UNCHANGED <<mode, output, drive, pc, abortVars, faulted, historyVars>>
  PROVE  IInv'
<1>w. /\ worker' \in [Drives -> [Tasks -> TaskStates]]
      /\ \A e \in Drives, q \in Tasks :
             worker'[e][q] = IF e = d /\ q = p THEN Placing ELSE worker[e][q]
  BY Indices, Idle, Moved DEF IInv
<1>c. /\ call' \in [Calls -> ToolCallStates]
      /\ \A b \in Calls : call'[b] = IF b = c THEN Completed ELSE call[b]
      /\ Completed.at = "completed"
  BY States DEF IInv, TypeOK
<1>n. /\ Len(branch) = c - 1 /\ branch \in Seq(Calls)
      /\ {b \in Calls : call[b].at = "completed"} = 1..(c - 1)
  <2>1. /\ Len(branch) \in Nat /\ c \in 1..NumCalls
        /\ {b \in Calls : call[b].at = "completed"} = 1..Len(branch)
    BY DEF IInv, TypeOK, OneResultEachInOrder, Calls
  <2>2. \A b \in 1..(c - 1) : b \in Calls /\ call[b].at = "completed"
    <3>1. TaskKnows(d, p)
      BY DEF IInv
    <3> QED
      BY <2>1, <3>1, ToolBatchAssumption DEF TaskKnows, Calls
  <2>3. c \notin 1..Len(branch)
    BY <2>1
  <2>4. c - 1 = 0 \/ c - 1 \in 1..Len(branch)
    BY <2>1, <2>2
  <2> QED
    BY <2>1, <2>3, <2>4 DEF IInv, TypeOK
<1>o. over => \A b \in Calls \ {c} : call[b].at = "completed"
  BY <1>c
<1>1. TypeOK'
  <2>1. branch' \in Seq(Calls)
    BY <1>n
  <2>2. /\ staged' \subseteq Calls /\ args' \subseteq Calls
        /\ at' \in {"tools", "checkpoint", "none"}
    BY DEF IInv, TypeOK
  <2>3. UNCHANGED <<mode, output, drive, pc, marked, reason, closed, req, seals,
                    faulted, attempts, lost, crashes>>
    BY DEF abortVars, historyVars
  <2> QED
    BY ONLY IInv, <1>w, <1>c, <2>1, <2>2, <2>3, ZenonT(60) DEF IInv, TypeOK
<1>2. OneResultEachInOrder'
  <2>1. Len(branch') = c /\ c \in 1..NumCalls
    BY <1>n DEF Calls
  <2>2. \A i \in 1..c : branch'[i] = i
    <3>1. \A i \in 1..(c - 1) : branch[i] = i
      BY <1>n DEF IInv, OneResultEachInOrder
    <3> QED
      BY <1>n, <2>1, <3>1
  <2>3. branch' = [i \in 1..Len(branch') |-> i]
    <3>1. branch' \in Seq(Calls)
      BY <1>n
    <3>2. branch' = [i \in 1..Len(branch') |-> branch'[i]]
      BY <3>1, LenProperties
    <3> QED
      BY <2>1, <2>2, <3>2
  <2>4. {b \in Calls : call'[b].at = "completed"} = 1..c
    BY <1>c, <1>n, <2>1 DEF Calls
  <2>5. over => c = NumCalls
    BY <2>1, <2>4, ToolBatchAssumption DEF Calls
  <2> QED
    BY <2>1, <2>3, <2>4, <2>5 DEF OneResultEachInOrder
<1>3. TemporaryDataOwned'
  <2>1. /\ staged = {b \in Calls : call[b].at = "ready"}
        /\ \A b \in Calls : output[b] # 0 => call[b].at = "pending"
        /\ \A b \in Calls : call[b].at = "pending" => b \in args
        /\ args \subseteq {b \in Calls : call[b].at # "planned"}
    BY DEF IInv, TemporaryDataOwned
  <2>2. CASE over
    BY <1>c, <1>o, <2>1, <2>2 DEF TemporaryDataOwned
  <2>3. CASE ~over
    BY <1>c, <2>1, <2>3 DEF TemporaryDataOwned
  <2> QED
    BY <2>2, <2>3
<1>4. (\A e \in Drives, q \in Tasks : TaskKnows(e, q))'
  <2>1. \A b \in Calls : call[b].at = "completed" => call'[b].at = "completed"
    BY <1>c
  <2>2. TaskKnows(d, p)'
    <3>1. worker'[d][p] = Placing
      BY <1>w
    <3> QED
      BY Idle, <3>1 DEF TaskKnows, Fetching, Running
  <2>3. ASSUME NEW e \in Drives, NEW q \in Tasks, ~(e = d /\ q = p)
        PROVE  TaskKnows(e, q)'
    <3>1. worker'[e][q] = worker[e][q] /\ TaskKnows(e, q)
      BY <1>w, <2>3 DEF IInv
    <3>2. worker[e][q].target \in Calls =>
              \A b \in 1..(worker[e][q].target - 1) : b \in Calls
      BY ToolBatchAssumption DEF Calls
    <3> QED
      BY <2>1, <3>1, <3>2 DEF TaskKnows
  <2> QED
    BY <2>2, <2>3
<1>5. Admitted'
  <2>1. ASSUME NEW b \in Calls, NEW e \in Drives
        PROVE  /\ Untouched(e, b) => Untouched(e, b)'
               /\ worker'[e][b].at \in {"admit", "recover"} =>
                      worker'[e][b] = worker[e][b]
    <3>1. worker'[e][b] = worker[e][b] \/ worker'[e][b] = Placing
      BY <1>w, Indices
    <3> QED
      BY <3>1, Idle DEF Untouched, Running
  <2>2. call'[c] # Planned /\ \A e \in Drives : worker'[e][c].at # "admit"
    BY <1>c, <2>1, States DEF IInv, Admitted
  <2>3. \A b \in Calls \ {c} : call'[b] = call[b]
    BY <1>c
  <2>4. UNCHANGED attempts
    BY DEF historyVars
  <2> QED
    BY <2>1, <2>2, <2>3, <2>4 DEF IInv, Admitted
<1>6. UnsafeOnce'
  <2>1. Completed # EffectPending("never")
    BY States
  <2> QED
    BY <1>c, <2>1 DEF IInv, UnsafeOnce, historyVars
<1>7. Driven'
  BY DEF IInv, Driven
<1>8. (lost = 0 => SoleDrive)'
  BY DEF IInv, Alone, SoleDrive, abortVars, historyVars
<1>9. (lost = 0 => SoleTasks)'
  <2> SUFFICES ASSUME lost = 0, SoleTasks
               PROVE  SoleTasks'
    BY DEF IInv, Alone, historyVars
  <2>1. d = 1
    BY Idle DEF SoleTasks
  <2> QED
    BY <1>w, <2>1, Idle, Indices DEF SoleTasks, abortVars
<1>10. (lost = 0 => SoleWork)'
  <2> SUFFICES ASSUME lost = 0, SoleTasks, SoleWork
               PROVE  SoleWork'
    BY DEF IInv, Alone, historyVars
  <2>1. d = 1
    BY Idle DEF SoleTasks
  <2>2. \A q \in Tasks : worker'[1][q] = IF q = p THEN Placing ELSE worker[1][q]
    BY <1>w, <2>1, Indices
  <2>3. ASSUME pc \in Gathering, NEW b \in Calls, worker'[1][b].at \in Working
        PROVE  at' = "tools" /\ call'[b] = worker'[1][b].expected
    <3>1. worker'[1][b] = worker[1][b]
      BY <2>2, <2>3, Idle, Indices DEF Working, Fetching, Running
    <3>2. call[b] = worker[1][b].expected /\ call[b] \in Effects \union {Planned}
      BY <2>3, <3>1, Indices
         DEF SoleWork, IInv, TaskKnows, Working, Fetching, Running
    <3>3. b # c /\ call[b].at # "completed"
      BY <3>2, States
    <3> QED
      BY <1>c, <1>o, <3>1, <3>2, <3>3
  <2>4. \A q \in Tasks : worker'[1][q].at # "insert"
    BY <2>1, <2>2, Idle DEF SoleWork
  <2>5. ASSUME NEW b \in Calls, worker'[1][b].at = "exec"
        PROVE  worker'[1][b].run = attempts[b]
    BY <2>2, <2>5, Idle, Indices DEF SoleWork
  <2>6. UNCHANGED <<pc, attempts>>
    BY DEF historyVars
  <2> QED
    BY <2>3, <2>4, <2>5, <2>6 DEF SoleWork
<1>11. FreshCheckpoint'
  BY DEF IInv, FreshCheckpoint, historyVars
<1> QED
  BY <1>1, <1>2, <1>3, <1>4, <1>5, <1>6, <1>7, <1>8, <1>9, <1>10, <1>11
     DEF IInv, Alone

LEMMA MaterializeOutcomeKeeps ==
  ASSUME IInv, NEW d \in Drives, NEW p \in Tasks, MaterializeOutcome(d, p)
  PROVE  IInv'
<1> DEFINE c == worker[d][p].target
           over == \A b \in Calls : [call EXCEPT ![c] = Completed][b].at = "completed"
<1>1. c \in Calls /\ worker[d][p].at = "insert"
  BY DEF MaterializeOutcome, IInv, TaskKnows
<1>2. CASE at # "tools" \/ call[c].at # "ready" \/ c \notin staged
  <2>1. ASSUME lost = 0, d = drive, pc \in Gathering
        PROVE  FALSE
    <3>1. d = 1
      BY <2>1, Indices DEF IInv, Alone, SoleDrive
    <3>2. call[c].at = "ready"
      BY <1>1, <2>1, <3>1 DEF IInv, Alone, SoleWork
    <3>3. at # "none"
      BY <2>1 DEF IInv, Driven, Gathering
    <3>4. at # "checkpoint"
      BY <1>1, <3>2 DEF IInv, OneResultEachInOrder, Calls
    <3>5. at = "tools"
      BY <3>3, <3>4 DEF IInv, TypeOK
    <3>6. c \in staged
      BY <1>1, <3>2, <3>5 DEF IInv, TemporaryDataOwned
    <3> QED
      BY <1>2, <3>2, <3>5, <3>6
  <2>2. Fail(d, p, "error")
    BY <1>2 DEF MaterializeOutcome
  <2> QED
    BY <2>1, <2>2, FailKeeps
<1>3. CASE ~(at # "tools" \/ call[c].at # "ready" \/ c \notin staged)
  <2>1. /\ call' = [call EXCEPT ![c] = Completed]
        /\ branch' = Append(branch, c)
        /\ staged' = staged \ {c}
        /\ args' = IF over THEN {} ELSE args
        /\ at' = IF over THEN "checkpoint" ELSE at
        /\ Move(d, p, Placing)
        /\ UNCHANGED <<mode, output, drive, pc, abortVars, faulted, historyVars>>
    BY <1>3 DEF MaterializeOutcome
  <2>2. over <=> \A b \in Calls : call'[b].at = "completed"
    BY <2>1
  <2>3. over \in BOOLEAN
    OBVIOUS
  <2> HIDE DEF over, c
  <2>4. c = worker[d][p].target
    BY DEF c
  <2> QED
    BY <1>1, <1>3, <2>1, <2>2, <2>3, <2>4, PlacedKeeps
<1> QED
  BY <1>2, <1>3

-----------------------------------------------------------------------------
(* The theorems                                                            *)

LEMMA InitInvariant ==
  ASSUME Init
  PROVE  IInv
<1>w. \A d \in Drives, p \in Tasks : worker[d][p] = NoTask
  BY DEF Init, NoTasks
<1>c. \A c \in Calls : call[c] = Planned /\ attempts[c] = 0 /\ output[c] = 0
  BY DEF Init
<1>1. TypeOK
  <2>1. worker \in [Drives -> [Tasks -> TaskStates]]
    BY Idle DEF Init, NoTasks
  <2>2. call \in [Calls -> ToolCallStates] /\ branch \in Seq(Calls)
    BY States DEF Init
  <2>3. /\ drive \in 0..(MaxMishaps + 1) /\ lost \in 0..MaxMishaps
        /\ crashes \in 0..MaxMishaps
    BY ToolBatchAssumption DEF Init
  <2> QED
    BY <2>1, <2>2, <2>3 DEF Init, TypeOK
<1>2. OneResultEachInOrder
  BY <1>c, States, ToolBatchAssumption DEF Init, OneResultEachInOrder, Calls
<1>3. TemporaryDataOwned
  BY <1>c, States DEF Init, TemporaryDataOwned
<1>4. \A d \in Drives, p \in Tasks : TaskKnows(d, p)
  BY <1>w, Idle DEF TaskKnows, Fetching, Running
<1>5. Admitted
  BY <1>w, <1>c, Idle, Indices DEF Admitted, Untouched, Running
<1>6. UnsafeOnce
  BY <1>c DEF UnsafeOnce
<1>7. Driven
  BY DEF Init, Driven
<1>8. Alone
  BY <1>w, Idle, Indices
     DEF Init, Alone, SoleDrive, SoleTasks, SoleWork, Gathering, Working,
         Fetching, Running
<1>9. FreshCheckpoint
  BY <1>c DEF FreshCheckpoint
<1> QED
  BY <1>1, <1>2, <1>3, <1>4, <1>5, <1>6, <1>7, <1>8, <1>9 DEF IInv

LEMMA StepKeeps ==
  ASSUME IInv, [Next]_vars
  PROVE  IInv'
<1>1. CASE UNCHANGED vars
  BY <1>1, StutterKeeps
<1>2. CASE DriveStep
  BY <1>2, ResumeKeeps, CheckAbortKeeps, EnterBatchKeeps, StartCallsKeeps,
     CallsDoneKeeps, LeaveBatchKeeps, ReconcileAbortKeeps DEF DriveStep
<1>3. ASSUME NEW d \in Drives, NEW c \in Calls, CallStep(d, c)
      PROVE  IInv'
  BY <1>3, BeforeToolKeeps, PublishToolIntentKeeps, AdmitEffectKeeps,
     ToolReturnsKeeps, AfterToolKeeps, StageResultKeeps,
     RecoverPendingCallKeeps DEF CallStep
<1>4. ASSUME NEW d \in Drives, NEW c \in Calls, ToolStep(d, c)
      PROVE  IInv'
  BY <1>4, WriteProgressKeeps, RefuseMemoKeeps, ToolCancelledKeeps DEF ToolStep
<1>5. ASSUME NEW d \in Drives, NEW p \in Tasks, PlaceStep(d, p)
      PROVE  IInv'
  BY <1>5, FindReadyKeeps, MaterializeOutcomeKeeps DEF PlaceStep
<1>6. CASE RequestAbort \/ AbortStep
  BY <1>6, RequestAbortKeeps, MarkAbortKeeps, SignalAbortKeeps DEF AbortStep
<1>7. CASE Crash
  <2>1. Stop /\ crashes' \in 0..MaxMishaps
    BY <1>7, ToolBatchAssumption DEF Crash, IInv, TypeOK
  <2> QED
    BY <2>1, StopKeeps
<1>8. CASE Reattach
  <2>1. Stop /\ crashes' \in 0..MaxMishaps
    BY <1>8 DEF Reattach, IInv, TypeOK
  <2> QED
    BY <2>1, StopKeeps
<1> QED
  BY <1>1, <1>2, <1>3, <1>4, <1>5, <1>6, <1>7, <1>8 DEF Next

(* Everything the Session, the tasks and the drive know of one another     *)
(* stays consistent through aborts, crashes and lost drives.               *)
THEOREM ToolInvariant == Spec => []IInv
<1>1. Init => IInv
  BY InitInvariant
<1>2. IInv /\ [Next]_vars => IInv'
  BY StepKeeps
<1> QED
  BY <1>1, <1>2, PTL DEF Spec

(* The branch holds one result of each completed call, in source order,    *)
(* whatever the order in which the tools of run_tools end.                 *)
THEOREM ResultsStayInOrder == Spec => []OneResultEachInOrder
<1>1. IInv => OneResultEachInOrder
  BY DEF IInv
<1> QED
  BY <1>1, ToolInvariant, PTL

(* An unsafe effect is started once (_recover_pending_call), what          *)
(* _stage_result and ToolProgress.write leave is owned by the call at the  *)
(* point that reads it, and only the tasks of a lost drive can make a      *)
(* write of the batch fault the harness.                                   *)
THEOREM EffectsStayOwned == Spec => []EffectsOwned
<1>1. IInv => EffectsOwned
  <2> SUFFICES ASSUME IInv
               PROVE  EffectsOwned
    OBVIOUS
  <2>1. faulted => lost # 0
    BY DEF IInv, Alone, SoleDrive
  <2>2. lost \in Nat
    BY ToolBatchAssumption DEF IInv, TypeOK
  <2> QED
    BY <2>1, <2>2 DEF IInv, EffectsOwned, FaultNeedsLostDrive
<1> QED
  BY <1>1, ToolInvariant, PTL

(* A tool is started only by a task whose call is pending, and, without a  *)
(* lost drive, only while the batch is not reconciled.                     *)
LEMMA StartsPending ==
  ASSUME IInv, [Next]_vars, NEW c \in Calls, attempts'[c] # attempts[c]
  PROVE  call[c].at = "pending" /\ (lost = 0 => at = "tools")
<1>1. PICK d \in Drives, b \in Calls : AdmitEffect(d, b) \/ RecoverPendingCall(d, b)
  <2>1. DriveStep \/ UNCHANGED vars => attempts' = attempts
    BY DEF DriveStep, Resume, CheckAbort, EnterBatch, StartCalls, CallsDone,
           LeaveBatch, ReconcileAbort, vars, historyVars
  <2>2. RequestAbort \/ AbortStep \/ Crash \/ Reattach => attempts' = attempts
    BY DEF AbortStep, RequestAbort, MarkAbort, SignalAbort, Crash, Reattach,
           Stop, historyVars
  <2>3. ASSUME NEW e \in Drives, NEW p \in Tasks, NEW why, Fail(e, p, why)
        PROVE  attempts' = attempts
    BY <2>3 DEF Fail
  <2>4. ASSUME NEW e \in Drives, NEW p \in Tasks, PlaceStep(e, p)
        PROVE  attempts' = attempts
    BY <2>3, <2>4 DEF PlaceStep, FindReady, MaterializeOutcome, historyVars
  <2>5. ASSUME NEW e \in Drives, NEW p \in Calls, ToolStep(e, p)
        PROVE  attempts' = attempts
    BY <2>3, <2>5, Indices
       DEF ToolStep, WriteProgress, RefuseMemo, ToolCancelled, historyVars
  <2>6. ASSUME NEW e \in Drives, NEW p \in Calls, CallStep(e, p),
               ~AdmitEffect(e, p), ~RecoverPendingCall(e, p)
        PROVE  attempts' = attempts
    <3>1. p \in Tasks
      BY Indices
    <3> QED
      BY <2>3, <2>6, <3>1
         DEF CallStep, BeforeTool, PublishToolIntent, ToolReturns, AfterTool,
             StageResult, RaiseIfCancelled, historyVars
  <2> QED
    BY <2>1, <2>2, <2>4, <2>5, <2>6 DEF Next
<1>2. b \in Tasks /\ attempts \in [Calls -> Nat]
  BY Indices DEF IInv, TypeOK
<1>3. attempts' # attempts
  OBVIOUS
<1>4. b = c /\ ~closed
  BY <1>1, <1>2
     DEF AdmitEffect, RecoverPendingCall, Admission, Fail, historyVars
<1>5. call[c].at = "pending" /\ (at = "tools" \/ worker[d][c].at = "admit")
  <2>1. CASE AdmitEffect(d, b)
    BY <1>4, <2>1 DEF AdmitEffect, IInv, Admitted
  <2>2. CASE RecoverPendingCall(d, b)
    BY <1>3, <1>4, <2>2 DEF RecoverPendingCall, Owns, Fail, historyVars
  <2> QED
    BY <1>1, <2>1, <2>2
<1>6. ASSUME lost = 0, at # "tools"
      PROVE  FALSE
  <2>1. worker[d][c].at = "admit" /\ d = 1
    BY <1>4, <1>5, <1>2, <1>6, Idle DEF IInv, Alone, SoleTasks
  <2>2. pc \notin Gathering
    BY <1>6, <2>1 DEF IInv, Alone, SoleWork, Working, Running
  <2>3. reason[1] = "abort"
    BY <1>2, <1>4, <1>6, <2>1, <2>2, Idle
       DEF IInv, TypeOK, Alone, SoleTasks, Gathering
  <2> QED
    BY <1>4, <1>6, <2>3, Indices DEF IInv, Alone, SoleDrive
<1> QED
  BY <1>5, <1>6

(* Once its outcome is staged no drive and no task left behind starts a    *)
(* call's tool, and nothing is started after the abort was reconciled.     *)
THEOREM SettledStaysNotRerun == Spec => SettledNotRerun
<1>1. IInv /\ [Next]_vars =>
        [\A c \in Calls :
            \/ call[c].at \in {"ready", "completed"}
            \/ at # "tools" /\ lost = 0
            => attempts'[c] = attempts[c]]_vars
  BY StartsPending
<1> QED
  BY <1>1, ToolInvariant, PTL DEF Spec, SettledNotRerun

=============================================================================

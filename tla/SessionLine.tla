---------------------------- MODULE SessionLine ----------------------------
(***************************************************************************)
(* The Session line: mutations of one open Session, serialized by its      *)
(* mutation lock, behind the facade that counts admissions and drains them *)
(* when it is closed.  Callers may be cancelled wherever they wait.        *)
(*                                                                         *)
(* A mutation reads the stored value when it is granted the line and       *)
(* writes that value plus one; what it reads and writes otherwise is its   *)
(* caller's.  A commit may take any time and may fail: Storage is a        *)
(* protocol, and the hosts bring their own.                                *)
(***************************************************************************)
EXTENDS Integers, FiniteSets, Sequences, SequencesExt

CONSTANTS
    Mutations,  \* calls of mutate and begin_mutation, each made once
    Repo        \* the close of the session by a MemorySessionRepo

ASSUME SessionLineAssumption ==
    /\ IsFiniteSet(Mutations)
    /\ Repo \notin Mutations

VARIABLES
    \* the facade
    state,      \* SessionFacade._state
    active,     \* SessionFacade._active
    \* the session
    holder,     \* who has _mutation_lock, <<>> or <<m>>
    waiters,    \* who waits for it, in order
    retired,    \* StorageBackedSession._closed, and the storage with it
    \* the mutations
    via,        \* which method the caller used
    pc,         \* where the caller's task is
    seen,       \* the value it read
    commit,     \* its storage commit
    end,        \* its end task
    \* the storage
    stored,     \* the value
    \* history
    applied,    \* commits that succeeded
    abandoned   \* mutations whose caller left before they ended

facadeVars == <<state, active>>
lineVars == <<holder, waiters, retired>>
historyVars == <<applied, abandoned>>
vars == <<facadeVars, lineVars, via, pc, seen, commit, end, stored,
          historyVars>>

TypeOK ==
    /\ state \in {"open", "closing", "closed"}
    /\ active \in 0..Cardinality(Mutations)
    /\ holder \in {<<>>} \union {<<m>> : m \in Mutations}
    /\ waiters \in Seq(Mutations \union {Repo})
    /\ retired \in BOOLEAN
    /\ via \in [Mutations -> {"none", "mutate", "begin"}]
    /\ pc \in [Mutations -> {"new", "waiting", "running", "committing",
                             "ending", "gone"}]
    /\ seen \in [Mutations -> Nat]
    /\ commit \in [Mutations -> {"none", "inFlight", "settled"}]
    /\ end \in [Mutations -> {"none", "pending", "done"}]
    /\ stored \in Nat
    /\ applied \in Nat
    /\ abandoned \subseteq Mutations

Init ==
    /\ state = "open"
    /\ active = 0
    /\ holder = <<>>
    /\ waiters = <<>>
    /\ retired = FALSE
    /\ via = [m \in Mutations |-> "none"]
    /\ pc = [m \in Mutations |-> "new"]
    /\ seen = [m \in Mutations |-> 0]
    /\ commit = [m \in Mutations |-> "none"]
    /\ end = [m \in Mutations |-> "none"]
    /\ stored = 0
    /\ applied = 0
    /\ abandoned = {}

-----------------------------------------------------------------------------
(* Admission and the line                                                  *)

At(m, place) == pc' = [pc EXCEPT ![m] = place]

(* Mutant: what fails before it has the line keeps its admission.          *)
MutAdmissionKept(m) ==
    active' = IF pc[m] = "waiting" THEN active ELSE active - 1

(* SessionFacade._finish_admission                                         *)
FinishAdmission(m) == active' = active - 1

(* SessionFacade.begin_mutation and mutate, up to the wait for the line.   *)
Begin(m, method) ==
    /\ state = "open"
    /\ pc[m] = "new"
    /\ ~retired
    /\ active' = active + 1
    /\ via' = [via EXCEPT ![m] = method]
    /\ At(m, "waiting")
    /\ waiters' = Append(waiters, m)
    /\ UNCHANGED <<state, holder, retired, seen, commit, end, stored,
                   historyVars>>

(* asyncio.Lock gives itself to the one that waited longest.               *)
TakeLine(w) ==
    /\ holder = <<>>
    /\ waiters # <<>>
    /\ w = Head(waiters)
    /\ waiters' = Tail(waiters)

(* begin_mutation has the line and the callback starts: it reads what it is *)
(* going to build on, as append_to_branch reads the tip.                   *)
Grant(m) ==
    /\ TakeLine(m)
    /\ ~retired
    /\ holder' = <<m>>
    /\ At(m, "running")
    /\ seen' = [seen EXCEPT ![m] = stored]
    /\ UNCHANGED <<facadeVars, retired, via, commit, end, stored, historyVars>>

(* begin_mutation has the line of a session that was closed meanwhile.     *)
Refuse(m) ==
    /\ TakeLine(m)
    /\ retired
    /\ At(m, "gone")
    /\ FinishAdmission(m)
    /\ UNCHANGED <<state, holder, retired, via, seen, commit, end, stored,
                   historyVars>>

(* StorageBackedSession.close joins the line; MemorySessionRepo.close      *)
(* calls it whether or not the facade was closed.                          *)
RepoClose ==
    /\ ~retired
    /\ \A i \in DOMAIN waiters : waiters[i] # Repo
    /\ waiters' = Append(waiters, Repo)
    /\ UNCHANGED <<facadeVars, holder, retired, via, pc, seen, commit, end,
                   stored, historyVars>>

Retire ==
    /\ TakeLine(Repo)
    /\ retired' = TRUE
    /\ UNCHANGED <<facadeVars, holder, via, pc, seen, commit, end, stored,
                   historyVars>>

-----------------------------------------------------------------------------
(* A mutation                                                              *)

(* _StorageBackedSessionMutation.commit, once per mutation: the commit is  *)
(* a task of its own that its caller awaits behind a shield.               *)
Commit(m) ==
    /\ pc[m] = "running"
    /\ commit[m] = "none"
    /\ commit' = [commit EXCEPT ![m] = "inFlight"]
    /\ At(m, "committing")
    /\ UNCHANGED <<facadeVars, lineVars, via, seen, end, stored, historyVars>>

(* Storage.commit applies all of it or fails without a trace.              *)
StorageSettles(m, succeeds) ==
    /\ commit[m] = "inFlight"
    /\ commit' = [commit EXCEPT ![m] = "settled"]
    /\ IF succeeds
       THEN stored' = seen[m] + 1 /\ applied' = applied + 1
       ELSE UNCHANGED <<stored, applied>>
    /\ UNCHANGED <<facadeVars, lineVars, via, pc, seen, end, abandoned>>

(* mutate's admission lasts as long as the call, that of begin_mutation as *)
(* long as the mutation it returned.                                       *)
LastsTheCall(m) == via[m] = "mutate"

(* The callback is over: with its commit settled, without one, or because  *)
(* its task was cancelled; mutator.end starts its task.                    *)
End(m) ==
    /\ end' = [end EXCEPT ![m] = "pending"]
    /\ At(m, "ending")

Finish(m) ==
    /\ \/ pc[m] = "running"
       \/ pc[m] = "committing" /\ commit[m] = "settled"
    /\ End(m)
    /\ UNCHANGED <<facadeVars, lineVars, via, seen, commit, stored,
                   historyVars>>

(* _settle_and_release waits for the commit, whoever still does.           *)
Settled(m) == commit[m] # "inFlight"

(* The end task gives the line back; that of begin_mutation's mutation     *)
(* also ends the admission.                                                *)
Release(m) ==
    /\ end[m] = "pending"
    /\ Settled(m)
    /\ end' = [end EXCEPT ![m] = "done"]
    /\ holder' = <<>>
    /\ IF via[m] = "begin" THEN FinishAdmission(m) ELSE UNCHANGED active
    /\ UNCHANGED <<state, waiters, retired, via, pc, seen, commit, stored,
                   historyVars>>

(* The caller's await of end returns; mutate's admission ends.             *)
Return(m) ==
    /\ pc[m] = "ending"
    /\ end[m] = "done"
    /\ At(m, "gone")
    /\ IF LastsTheCall(m) THEN FinishAdmission(m) ELSE UNCHANGED active
    /\ UNCHANGED <<state, lineVars, via, seen, commit, end, stored,
                   historyVars>>

-----------------------------------------------------------------------------
(* Cancellation of the caller's task                                       *)

CancelWaiting(m) ==
    /\ pc[m] = "waiting"
    /\ \E i \in DOMAIN waiters :
            waiters[i] = m /\ waiters' = RemoveAt(waiters, i)
    /\ At(m, "gone")
    /\ FinishAdmission(m)
    /\ UNCHANGED <<state, holder, retired, via, seen, commit, end, stored,
                   historyVars>>

CancelCallback(m) ==
    /\ pc[m] \in {"running", "committing"}
    /\ End(m)
    /\ UNCHANGED <<facadeVars, lineVars, via, seen, commit, stored,
                   historyVars>>

(* The shield keeps the end task going, but mutate's admission ends.       *)
CancelEnding(m) ==
    /\ pc[m] = "ending"
    /\ At(m, "gone")
    /\ IF LastsTheCall(m) THEN FinishAdmission(m) ELSE UNCHANGED active
    /\ abandoned' = IF LastsTheCall(m) /\ end[m] = "pending"
                    THEN abandoned \union {m} ELSE abandoned
    /\ UNCHANGED <<state, lineVars, via, seen, commit, end, stored, applied>>

-----------------------------------------------------------------------------
(* The close of the facade                                                 *)

Close ==
    /\ state = "open"
    /\ state' = "closing"
    /\ UNCHANGED <<active, lineVars, via, pc, seen, commit, end, stored,
                   historyVars>>

(* _drain_and_close waits for the last admission.                          *)
Drained == active = 0

Drain ==
    /\ state = "closing"
    /\ Drained
    /\ state' = "closed"
    /\ UNCHANGED <<active, lineVars, via, pc, seen, commit, end, stored,
                   historyVars>>

-----------------------------------------------------------------------------
Step(m) ==
    \/ Grant(m)
    \/ Refuse(m)
    \/ \E succeeds \in BOOLEAN : StorageSettles(m, succeeds)
    \/ Finish(m)
    \/ Release(m)
    \/ Return(m)

Next ==
    \/ \E m \in Mutations :
        \/ \E method \in {"mutate", "begin"} : Begin(m, method)
        \/ Step(m)
        \/ Commit(m)
        \/ CancelWaiting(m)
        \/ CancelCallback(m)
        \/ CancelEnding(m)
    \/ RepoClose
    \/ Retire
    \/ Close
    \/ Drain

Spec == Init /\ [][Next]_vars

(* The event loop runs every task that can run, storage answers, and the   *)
(* callbacks return.  Nobody has to begin, commit, cancel or close.        *)
FairSpec ==
    /\ Spec
    /\ \A m \in Mutations : WF_vars(Step(m))
    /\ WF_vars(Retire)
    /\ WF_vars(Drain)

-----------------------------------------------------------------------------
(* Properties                                                              *)

(* "A Session mutation serializes a read/modify/write decision"            *)
(* (storage.md): every commit builds on all the commits before it,         *)
(* although a cancelled caller leaves its commit running behind it.        *)
NoLostUpdate == stored = applied

(* An admission is counted from _begin_admission to the end of the call it *)
(* was made for, on every way out.                                         *)
Admitted(m) ==
    \/ pc[m] \in {"waiting", "running", "committing"}
    \/ pc[m] = "ending" /\ via[m] = "mutate"
    \/ end[m] = "pending" /\ via[m] = "begin"

AdmissionsCounted == active = Cardinality({m \in Mutations : Admitted(m)})

(* A closed facade has nothing under way: no holder, no waiter, no commit, *)
(* except what a caller abandoned by a second cancellation.                *)
ClosedDrained ==
    state = "closed" =>
        \A m \in Mutations \ abandoned :
            pc[m] \notin {"waiting", "running", "committing"}
                /\ commit[m] # "inFlight" /\ end[m] # "pending"

(* After the repository closed the session nothing commits any more.       *)
RetiredQuiet ==
    [][retired => applied' = applied /\ \A m \in Mutations :
            commit[m] # "inFlight" => commit'[m] # "inFlight"]_vars

(* A close returns: no admission is lost on the way.                       *)
CloseReturns == state = "closing" ~> state = "closed"

(* "close stops new admissions, drains accepted operations, and closes the *)
(* backend once" (storage.md).                                             *)
ClosedAtRest ==
    state = "closed" => \A m \in Mutations : commit[m] # "inFlight"

(* What a close of the session means, together: the count it waits for is  *)
(* exact, nothing is under way when it is done, and after the repository's *)
(* own close nothing commits.                                              *)
ClosesQuietly ==
    [](TypeOK /\ AdmissionsCounted /\ ClosedDrained) /\ RetiredQuiet

=============================================================================

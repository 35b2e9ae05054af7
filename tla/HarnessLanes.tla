---------------------------- MODULE HarnessLanes ----------------------------
(***************************************************************************)
(* The harness of one session and its lanes (durable/runtime/harness.py),  *)
(* composed with the session line it commits through (SessionLine): lanes  *)
(* are acquired under the lane lock, by a mutation that creates what is    *)
(* not stored yet; drives of lanes and other callers of the session share  *)
(* the line; a failed commit faults the harness; its close waits for the   *)
(* lane lock, closes the lanes one after the other and then the session.   *)
(*                                                                         *)
(* Each mutation of the line is made once, for a call of one kind: an      *)
(* acquisition ("lane"), a drive of a lane ("drive"), or the host's own.   *)
(***************************************************************************)
EXTENDS SessionLine

CONSTANTS
    Names,      \* lane names
    Restored,   \* those found in the session when the harness was created
    ListenerCloses  \* a listener of the fault event awaits the harness's close

ASSUME HarnessLanesAssumption ==
    /\ IsFiniteSet(Names)
    /\ Restored \subseteq Names
    /\ ListenerCloses \in BOOLEAN

CloseCall == Repo

VARIABLES
    call,        \* [Mutations -> where the call that makes the mutation is]
    kind,        \* what it is for
    lane,        \* the lane it is about
    outcome,     \* what it found or did: "none", "found", "committed", "failed"
    cancelled,   \* calls whose task was cancelled
    lockHolder,  \* who has Harness._lane_lock
    lockWaiters, \* who waits for it
    laneStored,  \* names whose lane is in the storage
    lanes,       \* Harness._lanes
    sealed,      \* lanes that know of the fault
    closedLanes, \* lanes that were closed
    fault,       \* "none", "emitting" while the event is delivered, "told"
    faulter,     \* the call that reports it
    racing,      \* acquisitions under way when it struck
    closing      \* Harness.close: "none", "waiting", "lanes", "session"

callVars == <<call, kind, lane, outcome, cancelled>>
lockVars == <<lockHolder, lockWaiters>>
laneVars == <<laneStored, lanes, sealed, closedLanes>>
faultVars == <<fault, faulter, racing>>
harnessVars == <<callVars, lockVars, laneVars, faultVars, closing>>
allVars == <<vars, harnessVars>>

HarnessInit ==
    /\ Init
    /\ call = [m \in Mutations |-> "none"]
    /\ kind = [m \in Mutations |-> "none"]
    /\ lane \in [Mutations -> Names]
    /\ outcome = [m \in Mutations |-> "none"]
    /\ cancelled = {}
    /\ lockHolder = <<>>
    /\ lockWaiters = <<>>
    /\ laneStored = Restored
    /\ lanes = Restored
    /\ sealed = {}
    /\ closedLanes = {}
    /\ fault = "none"
    /\ faulter = {}
    /\ racing = {}
    /\ closing = "none"

HarnessTypeOK ==
    /\ TypeOK
    /\ call \in [Mutations -> {"none", "queued", "inside", "faulting", "done"}]
    /\ kind \in [Mutations -> {"none", "lane", "drive", "host"}]
    /\ lane \in [Mutations -> Names]
    /\ outcome \in [Mutations -> {"none", "found", "committed", "failed"}]
    /\ cancelled \subseteq Mutations
    /\ lockHolder \in {<<>>} \union {<<m>> : m \in Mutations}
    /\ lockWaiters \in Seq(Mutations \union {CloseCall})
    /\ laneStored \subseteq Names /\ lanes \subseteq Names
    /\ sealed \subseteq lanes /\ closedLanes \subseteq lanes
    /\ fault \in {"none", "emitting", "told"}
    /\ faulter \subseteq Mutations
    /\ racing \subseteq Mutations
    /\ closing \in {"none", "waiting", "lanes", "session"}

-----------------------------------------------------------------------------
(* Calls                                                                   *)

To(m, place) == call' = [call EXCEPT ![m] = place]

(* _assert_open of the harness                                             *)
Opened == fault = "none" /\ closing \in {"none", "waiting"}

(* Lane.seal_fault, for every lane there is.                               *)
FaultSeals == lanes

(* Harness._fault: the first fault seals the lanes there are, then its     *)
(* event is delivered before the call raises.                              *)
StrikeFault(m) ==
    /\ fault' = "emitting"
    /\ faulter' = {m}
    /\ sealed' = sealed \union FaultSeals
    /\ racing' = {w \in Mutations : kind[w] = "lane" /\ call[w] = "inside"}
    /\ To(m, "faulting")

(* Harness.lane                                                            *)
CallLane(m) ==
    /\ call[m] = "none"
    /\ To(m, "queued")
    /\ kind' = [kind EXCEPT ![m] = "lane"]
    /\ lockWaiters' = Append(lockWaiters, m)
    /\ UNCHANGED <<vars, lane, outcome, cancelled, lockHolder, laneVars, faultVars, closing>>

TakeLock(w) ==
    /\ lockHolder = <<>>
    /\ lockWaiters # <<>>
    /\ w = Head(lockWaiters)
    /\ lockWaiters' = Tail(lockWaiters)

(* The harness does not take the call, or has the lane already.            *)
LaneAtOnce(m) ==
    /\ TakeLock(m)
    /\ ~Opened \/ lane[m] \in lanes
    /\ To(m, "done")
    /\ UNCHANGED <<vars, kind, lane, outcome, cancelled, lockHolder, laneVars, faultVars,
                   closing>>

(* _lane goes to the session with the lock held.                           *)
EnterLane(m) ==
    /\ TakeLock(m)
    /\ Opened /\ lane[m] \notin lanes
    /\ lockHolder' = <<m>>
    /\ To(m, "inside")
    /\ Begin(m, "mutate")
    /\ UNCHANGED <<kind, lane, outcome, cancelled, laneVars, faultVars, closing>>

(* A lane's drive makes a mutation; _assert_open of the lane comes first.  *)
CallDrive(m) ==
    /\ call[m] = "none"
    /\ lane[m] \in lanes \ (sealed \union closedLanes)
    /\ To(m, "inside")
    /\ kind' = [kind EXCEPT ![m] = "drive"]
    /\ Begin(m, "mutate")
    /\ UNCHANGED <<lane, outcome, cancelled, lockVars, laneVars, faultVars, closing>>

(* The repository has closed the session meanwhile: the first thing the    *)
(* call does there raises.                                                 *)
EnterRetired(m) ==
    /\ retired
    /\ fault = "none"
    /\ \/ /\ TakeLock(m)
          /\ Opened /\ lane[m] \notin lanes
          /\ lockHolder' = <<m>>
          /\ UNCHANGED kind
       \/ /\ call[m] = "none"
          /\ lane[m] \in lanes \ closedLanes
          /\ kind' = [kind EXCEPT ![m] = "drive"]
          /\ UNCHANGED lockVars
    /\ StrikeFault(m)
    /\ UNCHANGED <<vars, lane, outcome, cancelled, laneStored, lanes, closedLanes, closing>>

(* A caller of the session that has nothing to do with lanes.              *)
CallHost(m) ==
    /\ call[m] = "none"
    /\ To(m, "inside")
    /\ kind' = [kind EXCEPT ![m] = "host"]
    /\ \E method \in {"mutate", "begin"} : Begin(m, method)
    /\ UNCHANGED <<lane, outcome, cancelled, lockVars, laneVars, faultVars, closing>>

-----------------------------------------------------------------------------
(* The mutation                                                            *)

(* read_lane_storage, when the mutation has the line.                      *)
Granted(m) ==
    /\ Grant(m)
    /\ outcome' = [outcome EXCEPT ![m] =
                     IF kind[m] = "lane" /\ lane[m] \in laneStored THEN "found" ELSE "none"]
    /\ UNCHANGED <<call, kind, lane, cancelled, lockVars, laneVars, faultVars, closing>>

(* A lane that is stored is not written again.                             *)
CommitBegins(m) ==
    /\ outcome[m] # "found"
    /\ Commit(m)
    /\ UNCHANGED harnessVars

CommitEnds(m) ==
    \E succeeds \in BOOLEAN :
        /\ StorageSettles(m, succeeds)
        /\ outcome' = [outcome EXCEPT ![m] = IF succeeds THEN "committed" ELSE "failed"]
        /\ laneStored' = IF succeeds /\ kind[m] = "lane"
                         THEN laneStored \union {lane[m]} ELSE laneStored
        /\ UNCHANGED <<call, kind, lane, cancelled, lockVars, lanes, sealed, closedLanes,
                       faultVars, closing>>

(* The callback is over; that of an acquisition ends without a commit when *)
(* the lane was found, or when it was asked for at an unknown entry.       *)
CallbackEnds(m) ==
    /\ Finish(m)
    /\ UNCHANGED harnessVars

LineReleased(m) ==
    /\ Release(m)
    /\ UNCHANGED harnessVars

-----------------------------------------------------------------------------
(* What the call does with it                                              *)

(* Mutant: a failed acquisition keeps the lock.                            *)
MutLockKept(m) ==
    lockHolder' = IF lockHolder = <<m>> /\ outcome[m] # "failed" THEN <<>> ELSE lockHolder

(* The async with of the lane lock is left.                                *)
Unlock(m) == lockHolder' = IF lockHolder = <<m>> THEN <<>> ELSE lockHolder

Leave(m) == To(m, "done") /\ Unlock(m)

(* A later fault raises at once.                                           *)
RaiseFault(m) ==
    IF fault = "none"
    THEN StrikeFault(m) /\ UNCHANGED lockHolder
    ELSE /\ Leave(m)
         /\ UNCHANGED <<fault, faulter, sealed, racing>>

(* mutate returned a lane.                                                 *)
Acquired(m) == outcome[m] \in {"found", "committed"}

(* mutate returns to the call.  An acquisition publishes the lane; a       *)
(* failed commit of the harness's own faults it; what was cancelled raises *)
(* CancelledError, which is no Exception, and publishes nothing.           *)
CallReturns(m) ==
    /\ Return(m)
    /\ IF m \in cancelled \/ kind[m] = "host"
       THEN Leave(m) /\ UNCHANGED <<lanes, sealed, faultVars>>
       ELSE IF outcome[m] = "failed" /\ ~Acquired(m)
       THEN RaiseFault(m) /\ UNCHANGED lanes
       ELSE /\ lanes' = IF kind[m] = "lane" /\ Acquired(m)
                        THEN lanes \union {lane[m]} ELSE lanes
            /\ Leave(m)
            /\ UNCHANGED <<sealed, faultVars>>
    /\ UNCHANGED <<kind, lane, outcome, cancelled, lockWaiters, laneStored, closedLanes, closing>>

(* The session was closed underneath the harness.                          *)
CallRefused(m) ==
    /\ Refuse(m)
    /\ IF kind[m] = "host" THEN Leave(m) /\ UNCHANGED <<sealed, faultVars>> ELSE RaiseFault(m)
    /\ UNCHANGED <<kind, lane, outcome, cancelled, lockWaiters, laneStored, lanes, closedLanes,
                   closing>>

(* The fault's event was delivered to every listener.                      *)
FaultTold(m) ==
    /\ fault = "emitting" /\ m \in faulter
    /\ ListenerCloses => closing = "session" /\ state = "closed"
    /\ fault' = "told"
    /\ Leave(m)
    /\ UNCHANGED <<vars, kind, lane, outcome, cancelled, lockWaiters, laneVars, faulter, racing,
                   closing>>

-----------------------------------------------------------------------------
(* Cancellation, of a call by its caller, of a drive by the lane's close   *)

CancelQueued(m) ==
    /\ call[m] = "queued"
    /\ \E i \in DOMAIN lockWaiters :
            lockWaiters[i] = m /\ lockWaiters' = RemoveAt(lockWaiters, i)
    /\ To(m, "done")
    /\ UNCHANGED <<vars, kind, lane, outcome, cancelled, lockHolder, laneVars, faultVars, closing>>

CancelInside(m) ==
    /\ call[m] = "inside"
    /\ \/ /\ CancelWaiting(m) \/ CancelEnding(m)
          /\ Leave(m)
          /\ UNCHANGED cancelled
       \/ /\ CancelCallback(m)
          /\ cancelled' = cancelled \union {m}
          /\ UNCHANGED <<call, lockHolder>>
    /\ UNCHANGED <<kind, lane, outcome, lockWaiters, laneVars, faultVars, closing>>

-----------------------------------------------------------------------------
(* Close                                                                   *)

CallClose ==
    /\ closing = "none"
    /\ closing' = "waiting"
    /\ lockWaiters' = Append(lockWaiters, CloseCall)
    /\ UNCHANGED <<vars, callVars, lockHolder, laneVars, faultVars>>

(* Mutant: the close does not wait for the lane lock.                      *)
MutLockSkipped ==
    /\ CloseCall \in {lockWaiters[i] : i \in DOMAIN lockWaiters}
    /\ lockWaiters' = SelectSeq(lockWaiters, LAMBDA w : w # CloseCall)

(* Harness.close takes the lane lock.                                      *)
LockForClose == TakeLock(CloseCall)

EnterClose ==
    /\ LockForClose
    /\ closing' = "lanes"
    /\ UNCHANGED <<vars, callVars, lockHolder, laneVars, faultVars>>

Driving(m) == kind[m] = "drive" /\ call[m] \in {"inside", "faulting"}

(* AgentLane.close waits for the drive it cancels before the next lane's.  *)
LanesSettled == \A m \in Mutations : Driving(m) => lane[m] \notin closedLanes

CloseLane(n) ==
    /\ closing = "lanes"
    /\ n \in lanes \ closedLanes
    /\ LanesSettled
    /\ closedLanes' = closedLanes \union {n}
    /\ UNCHANGED <<vars, callVars, lockVars, laneStored, lanes, sealed, faultVars, closing>>

(* The drive of a closed lane is cancelled wherever it waits, also in the  *)
(* delivery of a fault.                                                    *)
CancelDrive(m) ==
    /\ Driving(m)
    /\ lane[m] \in closedLanes
    /\ m \notin cancelled
    /\ \/ CancelInside(m)
       \/ /\ call[m] = "faulting"
          /\ fault' = "told"
          /\ Leave(m)
          /\ UNCHANGED <<vars, kind, lane, outcome, cancelled, lockWaiters, laneVars, faulter,
                         racing, closing>>

(* events.close, hooks.close, then the session's close.                    *)
CloseSession ==
    /\ closing = "lanes"
    /\ lanes = closedLanes
    /\ LanesSettled
    /\ closing' = "session"
    /\ Close
    /\ UNCHANGED <<callVars, lockVars, laneVars, faultVars>>

(* The session drains; its repository may close it at any time.            *)
SessionSteps ==
    /\ Drain \/ RepoClose \/ Retire
    /\ UNCHANGED harnessVars

-----------------------------------------------------------------------------
CallSteps(m) ==
    \/ LaneAtOnce(m) \/ EnterLane(m) \/ (kind[m] = "lane" /\ EnterRetired(m)) \/ Granted(m) \/ CommitEnds(m) \/ CallbackEnds(m)
    \/ LineReleased(m) \/ CallReturns(m) \/ CallRefused(m) \/ FaultTold(m) \/ CancelDrive(m)

HarnessNext ==
    \/ \E m \in Mutations :
        \/ CallLane(m) \/ CallDrive(m) \/ CallHost(m) \/ EnterRetired(m)
        \/ CallSteps(m) \/ CommitBegins(m)
        \/ CancelQueued(m) \/ CancelInside(m)
    \/ CallClose \/ EnterClose
    \/ \E n \in Names : CloseLane(n)
    \/ CloseSession
    \/ SessionSteps

HarnessSpec == HarnessInit /\ [][HarnessNext]_allVars

(* The event loop runs every task that can run, storage answers, listeners *)
(* and callbacks return.                                                   *)
HarnessFairSpec ==
    /\ HarnessSpec
    /\ \A m \in Mutations : WF_allVars(CallSteps(m))
    /\ WF_allVars(EnterClose)
    /\ WF_allVars(\E n \in Names : CloseLane(n))
    /\ WF_allVars(CloseSession)
    /\ WF_allVars(Drain /\ UNCHANGED harnessVars)
    /\ WF_allVars(Retire /\ UNCHANGED harnessVars)

-----------------------------------------------------------------------------
(* Properties                                                              *)

(* A lane a caller can get is in the storage, whatever became of the       *)
(* commit and of the call that created it.                                 *)
LanesAreStored == lanes \subseteq laneStored

(* "Harness close is a controlled interruption: stop local execution"      *)
(* (execution.md): when the close goes on to the session no lane is open,  *)
(* no drive runs, and neither will be so again.                            *)
ClosedLanesRest ==
    closing = "session" =>
        /\ lanes = closedLanes
        /\ \A m \in Mutations : ~Driving(m)

(* After a fault a lane is open only if its acquisition was under way when *)
(* the fault struck: every lane there was is sealed, and no call that      *)
(* comes later gets a new one.                                             *)
FaultSealsLanes ==
    fault # "none" =>
        \A n \in lanes \ sealed : \E m \in racing : lane[m] = n

(* A close of the harness comes to its end, through the lane lock, drives  *)
(* it has to cancel, faults on the way and the session's admissions.       *)
HarnessCloseReturns == closing # "none" ~> state = "closed"

(* "A failed durable commit ... faults the harness with HarnessFault, ...  *)
(* and rejects later lane work" (execution.md).                            *)
FaultRejectsWork == fault = "told" => lanes = sealed

(* What callers can hold, together: lanes that are stored, that are closed *)
(* for good when the harness is, and that know of a fault unless they were *)
(* being acquired when it struck; and no update made through them is lost. *)
LanesAccounted ==
    /\ HarnessTypeOK /\ LanesAreStored /\ ClosedLanesRest /\ FaultSealsLanes
    /\ NoLostUpdate

=============================================================================

------------------------- MODULE LaneRuntimeProofs -------------------------
(***************************************************************************)
(* Proofs about the two things a lane runs beside its transactions: the    *)
(* drive task with the requests that abort it, and the event bus with the  *)
(* watchers it serves.                                                     *)
(*                                                                         *)
(* Drives.  An abort signal reaches only the execution it names and does   *)
(* so before its request returns, no effect is admitted under a committed  *)
(* marker, and drives and aborts implement DurableOperation.  None of this *)
(* follows from the lane's fields alone.  A request reads them, waits for  *)
(* the line, commits, waits for the bus, and signals whatever scope the    *)
(* lane then has; so the inductive invariant says which operation each of  *)
(* those waiting requests may still name, and where its batch is in the    *)
(* bus's queue relative to the last batch of the drive.                    *)
(*                                                                         *)
(* The bus, for every number of commits and resnapshots and whoever is     *)
(* cancelled.  An event goes from its commit through the chain to the      *)
(* watcher's held events, its buffer, its queue and its listener.  The     *)
(* invariant orders the events along this way, and says which places       *)
(* together still have every event that the watcher's snapshot, or the one *)
(* it is about to get, does not cover.                                     *)
(***************************************************************************)
EXTENDS DriveOwnership, EventBus, SequenceTheorems, TLAPS

-----------------------------------------------------------------------------
(* Drives and their aborts                                                 *)

(* The points between the first visit to the line and the last events.     *)
Driving == {"check", "prepare", "intended", "effect", "settle", "told",
            "await", "aborting", "reconcile"}

(* Which operation the durable record and the task are about.              *)
Record ==
    /\ current # None => result[current] = "none"
    /\ marked => current # None
    /\ closed => pc = "idle"
    /\ pc \in Driving => driveOp \in Ops /\ current = driveOp
    /\ pc = "begin" => driveOp \in Ops
    /\ pc = "emit" => driveOp \in Ops /\ result[driveOp] # "none"
    /\ pc \in {"aborting", "reconcile"} => marked
    /\ pc = "intended" => effects < MaxEffects

(* What a request names was accepted, and is the lane's or has ended.      *)
Named ==
    \A r \in Requests :
        /\ req[r] = "idle" => ~seals[r] /\ settled[r] = "pending"
        /\ req[r] # "idle" =>
               /\ target[r] \in Ops
               /\ target[r] = current \/ result[target[r]] # "none"
        /\ (pc = "emit" /\ seals[r]) => target[r] # current
        /\ (req[r] = "emit" /\ target[r] = current) => marked
        /\ (settled[r] = "done" /\ target[r] = current) => marked
        /\ settled[r] = "fault" => faulted
        /\ req[r] = "done" => settled[r] # "pending"

(* Closed admission names the drive's operation and has its request.       *)
Admission ==
    /\ abortSettled # None =>
           /\ req[abortSettled] # "idle"
           /\ target[abortSettled] = closedFor
           /\ closedFor \in Ops
    /\ closedFor # None => abortSettled # None /\ closedFor = driveOp
    /\ pc = "await" => req[awaits] # "idle" /\ target[awaits] = driveOp

(* The signal is for the operation that is, or is about to be, driven.     *)
Scoped ==
    scope \in Requests =>
        /\ req[scope] # "idle"
        /\ pc = "begin" => target[scope] = current
        /\ pc \in Driving \union {"emit"} => target[scope] = driveOp

(* The bus holds one batch of an emitter at most, and none when it is down. *)
Single ==
    /\ busDown => delivery = <<>>
    /\ \A i, j \in 1..Len(delivery) : delivery[i] = delivery[j] => i = j

(* Who has a batch in the bus waits for it.                                *)
Waiting ==
    \A i \in 1..Len(delivery) :
        /\ delivery[i] \in Requests => req[delivery[i]] = "emit"
        /\ delivery[i] = "drive" => pc \in Telling
        /\ (pc # "emit" /\ ~closed /\ delivery[i] # "drive")
               => target[delivery[i]] = current

(* Requests before the drive's last batch name its operation, those after  *)
(* it the lane's next one.                                                 *)
Placed ==
    pc = "emit" =>
           \E d \in 1..Len(delivery) :
               /\ delivery[d] = "drive"
               /\ \A i \in 1..(d - 1) : target[delivery[i]] = driveOp
               /\ \A i \in (d + 1)..Len(delivery) :
                      target[delivery[i]] = current

(* A request that still waits for the line closed the admission of the     *)
(* live drive, or that drive has not been served before it.                *)
Sealed ==
    \A r \in Requests :
        /\ (/\ pc \in {"prepare", "intended", "effect"}
            /\ req[r] = "done" /\ seals[r] /\ target[r] = driveOp)
               => scope # None
        /\ (req[r] = "line" /\ target[r] = driveOp) =>
               /\ pc = "begin" => closedFor = driveOp \/ r \in ahead
               /\ pc \in Driving => closedFor = driveOp

(* A marker that appeared after the drive's last look closed its admission. *)
Guarded == (pc \in {"prepare", "intended"} /\ marked) => closedFor = driveOp

IInv ==
    /\ TypeOK
    /\ Record
    /\ Named
    /\ Admission
    /\ Scoped
    /\ Single
    /\ Waiting
    /\ Placed
    /\ Sealed
    /\ Guarded

-----------------------------------------------------------------------------

USE DEF Reasons, DrivePoints, Driving, Telling

LEMMA InitInvariant == Init => IInv
<1> SUFFICES ASSUME Init
             PROVE  IInv
  OBVIOUS
<1>1. TypeOK
  <2>1. delivery \in Seq(Requests \union {"drive"})
    BY EmptySeq DEF Init
  <2>2. /\ result \in [Ops -> {"none", "completed", "aborted"}]
        /\ req \in [Requests -> {"idle", "line", "emit", "done", "gone"}]
        /\ target \in [Requests -> Ops \union {None}]
        /\ seals \in [Requests -> BOOLEAN]
        /\ settled \in [Requests -> {"pending", "done", "fault"}]
    BY DEF Init
  <2>3. /\ marked \in BOOLEAN /\ effectPending \in BOOLEAN
        /\ faulted \in BOOLEAN /\ closed \in BOOLEAN /\ lost \in BOOLEAN
        /\ busDown \in BOOLEAN
    BY Zenon DEF Init
  <2>4. effects \in 0..MaxEffects
    BY DriveOwnershipAssumption DEF Init
  <2> QED
    BY <2>1, <2>2, <2>3, <2>4, Zenon DEF Init, TypeOK
<1>2. Record /\ Named /\ Admission /\ Scoped /\ Sealed /\ Guarded
  BY DriveOwnershipAssumption
     DEF Init, Record, Named, Admission, Scoped, Sealed, Guarded
<1>3. Single /\ Waiting /\ Placed
  BY DEF Init, Single, Waiting, Placed
<1> QED
  BY <1>1, <1>2, <1>3 DEF IInv

(* A stutter changes nothing.                                              *)
LEMMA StutterInvariant == IInv /\ UNCHANGED vars => IInv'
  BY SMTT(60)
     DEF vars, durableVars, laneVars, taskVars, requestVars, queueVars, IInv, TypeOK,
         Record, Named, Admission, Scoped, Single, Waiting, Placed, Sealed, Guarded

(* A batch joins the queue at its end.                                     *)
LEMMA AppendedPlaces ==
  ASSUME TypeOK, NEW e \in Requests \union {"drive"},
         delivery' = Append(delivery, e)
  PROVE  /\ delivery' \in Seq(Requests \union {"drive"})
         /\ Len(delivery) \in Nat
         /\ Len(delivery') = Len(delivery) + 1
         /\ \A i \in 1..Len(delivery) : delivery'[i] = delivery[i]
         /\ delivery'[Len(delivery) + 1] = e
<1>1. delivery \in Seq(Requests \union {"drive"})
  BY DEF TypeOK
<1> QED
  BY <1>1

(* It is then there once.                                                  *)
LEMMA AppendedSingle ==
  ASSUME TypeOK, Single, NEW e \in Requests \union {"drive"},
         \A i \in 1..Len(delivery) : delivery[i] # e,
         delivery' = Append(delivery, e), ~busDown'
  PROVE  Single'
<1>1. delivery \in Seq(Requests \union {"drive"})
  BY DEF TypeOK
<1>2. /\ Len(delivery') = Len(delivery) + 1
      /\ \A i \in 1..Len(delivery) : delivery'[i] = delivery[i]
      /\ delivery'[Len(delivery) + 1] = e
  BY <1>1
<1> QED
  BY <1>1, <1>2 DEF Single

(* A broken bus holds nothing, and nobody waits for it.                    *)
LEMMA BrokenQueue ==
  ASSUME IInv, NEW callers, BreakBus(callers),
         \A r \in Requests \intersect callers : req[r] # "idle"
  PROVE  /\ delivery' \in Seq(Requests \union {"drive"})
         /\ pc' \in DrivePoints /\ pc' \notin Telling
         /\ pc' = pc \/ pc' = "idle"
         /\ pc' = "idle" => pc \in {"idle", "told", "emit"}
         /\ req' \in [Requests -> {"idle", "line", "emit", "done", "gone"}]
         /\ \A r \in Requests :
                req'[r] = req[r] \/ (req'[r] = "gone" /\ req[r] # "idle")
         /\ (Single /\ Waiting /\ Placed)'
<1>1. delivery' = <<>> /\ delivery' \in Seq(Requests \union {"drive"})
  BY EmptySeq DEF BreakBus
<1>2. /\ pc' \in DrivePoints /\ pc' \notin Telling
      /\ pc' = pc \/ pc' = "idle"
      /\ pc' = "idle" => pc \in {"idle", "told", "emit"}
  BY DEF BreakBus, IInv, TypeOK
<1>3. /\ req' \in [Requests -> {"idle", "line", "emit", "done", "gone"}]
      /\ \A r \in Requests :
                req'[r] = req[r] \/ (req'[r] = "gone" /\ req[r] # "idle")
  BY DEF BreakBus, IInv, TypeOK
<1>4. (Single /\ Waiting /\ Placed)'
  BY <1>1, <1>2 DEF Single, Waiting, Placed
<1> QED
  BY <1>1, <1>2, <1>3, <1>4

LEMMA AcceptKeeps ==
  ASSUME IInv, NEW o \in Ops, Accept(o)
  PROVE  IInv'
<1> USE DEF durableVars, laneVars, taskVars, requestVars, queueVars, Accept, Open
<1>1. TypeOK'
  BY DriveOwnershipAssumption DEF IInv, TypeOK, Record, Named
<1>2. (Record /\ Named /\ Admission /\ Scoped)'
  BY DriveOwnershipAssumption
     DEF IInv, TypeOK, Record, Named, Admission, Scoped
<1>3. (Single /\ Waiting /\ Placed)'
  <2>1. (Single /\ Waiting)'
    BY DriveOwnershipAssumption DEF IInv, TypeOK, Named, Single, Waiting
  <2>2. CASE pc = "emit"
    <3>1. PICK d \in 1..Len(delivery) :
              /\ delivery[d] = "drive"
              /\ \A i \in 1..(d - 1) : target[delivery[i]] = driveOp
              /\ \A i \in (d + 1)..Len(delivery) :
                     target[delivery[i]] = current
      BY <2>2 DEF IInv, Placed
    <3>2. ASSUME NEW i \in (d + 1)..Len(delivery)
          PROVE  FALSE
      <4>1. delivery[i] \in Requests /\ req[delivery[i]] = "emit"
        BY <3>1 DEF IInv, TypeOK, Single, Waiting
      <4> QED
        BY <3>1, <4>1, DriveOwnershipAssumption DEF IInv, Named
    <3> QED
      BY <2>1, <3>1, <3>2 DEF Placed
  <2>3. CASE pc # "emit"
    BY <2>1, <2>3 DEF Placed
  <2> QED
    BY <2>1, <2>2, <2>3
<1>4. (Sealed /\ Guarded)'
  BY DriveOwnershipAssumption
     DEF IInv, TypeOK, Record, Named, Admission, Sealed, Guarded
<1> QED
  BY <1>1, <1>2, <1>3, <1>4 DEF IInv

LEMMA DriveKeeps ==
  ASSUME IInv, NEW o \in Ops, Drive(o)
  PROVE  IInv'
<1> USE DEF durableVars, laneVars, taskVars, requestVars, queueVars, Drive, Open, Known
<1>1. TypeOK'
  BY DriveOwnershipAssumption DEF IInv, TypeOK, Record, Named
<1>2. (Record /\ Named /\ Admission /\ Scoped)'
  BY DriveOwnershipAssumption
     DEF IInv, TypeOK, Record, Named, Admission, Scoped
<1>3. (Single /\ Waiting /\ Placed)'
  BY DriveOwnershipAssumption
     DEF IInv, TypeOK, Record, Named, Single, Waiting, Placed
<1>4. (Sealed /\ Guarded)'
  BY DriveOwnershipAssumption
     DEF IInv, TypeOK, Record, Named, Admission, Sealed, Guarded
<1> QED
  BY <1>1, <1>2, <1>3, <1>4 DEF IInv

LEMMA RequestAbortKeeps ==
  ASSUME IInv, NEW r \in Requests, NEW o \in Ops, RequestAbort(r, o)
  PROVE  IInv'
<1> USE DEF durableVars, laneVars, taskVars, requestVars, queueVars, RequestAbort, Open, Known
<1>1. TypeOK'
  BY DriveOwnershipAssumption DEF IInv, TypeOK, Record, Named
<1>2. (Record /\ Named /\ Admission /\ Scoped)'
  BY DriveOwnershipAssumption
     DEF IInv, TypeOK, Record, Named, Admission, Scoped
<1>3. (Single /\ Waiting /\ Placed)'
  BY DriveOwnershipAssumption
     DEF IInv, TypeOK, Record, Named, Single, Waiting, Placed
<1>4. (Sealed /\ Guarded)'
  BY DriveOwnershipAssumption
     DEF IInv, TypeOK, Record, Named, Admission, Sealed, Guarded
<1> QED
  BY <1>1, <1>2, <1>3, <1>4 DEF IInv

LEMMA CommitMarkerKeeps ==
  ASSUME IInv, NEW r \in Requests, CommitMarker(r)
  PROVE  IInv'
<1> USE DEF durableVars, laneVars, taskVars, requestVars, queueVars, CommitMarker
<1>0. \/ delivery' = delivery /\ req' = [req EXCEPT ![r] = "gone"]
      \/ /\ req' = [req EXCEPT ![r] = "emit"] /\ ~busDown'
         /\ delivery' = Append(delivery, r)
         /\ delivery' \in Seq(Requests \union {"drive"})
         /\ Len(delivery) \in Nat
         /\ Len(delivery') = Len(delivery) + 1
         /\ \A i \in 1..Len(delivery) : delivery'[i] = delivery[i]
         /\ delivery'[Len(delivery) + 1] = r
  BY AppendedPlaces DEF IInv
<1>1. TypeOK'
  <2>1. /\ delivery' \in Seq(Requests \union {"drive"})
        /\ req' \in [Requests -> {"idle", "line", "emit", "done", "gone"}]
    BY <1>0 DEF IInv, TypeOK
  <2>2. marked' \in BOOLEAN /\ busDown' \in BOOLEAN
    BY DEF IInv, TypeOK
  <2> QED
    BY <2>1, <2>2 DEF IInv, TypeOK
<1>2. (Record /\ Named)'
  BY DriveOwnershipAssumption DEF IInv, TypeOK, Record, Named, Single, Waiting, Placed
<1>3. Admission'
  BY DriveOwnershipAssumption DEF IInv, TypeOK, Record, Named, Admission
<1>4. Scoped'
  BY DriveOwnershipAssumption DEF IInv, TypeOK, Record, Named, Admission, Scoped, Single, Waiting, Placed
<1>5. Single'
  <2>1. \A i \in 1..Len(delivery) : delivery[i] # r
    BY DEF IInv, TypeOK, Waiting
  <2> QED
    BY <1>0, <2>1, AppendedSingle DEF IInv, Single
<1>6. Waiting'
  BY DriveOwnershipAssumption DEF IInv, TypeOK, Record, Named, Single, Waiting
<1>7. Placed'
  <2>1. CASE delivery' = delivery
    BY <2>1 DEF IInv, Placed
  <2>2. CASE delivery' # delivery
    <3>1. ASSUME pc = "emit"
          PROVE  Placed'
      <4>1. PICK d \in 1..Len(delivery) :
                /\ delivery[d] = "drive"
                /\ \A i \in 1..(d - 1) : target[delivery[i]] = driveOp
                /\ \A i \in (d + 1)..Len(delivery) :
                       target[delivery[i]] = current
        BY <3>1 DEF IInv, Placed
      <4>2. d \in 1..Len(delivery') /\ delivery'[d] = "drive"
        BY <1>0, <2>2, <4>1
      <4>3. \A i \in 1..(d - 1) : target[delivery'[i]] = driveOp
        BY <1>0, <2>2, <4>1
      <4>4. \A i \in (d + 1)..Len(delivery') : target[delivery'[i]] = current
        BY <1>0, <2>2, <4>1
      <4> QED
        BY <4>2, <4>3, <4>4 DEF Placed
    <3> QED
      BY <3>1 DEF Placed
  <2> QED
    BY <2>1, <2>2
<1>8. (Sealed /\ Guarded)'
  BY DriveOwnershipAssumption DEF IInv, TypeOK, Record, Named, Admission, Sealed, Guarded
<1> QED
  BY <1>1, <1>2, <1>3, <1>4, <1>5, <1>6, <1>7, <1>8 DEF IInv

LEMMA FindMarkerKeeps ==
  ASSUME IInv, NEW r \in Requests, FindMarker(r)
  PROVE  IInv'
<1> USE DEF durableVars, laneVars, taskVars, requestVars, queueVars, FindMarker, Signal
<1>1. TypeOK'
  BY DriveOwnershipAssumption DEF IInv, TypeOK, Record, Named
<1>2. (Record /\ Named /\ Admission /\ Scoped)'
  BY DriveOwnershipAssumption
     DEF IInv, TypeOK, Record, Named, Admission, Scoped
<1>3. (Single /\ Waiting /\ Placed)'
  BY DriveOwnershipAssumption
     DEF IInv, TypeOK, Record, Named, Single, Waiting, Placed
<1>4. (Sealed /\ Guarded)'
  BY DriveOwnershipAssumption
     DEF IInv, TypeOK, Record, Named, Admission, Sealed, Guarded
<1> QED
  BY <1>1, <1>2, <1>3, <1>4 DEF IInv

LEMMA FinishRequestKeeps ==
  ASSUME IInv, NEW r \in Requests, FinishRequest(r)
  PROVE  IInv'
<1> USE DEF durableVars, laneVars, taskVars, requestVars, queueVars, FinishRequest, Signal, Delivered
<1>1. TypeOK'
  BY DriveOwnershipAssumption DEF IInv, TypeOK, Record, Named
<1>2. (Record /\ Named)'
  BY DriveOwnershipAssumption DEF IInv, TypeOK, Record, Named, Single, Waiting, Placed
<1>3. Admission'
  BY DriveOwnershipAssumption DEF IInv, TypeOK, Record, Named, Admission
<1>4. Scoped'
  BY DriveOwnershipAssumption DEF IInv, TypeOK, Record, Named, Admission, Scoped, Single, Waiting, Placed
<1>5. Single'
  BY DriveOwnershipAssumption DEF IInv, TypeOK, Record, Named, Single
<1>6. Waiting'
  BY DriveOwnershipAssumption DEF IInv, TypeOK, Record, Named, Single, Waiting
<1>7. Placed'
  <2>1. /\ delivery \in Seq(Requests \union {"drive"})
        /\ delivery # <<>> /\ delivery[1] = r
    BY DEF IInv, TypeOK
  <2>2. /\ Len(delivery') = Len(delivery) - 1
        /\ \A i \in 1..Len(delivery') : delivery'[i] = delivery[i + 1]
    BY <2>1
  <2>3. ASSUME pc = "emit"
        PROVE  \E d \in 1..Len(delivery') :
                   /\ delivery'[d] = "drive"
                   /\ \A i \in 1..(d - 1) : target[delivery'[i]] = driveOp
                   /\ \A i \in (d + 1)..Len(delivery') :
                          target[delivery'[i]] = current
    <3>1. PICK d \in 1..Len(delivery) :
              /\ delivery[d] = "drive"
              /\ \A i \in 1..(d - 1) : target[delivery[i]] = driveOp
              /\ \A i \in (d + 1)..Len(delivery) :
                     target[delivery[i]] = current
      BY <2>3 DEF IInv, Placed
    <3>2. d # 1
      BY <2>1, <3>1, DriveOwnershipAssumption
    <3>3. d - 1 \in 1..Len(delivery')
      BY <2>1, <2>2, <3>1, <3>2
    <3> WITNESS d - 1 \in 1..Len(delivery')
    <3> QED
      BY <2>1, <2>2, <3>1, <3>2
  <2> QED
    BY <2>3 DEF Placed
<1>8. (Sealed /\ Guarded)'
  BY DriveOwnershipAssumption DEF IInv, TypeOK, Record, Named, Admission, Sealed, Guarded
<1> QED
  BY <1>1, <1>2, <1>3, <1>4, <1>5, <1>6, <1>7, <1>8 DEF IInv

LEMMA FailRequestKeeps ==
  ASSUME IInv, NEW r \in Requests, FailRequest(r)
  PROVE  IInv'
<1> USE DEF durableVars, laneVars, taskVars, requestVars, queueVars, FailRequest, Fault, Signal
<1>1. CASE BreakBus({r})
  <2>1. /\ delivery' \in Seq(Requests \union {"drive"})
        /\ pc' \in DrivePoints /\ pc' \notin Telling
        /\ pc' = pc \/ pc' = "idle"
        /\ pc' = "idle" => pc \in {"idle", "told", "emit"}
        /\ req' \in [Requests -> {"idle", "line", "emit", "done", "gone"}]
        /\ \A x \in Requests :
               req'[x] = req[x] \/ (req'[x] = "gone" /\ req[x] # "idle")
        /\ (Single /\ Waiting /\ Placed)'
    BY <1>1, BrokenQueue, Zenon
  <2>2. busDown' \in BOOLEAN
    BY <1>1 DEF BreakBus
  <2>3. TypeOK'
    BY <2>1, <2>2, DriveOwnershipAssumption DEF IInv, TypeOK, Named
  <2>4. (Record /\ Named)'
    BY <2>1, DriveOwnershipAssumption DEF IInv, TypeOK, Record, Named
  <2>5. (Admission /\ Scoped)'
    BY <2>1, DriveOwnershipAssumption
       DEF IInv, TypeOK, Record, Named, Admission, Scoped
  <2>6. (Sealed /\ Guarded)'
    BY <2>1, DriveOwnershipAssumption
       DEF IInv, TypeOK, Record, Named, Admission, Sealed, Guarded
  <2> QED
    BY <2>1, <2>3, <2>4, <2>5, <2>6 DEF IInv
<1>2. CASE /\ ~busDown
           /\ req' = [req EXCEPT ![r] = "done"]
           /\ settled' = [settled EXCEPT ![r] = "fault"]
           /\ UNCHANGED <<queueVars, pc>>
  <2>1. TypeOK'
    <3>1. req' \in [Requests -> {"idle", "line", "emit", "done", "gone"}]
      BY <1>2 DEF IInv, TypeOK
    <3>2. settled' \in [Requests -> {"pending", "done", "fault"}]
      BY <1>2 DEF IInv, TypeOK
    <3> QED
      BY <1>2, <3>1, <3>2 DEF IInv, TypeOK
  <2>2. (Record /\ Named /\ Admission /\ Scoped)'
    BY <1>2, DriveOwnershipAssumption
       DEF IInv, TypeOK, Record, Named, Admission, Scoped
  <2>3. (Single /\ Waiting /\ Placed)'
    BY <1>2, DriveOwnershipAssumption
       DEF IInv, TypeOK, Record, Named, Single, Waiting, Placed
  <2>4. (Sealed /\ Guarded)'
    BY <1>2, DriveOwnershipAssumption
       DEF IInv, TypeOK, Record, Named, Admission, Sealed, Guarded
  <2> QED
    BY <2>1, <2>2, <2>3, <2>4 DEF IInv
<1> QED
  BY <1>1, <1>2

LEMMA CancelCallerKeeps ==
  ASSUME IInv, NEW r \in Requests, CancelCaller(r)
  PROVE  IInv'
<1> USE DEF durableVars, laneVars, taskVars, requestVars, queueVars, CancelCaller
<1>1. CASE BreakBus({r})
  <2>1. /\ delivery' \in Seq(Requests \union {"drive"})
        /\ pc' \in DrivePoints /\ pc' \notin Telling
        /\ pc' = pc \/ pc' = "idle"
        /\ pc' = "idle" => pc \in {"idle", "told", "emit"}
        /\ req' \in [Requests -> {"idle", "line", "emit", "done", "gone"}]
        /\ \A x \in Requests :
               req'[x] = req[x] \/ (req'[x] = "gone" /\ req[x] # "idle")
        /\ (Single /\ Waiting /\ Placed)'
    BY <1>1, BrokenQueue, Zenon
  <2>2. busDown' \in BOOLEAN
    BY <1>1 DEF BreakBus
  <2>3. TypeOK'
    <3>1. marked' \in BOOLEAN
      BY DEF IInv, TypeOK
    <3> QED
      BY <2>1, <2>2, <3>1 DEF IInv, TypeOK
  <2>4. (Record /\ Named)'
    BY <2>1, DriveOwnershipAssumption DEF IInv, TypeOK, Record, Named
  <2>5. (Admission /\ Scoped)'
    BY <2>1, DriveOwnershipAssumption
       DEF IInv, TypeOK, Record, Named, Admission, Scoped
  <2>6. (Sealed /\ Guarded)'
    BY <2>1, DriveOwnershipAssumption
       DEF IInv, TypeOK, Record, Named, Admission, Sealed, Guarded
  <2> QED
    BY <2>1, <2>3, <2>4, <2>5, <2>6 DEF IInv
<1>2. CASE /\ req[r] = "line"
           /\ UNCHANGED marked \/ (current = target[r] /\ marked' = TRUE)
           /\ req' = [req EXCEPT ![r] = "gone"]
           /\ UNCHANGED <<queueVars, pc>>
  <2>1. TypeOK'
    <3>1. req' \in [Requests -> {"idle", "line", "emit", "done", "gone"}]
      BY <1>2 DEF IInv, TypeOK
    <3>2. marked' \in BOOLEAN
      BY <1>2 DEF IInv, TypeOK
    <3> QED
      BY <1>2, <3>1, <3>2 DEF IInv, TypeOK
  <2>2. (Record /\ Named /\ Admission /\ Scoped)'
    BY <1>2, DriveOwnershipAssumption
       DEF IInv, TypeOK, Record, Named, Admission, Scoped
  <2>3. (Single /\ Waiting /\ Placed)'
    BY <1>2, DriveOwnershipAssumption
       DEF IInv, TypeOK, Record, Named, Single, Waiting, Placed
  <2>4. (Sealed /\ Guarded)'
    BY <1>2, DriveOwnershipAssumption
       DEF IInv, TypeOK, Record, Named, Admission, Sealed, Guarded
  <2> QED
    BY <2>1, <2>2, <2>3, <2>4 DEF IInv
<1>3. CASE /\ req[r] = "emit"
           /\ Delivered(r)
           /\ req' = [req EXCEPT ![r] = "gone"]
           /\ UNCHANGED <<marked, busDown, pc>>
  <2> USE <1>3 DEF Delivered
  <2>1. TypeOK'
    BY DriveOwnershipAssumption DEF IInv, TypeOK, Record, Named
  <2>2. (Record /\ Named)'
    BY DriveOwnershipAssumption DEF IInv, TypeOK, Record, Named, Single, Waiting, Placed
  <2>3. (Admission /\ Scoped)'
    BY DriveOwnershipAssumption DEF IInv, TypeOK, Record, Named, Admission, Scoped
  <2>4. Single'
    BY DriveOwnershipAssumption DEF IInv, TypeOK, Record, Named, Single
  <2>5. Waiting'
    BY DriveOwnershipAssumption DEF IInv, TypeOK, Record, Named, Single, Waiting
  <2>6. Placed'
    <3>1. /\ delivery \in Seq(Requests \union {"drive"})
          /\ delivery # <<>> /\ delivery[1] = r
      BY DEF IInv, TypeOK
    <3>2. /\ Len(delivery') = Len(delivery) - 1
          /\ \A i \in 1..Len(delivery') : delivery'[i] = delivery[i + 1]
      BY <3>1
    <3>3. ASSUME pc = "emit"
          PROVE  \E d \in 1..Len(delivery') :
                     /\ delivery'[d] = "drive"
                     /\ \A i \in 1..(d - 1) : target[delivery'[i]] = driveOp
                     /\ \A i \in (d + 1)..Len(delivery') :
                            target[delivery'[i]] = current
      <4>1. PICK d \in 1..Len(delivery) :
                /\ delivery[d] = "drive"
                /\ \A i \in 1..(d - 1) : target[delivery[i]] = driveOp
                /\ \A i \in (d + 1)..Len(delivery) :
                       target[delivery[i]] = current
        BY <3>3 DEF IInv, Placed
      <4>2. d # 1
        BY <3>1, <4>1, DriveOwnershipAssumption
      <4>3. d - 1 \in 1..Len(delivery')
        BY <3>1, <3>2, <4>1, <4>2
      <4> WITNESS d - 1 \in 1..Len(delivery')
      <4> QED
        BY <3>1, <3>2, <4>1, <4>2
    <3> QED
      BY <3>3 DEF Placed
  <2>7. (Sealed /\ Guarded)'
    BY DriveOwnershipAssumption
       DEF IInv, TypeOK, Record, Named, Admission, Sealed, Guarded
  <2> QED
    BY <2>1, <2>2, <2>3, <2>4, <2>5, <2>6, <2>7 DEF IInv
<1> QED
  BY <1>1, <1>2, <1>3

LEMMA CancelOtherKeeps ==
  ASSUME IInv, CancelOther
  PROVE  IInv'
<1> USE DEF durableVars, laneVars, taskVars, requestVars, queueVars, CancelOther
<1>1. BreakBus({})
  OBVIOUS
<1>2. /\ delivery' \in Seq(Requests \union {"drive"})
      /\ pc' \in DrivePoints /\ pc' \notin Telling
      /\ pc' = pc \/ pc' = "idle"
      /\ pc' = "idle" => pc \in {"idle", "told", "emit"}
      /\ req' \in [Requests -> {"idle", "line", "emit", "done", "gone"}]
      /\ \A x \in Requests :
             req'[x] = req[x] \/ (req'[x] = "gone" /\ req[x] # "idle")
      /\ (Single /\ Waiting /\ Placed)'
  BY <1>1, BrokenQueue, Zenon
<1>3. busDown' \in BOOLEAN
  BY <1>1 DEF BreakBus
<1>4. TypeOK'
  BY <1>2, <1>3, DriveOwnershipAssumption DEF IInv, TypeOK, Named
<1>5. (Record /\ Named)'
  BY <1>2, DriveOwnershipAssumption DEF IInv, TypeOK, Record, Named
<1>6. (Admission /\ Scoped)'
  BY <1>2, DriveOwnershipAssumption
     DEF IInv, TypeOK, Record, Named, Admission, Scoped
<1>7. (Sealed /\ Guarded)'
  BY <1>2, DriveOwnershipAssumption
     DEF IInv, TypeOK, Record, Named, Admission, Sealed, Guarded
<1> QED
  BY <1>2, <1>4, <1>5, <1>6, <1>7 DEF IInv

LEMMA BeginKeeps ==
  ASSUME IInv, Begin
  PROVE  IInv'
<1> USE DEF durableVars, laneVars, taskVars, requestVars, queueVars, Begin, Move, Open, Served
<1>1. TypeOK'
  BY DriveOwnershipAssumption DEF IInv, TypeOK, Record, Named
<1>2. (Record /\ Named /\ Admission /\ Scoped)'
  BY DriveOwnershipAssumption
     DEF IInv, TypeOK, Record, Named, Admission, Scoped
<1>3. (Single /\ Waiting /\ Placed)'
  BY DriveOwnershipAssumption
     DEF IInv, TypeOK, Record, Named, Single, Waiting, Placed
<1>4. (Sealed /\ Guarded)'
  BY DriveOwnershipAssumption
     DEF IInv, TypeOK, Record, Named, Admission, Sealed, Guarded
<1> QED
  BY <1>1, <1>2, <1>3, <1>4 DEF IInv

LEMMA CheckKeeps ==
  ASSUME IInv, Check
  PROVE  IInv'
<1> USE DEF durableVars, laneVars, taskVars, requestVars, queueVars, Check, Move, Open
<1>1. TypeOK'
  BY DriveOwnershipAssumption DEF IInv, TypeOK, Record, Named
<1>2. (Record /\ Named /\ Admission /\ Scoped)'
  BY DriveOwnershipAssumption
     DEF IInv, TypeOK, Record, Named, Admission, Scoped
<1>3. (Single /\ Waiting /\ Placed)'
  BY DriveOwnershipAssumption
     DEF IInv, TypeOK, Record, Named, Single, Waiting, Placed
<1>4. (Sealed /\ Guarded)'
  BY DriveOwnershipAssumption
     DEF IInv, TypeOK, Record, Named, Admission, Sealed, Guarded
<1> QED
  BY <1>1, <1>2, <1>3, <1>4 DEF IInv

LEMMA InterruptedKeeps ==
  ASSUME IInv, Interrupted
  PROVE  IInv'
<1> USE DEF durableVars, laneVars, taskVars, requestVars, queueVars, Interrupted, Move
<1>1. TypeOK'
  BY DriveOwnershipAssumption DEF IInv, TypeOK, Record, Named
<1>2. (Record /\ Named /\ Admission /\ Scoped)'
  BY DriveOwnershipAssumption
     DEF IInv, TypeOK, Record, Named, Admission, Scoped
<1>3. (Single /\ Waiting /\ Placed)'
  BY DriveOwnershipAssumption
     DEF IInv, TypeOK, Record, Named, Single, Waiting, Placed
<1>4. (Sealed /\ Guarded)'
  BY DriveOwnershipAssumption
     DEF IInv, TypeOK, Record, Named, Admission, Sealed, Guarded
<1> QED
  BY <1>1, <1>2, <1>3, <1>4 DEF IInv

LEMMA PublishIntentKeeps ==
  ASSUME IInv, PublishIntent
  PROVE  IInv'
<1> USE DEF durableVars, laneVars, taskVars, requestVars, queueVars, PublishIntent
<1>1. TypeOK'
  BY DriveOwnershipAssumption DEF IInv, TypeOK, Record, Named
<1>2. (Record /\ Named /\ Admission /\ Scoped)'
  BY DriveOwnershipAssumption
     DEF IInv, TypeOK, Record, Named, Admission, Scoped
<1>3. (Single /\ Waiting /\ Placed)'
  BY DriveOwnershipAssumption
     DEF IInv, TypeOK, Record, Named, Single, Waiting, Placed
<1>4. (Sealed /\ Guarded)'
  BY DriveOwnershipAssumption
     DEF IInv, TypeOK, Record, Named, Admission, Sealed, Guarded
<1> QED
  BY <1>1, <1>2, <1>3, <1>4 DEF IInv

LEMMA AdmitEffectKeeps ==
  ASSUME IInv, AdmitEffect
  PROVE  IInv'
<1> USE DEF durableVars, laneVars, taskVars, requestVars, queueVars, AdmitEffect, Open, AdmissionClosed
<1>1. TypeOK'
  BY DriveOwnershipAssumption DEF IInv, TypeOK, Record, Named, Admission
<1>2. (Record /\ Named /\ Admission /\ Scoped)'
  BY DriveOwnershipAssumption
     DEF IInv, TypeOK, Record, Named, Admission, Scoped
<1>3. (Single /\ Waiting /\ Placed)'
  BY DriveOwnershipAssumption
     DEF IInv, TypeOK, Record, Named, Single, Waiting, Placed
<1>4. (Sealed /\ Guarded)'
  BY DriveOwnershipAssumption
     DEF IInv, TypeOK, Record, Named, Admission, Sealed, Guarded
<1> QED
  BY <1>1, <1>2, <1>3, <1>4 DEF IInv

LEMMA AnswerKeeps ==
  ASSUME IInv, Answer
  PROVE  IInv'
<1> USE DEF durableVars, laneVars, taskVars, requestVars, queueVars, Answer, Move
<1>1. TypeOK'
  BY DriveOwnershipAssumption DEF IInv, TypeOK, Record, Named
<1>2. (Record /\ Named /\ Admission /\ Scoped)'
  BY DriveOwnershipAssumption
     DEF IInv, TypeOK, Record, Named, Admission, Scoped
<1>3. (Single /\ Waiting /\ Placed)'
  BY DriveOwnershipAssumption
     DEF IInv, TypeOK, Record, Named, Single, Waiting, Placed
<1>4. (Sealed /\ Guarded)'
  BY DriveOwnershipAssumption
     DEF IInv, TypeOK, Record, Named, Admission, Sealed, Guarded
<1> QED
  BY <1>1, <1>2, <1>3, <1>4 DEF IInv

LEMMA SettleKeeps ==
  ASSUME IInv, Settle
  PROVE  IInv'
<1> USE DEF durableVars, laneVars, taskVars, requestVars, queueVars, Settle, Tell
<1>0. \/ pc' = "idle" /\ delivery' = delivery /\ busDown /\ busDown'
      \/ /\ pc' = "told" /\ ~busDown'
         /\ delivery' = Append(delivery, "drive")
         /\ delivery' \in Seq(Requests \union {"drive"})
         /\ Len(delivery) \in Nat
         /\ Len(delivery') = Len(delivery) + 1
         /\ \A i \in 1..Len(delivery) : delivery'[i] = delivery[i]
         /\ delivery'[Len(delivery) + 1] = "drive"
  BY AppendedPlaces DEF IInv
<1>1. TypeOK'
  <2>1. /\ delivery' \in Seq(Requests \union {"drive"})
        /\ pc' \in DrivePoints /\ pc' # "await"
    BY <1>0 DEF IInv, TypeOK
  <2>2. busDown' \in BOOLEAN /\ effectPending' \in BOOLEAN
    BY <1>0 DEF IInv, TypeOK
  <2> QED
    BY <2>1, <2>2 DEF IInv, TypeOK
<1>2. (Record /\ Named /\ Admission /\ Scoped)'
  BY DriveOwnershipAssumption
     DEF IInv, TypeOK, Record, Named, Admission, Scoped
<1>3. Single'
  <2>1. \A i \in 1..Len(delivery) : delivery[i] # "drive"
    BY DEF IInv, TypeOK, Waiting
  <2> QED
    BY <1>0, <2>1, AppendedSingle DEF IInv, Single
<1>4. (Waiting /\ Placed)'
  <2>1. pc = "settle" /\ ~closed
    BY DEF IInv, Record
  <2>2. \A i \in 1..Len(delivery) :
            /\ delivery[i] \in Requests => req[delivery[i]] = "emit"
            /\ delivery[i] # "drive"
            /\ target[delivery[i]] = current
    BY <2>1 DEF IInv, Waiting
  <2>3. Placed'
    BY <1>0 DEF Placed
  <2>4. CASE delivery' = delivery
    <3>1. UNCHANGED <<req, target, current>>
      OBVIOUS
    <3>2. \A i \in 1..Len(delivery') :
              /\ delivery'[i] \in Requests => req'[delivery'[i]] = "emit"
              /\ delivery'[i] # "drive"
              /\ target'[delivery'[i]] = current'
      BY <2>2, <2>4, <3>1
    <3> QED
      BY <2>3, <3>2 DEF Waiting
  <2>5. CASE delivery' = Append(delivery, "drive") /\ pc' = "told"
    <3> SUFFICES ASSUME NEW i \in 1..Len(delivery')
                 PROVE  /\ delivery'[i] \in Requests => req'[delivery'[i]] = "emit"
                        /\ delivery'[i] # "drive" => target'[delivery'[i]] = current'
      BY <2>3, <2>5 DEF Waiting
    <3>1. \/ i \in 1..Len(delivery) /\ delivery'[i] = delivery[i]
          \/ delivery'[i] = "drive"
      BY AppendedPlaces, <2>5 DEF IInv
    <3> QED
      BY <2>2, <3>1, DriveOwnershipAssumption
  <2> QED
    BY <1>0, <2>3, <2>4, <2>5
<1>5. (Sealed /\ Guarded)'
  BY DriveOwnershipAssumption
     DEF IInv, TypeOK, Record, Named, Admission, Sealed, Guarded
<1> QED
  BY <1>1, <1>2, <1>3, <1>4, <1>5 DEF IInv

LEMMA CompleteKeeps ==
  ASSUME IInv, Complete
  PROVE  IInv'
<1> USE DEF durableVars, laneVars, taskVars, requestVars, queueVars, Complete, End, Tell
<1>0. \/ pc' = "idle" /\ delivery' = delivery /\ busDown /\ busDown'
      \/ /\ pc' = "emit" /\ ~busDown'
         /\ delivery' = Append(delivery, "drive")
         /\ delivery' \in Seq(Requests \union {"drive"})
         /\ Len(delivery) \in Nat
         /\ Len(delivery') = Len(delivery) + 1
         /\ \A i \in 1..Len(delivery) : delivery'[i] = delivery[i]
         /\ delivery'[Len(delivery) + 1] = "drive"
  BY AppendedPlaces DEF IInv
<1>1. TypeOK'
  <2>1. current \in Ops
    BY DEF IInv, TypeOK, Record
  <2>2. result' \in [Ops -> {"none", "completed", "aborted"}]
    BY <2>1 DEF IInv, TypeOK
  <2>3. delivery' \in Seq(Requests \union {"drive"})
    BY DEF IInv, TypeOK
  <2> QED
    BY <2>2, <2>3 DEF IInv, TypeOK
<1>2. (Record /\ Named)'
  BY DriveOwnershipAssumption DEF IInv, TypeOK, Record, Named, Single, Waiting, Placed
<1>3. Admission'
  BY DriveOwnershipAssumption DEF IInv, TypeOK, Record, Named, Admission
<1>4. Scoped'
  BY DriveOwnershipAssumption DEF IInv, TypeOK, Record, Named, Admission, Scoped, Single, Waiting, Placed
<1>5. Single'
  <2>1. \A i \in 1..Len(delivery) : delivery[i] # "drive"
    BY DEF IInv, TypeOK, Waiting
  <2> QED
    BY <1>0, <2>1, AppendedSingle DEF IInv, Single
<1>6. Waiting' /\ Placed'
  <2>1. /\ pc # "emit" /\ pc # "told" /\ ~closed
        /\ current = driveOp /\ result[current] = "none"
        /\ UNCHANGED <<req, target, driveOp>>
    BY DriveOwnershipAssumption DEF IInv, Record
  <2>2. \A i \in 1..Len(delivery) :
            /\ delivery[i] \in Requests => req[delivery[i]] = "emit"
            /\ delivery[i] # "drive"
            /\ target[delivery[i]] = current
    BY <2>1 DEF IInv, Waiting
  <2>3. CASE pc' = "idle" /\ delivery' = delivery
    <3>1. delivery = <<>>
      <4>1. busDown
        BY <1>0, <2>3
      <4> QED
        BY <4>1 DEF IInv, Single
    <3> QED
      BY <2>3, <3>1 DEF Waiting, Placed
  <2>4. CASE delivery' = Append(delivery, "drive") /\ pc' = "emit"
    <3>1. Waiting'
      <4> SUFFICES ASSUME NEW i \in 1..Len(delivery')
                   PROVE  delivery'[i] \in Requests => req'[delivery'[i]] = "emit"
        BY <2>4 DEF Waiting
      <4>1. \/ i \in 1..Len(delivery) /\ delivery'[i] = delivery[i]
            \/ delivery'[i] = "drive"
        BY AppendedPlaces, <2>4 DEF IInv
      <4> QED
        BY <2>1, <2>2, <4>1, DriveOwnershipAssumption
    <3>2. Placed'
      <4>1. /\ Len(delivery) \in Nat
            /\ Len(delivery') = Len(delivery) + 1
            /\ \A i \in 1..Len(delivery) : delivery'[i] = delivery[i]
            /\ delivery'[Len(delivery) + 1] = "drive"
        BY AppendedPlaces, <2>4 DEF IInv
      <4>2. \A i \in 1..(Len(delivery) + 1 - 1) : target'[delivery'[i]] = driveOp'
        BY <2>1, <2>2, <4>1
      <4>3. (Len(delivery) + 1 + 1)..Len(delivery') = {}
        BY <4>1
      <4>4. Len(delivery) + 1 \in 1..Len(delivery')
        BY <4>1
      <4> QED
        BY <4>1, <4>2, <4>3, <4>4 DEF Placed
    <3> QED
      BY <3>1, <3>2
  <2> QED
    BY <1>0, <2>3, <2>4
<1>8. (Sealed /\ Guarded)'
  BY DriveOwnershipAssumption DEF IInv, TypeOK, Record, Named, Admission, Sealed, Guarded
<1> QED
  BY <1>1, <1>2, <1>3, <1>4, <1>5, <1>6, <1>8 DEF IInv

LEMMA ReturnWaitingKeeps ==
  ASSUME IInv, ReturnWaiting
  PROVE  IInv'
<1> USE DEF durableVars, laneVars, taskVars, requestVars, queueVars, ReturnWaiting, Move
<1>1. TypeOK'
  BY DriveOwnershipAssumption DEF IInv, TypeOK, Record, Named
<1>2. (Record /\ Named /\ Admission /\ Scoped)'
  BY DriveOwnershipAssumption
     DEF IInv, TypeOK, Record, Named, Admission, Scoped
<1>3. (Single /\ Waiting /\ Placed)'
  BY DriveOwnershipAssumption
     DEF IInv, TypeOK, Record, Named, Single, Waiting, Placed
<1>4. (Sealed /\ Guarded)'
  BY DriveOwnershipAssumption
     DEF IInv, TypeOK, Record, Named, Admission, Sealed, Guarded
<1> QED
  BY <1>1, <1>2, <1>3, <1>4 DEF IInv

LEMMA AbortSettlesKeeps ==
  ASSUME IInv, AbortSettles
  PROVE  IInv'
<1> USE DEF durableVars, laneVars, taskVars, requestVars, queueVars, AbortSettles, Move, IsSettled
<1>1. TypeOK'
  BY DriveOwnershipAssumption DEF IInv, TypeOK, Record, Named
<1>2. (Record /\ Named /\ Admission /\ Scoped)'
  BY DriveOwnershipAssumption
     DEF IInv, TypeOK, Record, Named, Admission, Scoped
<1>3. (Single /\ Waiting /\ Placed)'
  BY DriveOwnershipAssumption
     DEF IInv, TypeOK, Record, Named, Single, Waiting, Placed
<1>4. (Sealed /\ Guarded)'
  BY DriveOwnershipAssumption
     DEF IInv, TypeOK, Record, Named, Admission, Sealed, Guarded
<1> QED
  BY <1>1, <1>2, <1>3, <1>4 DEF IInv

LEMMA ReconcileKeeps ==
  ASSUME IInv, Reconcile
  PROVE  IInv'
<1> USE DEF durableVars, laneVars, taskVars, requestVars, queueVars, Reconcile, End, Tell, Reconcilable
<1>0. \/ pc' = "idle" /\ delivery' = delivery /\ busDown /\ busDown'
      \/ /\ pc' = "emit" /\ ~busDown'
         /\ delivery' = Append(delivery, "drive")
         /\ delivery' \in Seq(Requests \union {"drive"})
         /\ Len(delivery) \in Nat
         /\ Len(delivery') = Len(delivery) + 1
         /\ \A i \in 1..Len(delivery) : delivery'[i] = delivery[i]
         /\ delivery'[Len(delivery) + 1] = "drive"
  BY AppendedPlaces DEF IInv
<1>1. TypeOK'
  <2>1. current \in Ops
    BY DEF IInv, TypeOK, Record
  <2>2. result' \in [Ops -> {"none", "completed", "aborted"}]
    BY <2>1 DEF IInv, TypeOK
  <2>3. delivery' \in Seq(Requests \union {"drive"})
    BY DEF IInv, TypeOK
  <2> QED
    BY <2>2, <2>3 DEF IInv, TypeOK
<1>2. (Record /\ Named)'
  BY DriveOwnershipAssumption DEF IInv, TypeOK, Record, Named, Single, Waiting, Placed
<1>3. Admission'
  BY DriveOwnershipAssumption DEF IInv, TypeOK, Record, Named, Admission
<1>4. Scoped'
  BY DriveOwnershipAssumption DEF IInv, TypeOK, Record, Named, Admission, Scoped, Single, Waiting, Placed
<1>5. Single'
  <2>1. \A i \in 1..Len(delivery) : delivery[i] # "drive"
    BY DEF IInv, TypeOK, Waiting
  <2> QED
    BY <1>0, <2>1, AppendedSingle DEF IInv, Single
<1>6. Waiting' /\ Placed'
  <2>1. /\ pc # "emit" /\ pc # "told" /\ ~closed
        /\ current = driveOp /\ result[current] = "none"
        /\ UNCHANGED <<req, target, driveOp>>
    BY DriveOwnershipAssumption DEF IInv, Record
  <2>2. \A i \in 1..Len(delivery) :
            /\ delivery[i] \in Requests => req[delivery[i]] = "emit"
            /\ delivery[i] # "drive"
            /\ target[delivery[i]] = current
    BY <2>1 DEF IInv, Waiting
  <2>3. CASE pc' = "idle" /\ delivery' = delivery
    <3>1. delivery = <<>>
      <4>1. busDown
        BY <1>0, <2>3
      <4> QED
        BY <4>1 DEF IInv, Single
    <3> QED
      BY <2>3, <3>1 DEF Waiting, Placed
  <2>4. CASE delivery' = Append(delivery, "drive") /\ pc' = "emit"
    <3>1. Waiting'
      <4> SUFFICES ASSUME NEW i \in 1..Len(delivery')
                   PROVE  delivery'[i] \in Requests => req'[delivery'[i]] = "emit"
        BY <2>4 DEF Waiting
      <4>1. \/ i \in 1..Len(delivery) /\ delivery'[i] = delivery[i]
            \/ delivery'[i] = "drive"
        BY AppendedPlaces, <2>4 DEF IInv
      <4> QED
        BY <2>1, <2>2, <4>1, DriveOwnershipAssumption
    <3>2. Placed'
      <4>1. /\ Len(delivery) \in Nat
            /\ Len(delivery') = Len(delivery) + 1
            /\ \A i \in 1..Len(delivery) : delivery'[i] = delivery[i]
            /\ delivery'[Len(delivery) + 1] = "drive"
        BY AppendedPlaces, <2>4 DEF IInv
      <4>2. \A i \in 1..(Len(delivery) + 1 - 1) : target'[delivery'[i]] = driveOp'
        BY <2>1, <2>2, <4>1
      <4>3. (Len(delivery) + 1 + 1)..Len(delivery') = {}
        BY <4>1
      <4>4. Len(delivery) + 1 \in 1..Len(delivery')
        BY <4>1
      <4> QED
        BY <4>1, <4>2, <4>3, <4>4 DEF Placed
    <3> QED
      BY <3>1, <3>2
  <2> QED
    BY <1>0, <2>3, <2>4
<1>8. (Sealed /\ Guarded)'
  BY DriveOwnershipAssumption DEF IInv, TypeOK, Record, Named, Admission, Sealed, Guarded
<1> QED
  BY <1>1, <1>2, <1>3, <1>4, <1>5, <1>6, <1>8 DEF IInv

LEMMA FailDriveKeeps ==
  ASSUME IInv, FailDrive
  PROVE  IInv'
<1> USE DEF durableVars, laneVars, taskVars, requestVars, queueVars, FailDrive, Fault, Signal
<1>1. TypeOK'
  BY DriveOwnershipAssumption DEF IInv, TypeOK, Record, Named
<1>2. (Record /\ Named /\ Admission /\ Scoped)'
  BY DriveOwnershipAssumption
     DEF IInv, TypeOK, Record, Named, Admission, Scoped
<1>3. (Single /\ Waiting /\ Placed)'
  BY DriveOwnershipAssumption
     DEF IInv, TypeOK, Record, Named, Single, Waiting, Placed
<1>4. (Sealed /\ Guarded)'
  BY DriveOwnershipAssumption
     DEF IInv, TypeOK, Record, Named, Admission, Sealed, Guarded
<1> QED
  BY <1>1, <1>2, <1>3, <1>4 DEF IInv

LEMMA FinishDriveKeeps ==
  ASSUME IInv, FinishDrive
  PROVE  IInv'
<1> USE DEF durableVars, laneVars, taskVars, requestVars, queueVars, FinishDrive, Delivered
<1>1. TypeOK'
  BY DriveOwnershipAssumption DEF IInv, TypeOK, Record, Named
<1>2. (Record /\ Named)'
  BY DriveOwnershipAssumption DEF IInv, TypeOK, Record, Named, Single, Waiting, Placed
<1>3. Admission'
  BY DriveOwnershipAssumption DEF IInv, TypeOK, Record, Named, Admission
<1>4. Scoped'
  BY DriveOwnershipAssumption DEF IInv, TypeOK, Record, Named, Admission, Scoped, Single, Waiting, Placed
<1>5. Single'
  BY DriveOwnershipAssumption DEF IInv, TypeOK, Record, Named, Single
<1>6. Waiting'
  <2>1. /\ delivery \in Seq(Requests \union {"drive"})
        /\ delivery # <<>> /\ delivery[1] = "drive"
    BY DEF IInv, TypeOK
  <2>2. /\ Len(delivery') = Len(delivery) - 1
        /\ \A i \in 1..Len(delivery') : delivery'[i] = delivery[i + 1]
    BY <2>1
  <2>3. \A i \in 2..Len(delivery) :
            delivery[i] # "drive" /\ target[delivery[i]] = current
    <3>1. \A i \in 2..Len(delivery) : delivery[i] # "drive"
      BY <2>1 DEF IInv, Single
    <3>2. CASE pc = "emit"
      BY <2>1, <3>1, <3>2 DEF IInv, Single, Placed
    <3>3. CASE pc = "told"
      BY <2>1, <3>1, <3>3 DEF IInv, Record, Waiting
    <3> QED
      BY <3>1, <3>2, <3>3
  <2> QED
    BY <2>1, <2>2, <2>3 DEF IInv, Waiting
<1>7. Placed'
  BY DriveOwnershipAssumption DEF IInv, TypeOK, Record, Named, Single, Waiting, Placed
<1>8. (Sealed /\ Guarded)'
  BY DriveOwnershipAssumption DEF IInv, TypeOK, Record, Named, Admission, Sealed, Guarded
<1> QED
  BY <1>1, <1>2, <1>3, <1>4, <1>5, <1>6, <1>7, <1>8 DEF IInv

LEMMA CloseKeeps ==
  ASSUME IInv, Close
  PROVE  IInv'
<1> USE DEF durableVars, laneVars, taskVars, requestVars, queueVars, Close
<1>1. CASE BreakBus({})
  <2>1. /\ delivery' \in Seq(Requests \union {"drive"})
        /\ pc' \in DrivePoints /\ pc' \notin Telling
        /\ pc' = pc \/ pc' = "idle"
        /\ pc' = "idle" => pc \in {"idle", "told", "emit"}
        /\ req' \in [Requests -> {"idle", "line", "emit", "done", "gone"}]
        /\ \A x \in Requests :
               req'[x] = req[x] \/ (req'[x] = "gone" /\ req[x] # "idle")
        /\ (Single /\ Waiting /\ Placed)'
    BY <1>1, BrokenQueue, Zenon
  <2>2. busDown' \in BOOLEAN
    BY <1>1 DEF BreakBus
  <2>3. TypeOK'
    BY <2>1, <2>2, DriveOwnershipAssumption DEF IInv, TypeOK, Named
  <2>4. (Record /\ Named)'
    BY <2>1, DriveOwnershipAssumption DEF IInv, TypeOK, Record, Named
  <2>5. (Admission /\ Scoped)'
    BY <2>1, DriveOwnershipAssumption
       DEF IInv, TypeOK, Record, Named, Admission, Scoped
  <2>6. (Sealed /\ Guarded)'
    BY <2>1, DriveOwnershipAssumption
       DEF IInv, TypeOK, Record, Named, Admission, Sealed, Guarded
  <2> QED
    BY <2>1, <2>3, <2>4, <2>5, <2>6 DEF IInv
<1>2. CASE pc \notin Telling /\ pc' = "idle" /\ UNCHANGED <<queueVars, req>>
    <2>1. TypeOK'
    BY <1>2, DriveOwnershipAssumption DEF IInv, TypeOK, Record, Named
  <2>2. (Record /\ Named /\ Admission /\ Scoped)'
    BY <1>2, DriveOwnershipAssumption
       DEF IInv, TypeOK, Record, Named, Admission, Scoped
  <2>3. (Single /\ Waiting /\ Placed)'
    BY <1>2, DriveOwnershipAssumption
       DEF IInv, TypeOK, Record, Named, Single, Waiting, Placed
  <2>4. (Sealed /\ Guarded)'
    BY <1>2, DriveOwnershipAssumption
       DEF IInv, TypeOK, Record, Named, Admission, Sealed, Guarded
  <2> QED
    BY <2>1, <2>2, <2>3, <2>4 DEF IInv
<1> QED
  BY <1>1, <1>2

-----------------------------------------------------------------------------

(* Every step of a caller, a request or the owner task keeps what the      *)
(* lane, the line and the Session know of one another.                     *)
THEOREM DriveInvariant == Spec => []IInv
<1>1. Init => IInv
  BY InitInvariant
<1>2. IInv /\ [Next]_vars => IInv'
  <2> SUFFICES ASSUME IInv, [Next]_vars
               PROVE  IInv'
    OBVIOUS
  <2>1. ASSUME NEW o \in Ops, Accept(o) \/ Drive(o)
        PROVE  IInv'
    BY <2>1, AcceptKeeps, DriveKeeps
  <2>2. ASSUME NEW r \in Requests, NEW o \in Ops, RequestAbort(r, o)
        PROVE  IInv'
    BY <2>2, RequestAbortKeeps
  <2>3. ASSUME NEW r \in Requests,
               RequestStep(r) \/ FailRequest(r) \/ CancelCaller(r)
        PROVE  IInv'
    BY <2>3, CommitMarkerKeeps, FindMarkerKeeps, FinishRequestKeeps,
       FailRequestKeeps, CancelCallerKeeps DEF RequestStep
  <2>4. CASE DriveStep
    BY <2>4, BeginKeeps, CheckKeeps, InterruptedKeeps, PublishIntentKeeps,
       AdmitEffectKeeps, SettleKeeps, CompleteKeeps, ReturnWaitingKeeps,
       AbortSettlesKeeps, ReconcileKeeps, FinishDriveKeeps DEF DriveStep
  <2>5. CASE Answer \/ FailDrive \/ CancelOther \/ Close
    BY <2>5, AnswerKeeps, FailDriveKeeps, CancelOtherKeeps, CloseKeeps
  <2>6. CASE UNCHANGED vars
    BY <2>6, StutterInvariant
  <2> QED
    BY <2>1, <2>2, <2>3, <2>4, <2>5, <2>6 DEF Next
<1> QED
  BY <1>1, <1>2, PTL DEF Spec

(* Drive and abort, request_abort and drive of AgentLane: an abort signal  *)
(* reaches only the execution its request names, has reached a running     *)
(* effect by the time the request returns, and what is reconciled after it *)
(* is still open and marked.                                               *)
THEOREM SignalsReach == Spec => []AbortReaches
<1>1. IInv => AbortReaches
  BY DriveOwnershipAssumption, SMTT(30)
     DEF IInv, TypeOK, Record, Admission, Scoped, Sealed, AbortReaches,
         AbortFenced, SignalReachesEffect, ReconcilesMarked, Reconcilable
<1> QED
  BY <1>1, DriveInvariant, PTL

(* admit_effect: whatever the order of the request, the drive and their    *)
(* waits for the line, no effect starts under a committed marker.          *)
THEOREM MarkerStopsEffects == Spec => NoEffectUnderMarker
<1>1. IInv /\ [Next]_vars => [effects' # effects => ~marked]_vars
  <2> SUFFICES ASSUME IInv, Next, effects' # effects
               PROVE  ~marked
    BY DEF vars
  <2>1. AdmitEffect
    BY DEF Next, Accept, Drive, RequestAbort, RequestStep, CommitMarker,
           FindMarker, FinishRequest, FailRequest, CancelCaller, DriveStep,
           Begin, Check, Interrupted, PublishIntent, Settle, Complete, End,
           ReturnWaiting, AbortSettles, Reconcile, FinishDrive, Answer,
           FailDrive, CancelOther, Close, Move, Fault, laneVars
  <2> QED
    BY <2>1 DEF AdmitEffect, AdmissionClosed, IInv, Guarded
<1> QED
  BY <1>1, DriveInvariant, PTL DEF Spec, NoEffectUnderMarker

(* Whoever drives, aborts or closes, and whatever fails or is cancelled:   *)
(* at most one operation is open, its marker stays, and its one result is  *)
(* never revised.                                                          *)
THEOREM DriveImplements == Spec => ImplementsOperation
<1>1. Init => Operation!Init
  BY DEF Init, Operation!Init
<1>2. IInv /\ [Next]_vars => [Operation!Next]_(Operation!opVars)
  <2> SUFFICES ASSUME IInv, [Next]_vars
               PROVE  Operation!Next \/ UNCHANGED Operation!opVars
    OBVIOUS
  <2> USE DEF durableVars, Operation!opVars
  <2>1. ASSUME NEW o \in Ops, Accept(o)
        PROVE  Operation!Next
    BY <2>1 DEF Accept, Operation!Next, Operation!Accept
  <2>2. ASSUME NEW r \in Requests, CommitMarker(r) \/ CancelCaller(r)
        PROVE  Operation!Next \/ UNCHANGED Operation!opVars
    <3>1. CASE UNCHANGED marked
      BY <2>2, <3>1 DEF CommitMarker, CancelCaller
    <3>2. CASE ~marked /\ marked' /\ current = target[r] /\ req[r] = "line"
      <4>1. current # None
        BY <3>2, DriveOwnershipAssumption DEF IInv, Named
      <4> QED
        BY <2>2, <3>2, <4>1
           DEF CommitMarker, CancelCaller, Operation!Next,
               Operation!RequestAbort
    <3>3. CASE marked /\ marked'
      BY <2>2, <3>3 DEF CommitMarker, CancelCaller, IInv, TypeOK
    <3> QED
      BY <2>2, <3>1, <3>2, <3>3 DEF CommitMarker, CancelCaller, IInv, TypeOK
  <2>3. ASSUME Complete \/ Reconcile
        PROVE  Operation!Next
    <3>1. current # None
      BY <2>3, DriveOwnershipAssumption
         DEF Complete, Reconcile, Reconcilable, IInv, Record
    <3>2. PICK status \in {"completed", "aborted"} :
              End(status) /\ (status = "aborted" => marked)
      BY <2>3 DEF Complete, Reconcile, Reconcilable
    <3> QED
      BY <3>1, <3>2 DEF End, Operation!Next, Operation!Settle,
                        Operation!Statuses
  <2>4. CASE UNCHANGED Operation!opVars
    BY <2>4
  <2> QED
    BY <2>1, <2>2, <2>3, <2>4
       DEF Next, Drive, RequestAbort, RequestStep, FindMarker, FinishRequest,
           FailRequest, DriveStep, Begin, Check, Interrupted, PublishIntent,
           AdmitEffect, Settle, ReturnWaiting, AbortSettles, FinishDrive,
           Answer, FailDrive, CancelOther, Close, Move, vars
<1> QED
  BY <1>1, <1>2, DriveInvariant, PTL
     DEF Spec, ImplementsOperation, Operation!Spec

-----------------------------------------------------------------------------
(* The event bus                                                           *)

(* The invariant                                                           *)

Told == ToSet(got)
Queued == {x.event : x \in ToSet(queue)}
Buffered == {x.event : x \in ToSet(buffer)}
HeldBack == ToSet(held)
Coming == (ToSet(chain) \union {unqueued}) \ {Barrier}

(* The events in the queue and the buffer that a resnapshot has not        *)
(* outdated.                                                               *)
Lively == {x.event : x \in {y \in ToSet(queue) \union ToSet(buffer) :
                                y.epoch = epoch}}

Below(low, high) == \A a \in low, b \in high : a < b

Ascends(s) == \A i, j \in DOMAIN s : i < j => s[i] < s[j]
PushesAscend(s) == \A i, j \in DOMAIN s : i < j => s[i].event < s[j].event
EventsAscend(s) ==
    \A i, j \in DOMAIN s :
        i < j /\ s[i] # Barrier /\ s[j] # Barrier => s[i] < s[j]

(* A broken chain stays empty; a resnapshot has a phase as long as it      *)
(* waits; a watch without its first snapshot is new, and one that is not   *)
(* started has queued nothing for its listener.                            *)
LinkInv ==
    /\ broken => chain = <<>>
    /\ phase # "none" <=> capture \in {"line", "boundary"}
    /\ capture = "first" => state = "buffering" /\ epoch = 0
    /\ state = "buffering" => queue = <<>>
    /\ state = "none" =>
        /\ capture = "none" /\ epoch = 0 /\ base = -1
        /\ got = <<>> /\ queue = <<>> /\ buffer = <<>>
    /\ Told \union Queued \union Buffered \union HeldBack \union Coming
            \subseteq 1..version

(* What a listener was told is older than what is queued for it, and so    *)
(* on back to the commits.                                                 *)
OrderInv ==
    /\ Ascends(got) /\ Ascends(held)
    /\ PushesAscend(queue) /\ PushesAscend(buffer)
    /\ EventsAscend(chain)
    /\ unqueued # 0 => \A e \in ToSet(chain) : e < unqueued
    /\ Below(Told, Queued \union Buffered \union HeldBack \union Coming)
    /\ Below(Queued, Buffered \union HeldBack \union Coming)
    /\ Below(Buffered, HeldBack \union Coming)
    /\ Below(HeldBack, Coming)

(* A resnapshot outdates what was pushed before it, and nothing is pushed  *)
(* past it.                                                                *)
EpochInv ==
    \A x \in ToSet(queue) \union ToSet(buffer) :
        x.epoch <= epoch /\ (phase # "none" => x.epoch # epoch)

(* The one barrier in the chain is that of the resnapshot that waits for   *)
(* it: events before it are covered by the snapshot, those after it are    *)
(* not older than the snapshot's last commit.                              *)
BoundaryAwaited == capture = "boundary" /\ phase = "dropping" /\ ~broken

BarrierAt(p) ==
    /\ chain[p] = Barrier
    /\ \A i \in 1..Len(chain) : i # p => chain[i] # Barrier
    /\ \A i \in 1..Len(chain) : i < p => chain[i] <= fresh
    /\ \A i \in 1..Len(chain) : i > p => chain[i] >= fresh

BarrierInv ==
    ~torn =>
        /\ capture = "line" => phase = "dropping"
        /\ BoundaryAwaited => \E p \in 1..Len(chain) : BarrierAt(p)
        /\ ~BoundaryAwaited => Barrier \notin ToSet(chain)

(* Where an event is that the snapshot the watcher has, or waits for, does  *)
(* not cover.                                                              *)
CoverInv ==
    ~broken /\ ~torn => \A v \in 1..version :
        /\ capture = "none" /\ state \in {"buffering", "started"} =>
            v <= base \/ v \in Told \union Lively \union Coming
        /\ capture = "boundary" /\ state # "unsubscribed" =>
            v <= fresh \/ v \in HeldBack \union Coming

(* Nothing older than the snapshot's last commit is on its way.            *)
OverlapInv ==
    ~torn =>
        /\ epoch > 0 /\ capture = "none" =>
            \A e \in Told \union Lively \union Coming : e >= base
        /\ capture = "boundary" =>
            /\ unqueued # 0 => unqueued >= fresh
            /\ \A e \in HeldBack : e >= fresh
            /\ phase = "holding" => \A e \in Coming : e >= fresh

BusInv ==
    BusTypeOK /\ LinkInv /\ OrderInv /\ EpochInv /\ BarrierInv /\ CoverInv
    /\ OverlapInv

-----------------------------------------------------------------------------
(* Sequences and the sets of their elements                                *)

LEMMA AppendedSet ==
    ASSUME NEW S, NEW s \in Seq(S), NEW x \in S
    PROVE  /\ Append(s, x) \in Seq(S)
           /\ ToSet(Append(s, x)) = ToSet(s) \union {x}
  <1>1. /\ Append(s, x) \in Seq(S)
        /\ DOMAIN s = 1..Len(s) /\ Len(s) \in Nat
        /\ DOMAIN Append(s, x) = 1..Len(s) + 1
        /\ \A i \in 1..Len(s) : Append(s, x)[i] = s[i]
        /\ Append(s, x)[Len(s) + 1] = x
    BY LenProperties, AppendProperties
  <1>2. DOMAIN Append(s, x) = DOMAIN s \union {Len(s) + 1}
    BY <1>1
  <1> QED
    BY <1>1, <1>2 DEF ToSet

LEMMA TailSet ==
    ASSUME NEW S, NEW s \in Seq(S), s # <<>>
    PROVE  /\ Tail(s) \in Seq(S) /\ Head(s) \in S
           /\ ToSet(s) = {Head(s)} \union ToSet(Tail(s))
           /\ Len(Tail(s)) = Len(s) - 1 /\ Len(s) > 0
           /\ Head(s) = s[1]
           /\ \A i \in 1..Len(s) - 1 : Tail(s)[i] = s[i + 1]
  <1>1. /\ Tail(s) \in Seq(S) /\ Head(s) \in S /\ Head(s) = s[1]
        /\ DOMAIN s = 1..Len(s) /\ Len(s) \in Nat /\ Len(s) > 0
        /\ Len(Tail(s)) = Len(s) - 1
        /\ DOMAIN Tail(s) = 1..Len(s) - 1
        /\ \A i \in 1..Len(s) - 1 : Tail(s)[i] = s[i + 1]
    BY LenProperties, HeadTailProperties, EmptySeq
  <1>2. ToSet(Tail(s)) \subseteq ToSet(s) /\ Head(s) \in ToSet(s)
    BY <1>1 DEF ToSet
  <1>3. ASSUME NEW x \in ToSet(s), x # Head(s) PROVE x \in ToSet(Tail(s))
    <2>1. PICK i \in 1..Len(s) : s[i] = x
      BY <1>1, <1>3 DEF ToSet
    <2>2. i - 1 \in 1..Len(s) - 1 /\ Tail(s)[i - 1] = x
      BY <1>1, <1>3, <2>1
    <2> QED
      BY <1>1, <2>2 DEF ToSet
  <1> QED
    BY <1>1, <1>2, <1>3

LEMMA JoinedSet ==
    ASSUME NEW S, NEW s \in Seq(S), NEW t \in Seq(S)
    PROVE  /\ s \o t \in Seq(S)
           /\ ToSet(s \o t) = ToSet(s) \union ToSet(t)
  <1>1. /\ s \o t \in Seq(S)
        /\ DOMAIN s = 1..Len(s) /\ Len(s) \in Nat
        /\ DOMAIN t = 1..Len(t) /\ Len(t) \in Nat
        /\ DOMAIN (s \o t) = 1..Len(s) + Len(t)
        /\ \A i \in 1..Len(s) + Len(t) :
                (s \o t)[i] = IF i <= Len(s) THEN s[i] ELSE t[i - Len(s)]
    BY LenProperties, ConcatProperties
  <1>2. ToSet(s \o t) \subseteq ToSet(s) \union ToSet(t)
    BY <1>1 DEF ToSet
  <1>3. ToSet(s) \subseteq ToSet(s \o t)
    BY <1>1 DEF ToSet
  <1>4. ASSUME NEW x \in ToSet(t) PROVE x \in ToSet(s \o t)
    <2>1. PICK i \in 1..Len(t) : t[i] = x
      BY <1>1 DEF ToSet
    <2>2. Len(s) + i \in 1..Len(s) + Len(t) /\ (s \o t)[Len(s) + i] = x
      BY <1>1, <2>1
    <2> QED
      BY <1>1, <2>2 DEF ToSet
  <1> QED
    BY <1>1, <1>2, <1>3, <1>4

LEMMA EmptySet == ToSet(<<>>) = {}
  BY DEF ToSet

(* An order of a sequence goes on when what is appended is newer, and the  *)
(* head comes before the rest.                                             *)
LEMMA AppendAscends ==
    ASSUME NEW s \in Seq(Int), NEW x \in Int
    PROVE  /\ Ascends(s) /\ (\A e \in ToSet(s) : e < x)
                => Ascends(Append(s, x))
           /\ EventsAscend(s) /\ (\A e \in ToSet(s) : e < x \/ x = Barrier)
                => EventsAscend(Append(s, x))
  <1>1. /\ DOMAIN s = 1..Len(s) /\ Len(s) \in Nat
        /\ \A i \in 1..Len(s) : s[i] \in Int /\ s[i] \in ToSet(s)
        /\ DOMAIN Append(s, x) = 1..Len(s) + 1
        /\ \A i \in 1..Len(s) : Append(s, x)[i] = s[i]
        /\ Append(s, x)[Len(s) + 1] = x
    BY LenProperties, AppendProperties DEF ToSet
  <1>2. \A i, j \in DOMAIN Append(s, x) : i < j =>
            i \in 1..Len(s) /\ (j \in 1..Len(s) \/ j = Len(s) + 1)
    BY <1>1
  <1> QED
    BY <1>1, <1>2 DEF Ascends, EventsAscend

LEMMA TailAscends ==
    ASSUME NEW s \in Seq(Int), s # <<>>
    PROVE  /\ Ascends(s) =>
                /\ Ascends(Tail(s))
                /\ \A e \in ToSet(Tail(s)) : Head(s) < e
           /\ EventsAscend(s) =>
                /\ EventsAscend(Tail(s))
                /\ \A e \in ToSet(Tail(s)) :
                        Head(s) # Barrier /\ e # Barrier => Head(s) < e
  <1>1. /\ DOMAIN s = 1..Len(s) /\ Len(s) \in Nat /\ Len(s) > 0
        /\ \A i \in 1..Len(s) : s[i] \in Int
        /\ DOMAIN Tail(s) = 1..Len(s) - 1 /\ Head(s) = s[1]
        /\ \A i \in 1..Len(s) - 1 : Tail(s)[i] = s[i + 1]
    BY TailSet, LenProperties
  <1>2. \A e \in ToSet(Tail(s)) : \E i \in 1..Len(s) : i > 1 /\ e = s[i]
    BY <1>1 DEF ToSet
  <1>3. \A i, j \in 1..Len(s) - 1 :
            i < j => i + 1 \in 1..Len(s) /\ j + 1 \in 1..Len(s) /\ i + 1 < j + 1
    BY <1>1
  <1>4. Ascends(s) => Ascends(Tail(s))
    BY <1>1, <1>3 DEF Ascends
  <1>5. EventsAscend(s) => EventsAscend(Tail(s))
    BY <1>1, <1>3 DEF EventsAscend
  <1>6. ASSUME NEW i \in 1..Len(s), i > 1
        PROVE  /\ Ascends(s) => s[1] < s[i]
               /\ EventsAscend(s) /\ s[1] # Barrier /\ s[i] # Barrier
                    => s[1] < s[i]
    BY <1>1, <1>6 DEF Ascends, EventsAscend
  <1> QED
    BY <1>1, <1>2, <1>4, <1>5, <1>6

LEMMA AppendPush ==
    ASSUME NEW s \in Seq(Pushed), NEW x \in Pushed, PushesAscend(s),
           \A y \in ToSet(s) : y.event < x.event
    PROVE  PushesAscend(Append(s, x))
  <1>1. /\ DOMAIN s = 1..Len(s) /\ Len(s) \in Nat
        /\ \A i \in 1..Len(s) : s[i] \in ToSet(s)
        /\ DOMAIN Append(s, x) = 1..Len(s) + 1
        /\ \A i \in 1..Len(s) : Append(s, x)[i] = s[i]
        /\ Append(s, x)[Len(s) + 1] = x
    BY LenProperties, AppendProperties DEF ToSet
  <1>2. \A i, j \in DOMAIN Append(s, x) : i < j =>
            i \in 1..Len(s) /\ (j \in 1..Len(s) \/ j = Len(s) + 1)
    BY <1>1
  <1> QED
    BY <1>1, <1>2 DEF PushesAscend

LEMMA TailPush ==
    ASSUME NEW s \in Seq(Pushed), s # <<>>, PushesAscend(s)
    PROVE  /\ PushesAscend(Tail(s))
           /\ \A x \in ToSet(Tail(s)) : Head(s).event < x.event
  <1>1. /\ DOMAIN s = 1..Len(s) /\ Len(s) \in Nat /\ Len(s) > 0
        /\ DOMAIN Tail(s) = 1..Len(s) - 1 /\ Head(s) = s[1]
        /\ \A i \in 1..Len(s) - 1 : Tail(s)[i] = s[i + 1]
    BY TailSet, LenProperties
  <1>2. \A e \in ToSet(Tail(s)) : \E i \in 1..Len(s) : i > 1 /\ e = s[i]
    BY <1>1 DEF ToSet
  <1>3. \A i, j \in 1..Len(s) - 1 :
            i < j => i + 1 \in 1..Len(s) /\ j + 1 \in 1..Len(s) /\ i + 1 < j + 1
    BY <1>1
  <1> QED
    BY <1>1, <1>2, <1>3 DEF PushesAscend

LEMMA JoinPush ==
    ASSUME NEW s \in Seq(Pushed), NEW t \in Seq(Pushed),
           PushesAscend(s), PushesAscend(t),
           \A x \in ToSet(s), y \in ToSet(t) : x.event < y.event
    PROVE  PushesAscend(s \o t)
  <1>1. /\ DOMAIN s = 1..Len(s) /\ Len(s) \in Nat
        /\ DOMAIN t = 1..Len(t) /\ Len(t) \in Nat
        /\ DOMAIN (s \o t) = 1..Len(s) + Len(t)
        /\ \A i \in 1..Len(s) + Len(t) :
                (s \o t)[i] = IF i <= Len(s) THEN s[i] ELSE t[i - Len(s)]
    BY LenProperties, ConcatProperties
  <1>2. ASSUME NEW i \in 1..Len(s) + Len(t), NEW j \in 1..Len(s) + Len(t), i < j
        PROVE  (s \o t)[i].event < (s \o t)[j].event
    <2>1. CASE j <= Len(s)
      BY <1>1, <1>2, <2>1 DEF PushesAscend
    <2>2. CASE i > Len(s)
      <3>1. i - Len(s) \in 1..Len(t) /\ j - Len(s) \in 1..Len(t)
        BY <1>1, <1>2, <2>2
      <3> QED
        BY <1>1, <1>2, <2>2, <3>1 DEF PushesAscend
    <2>3. CASE i <= Len(s) /\ j > Len(s)
      <3>1. i \in 1..Len(s) /\ j - Len(s) \in 1..Len(t)
        BY <1>1, <1>2, <2>3
      <3>2. s[i] \in ToSet(s) /\ t[j - Len(s)] \in ToSet(t)
        BY <1>1, <3>1 DEF ToSet
      <3> QED
        BY <1>1, <1>2, <2>3, <3>2
    <2> QED
      BY <1>1, <1>2, <2>1, <2>2, <2>3
  <1> QED
    BY <1>1, <1>2 DEF PushesAscend

-----------------------------------------------------------------------------
(* The steps                                                               *)

(* What the types say of the places an event can be in.                    *)
LEMMA PlacesTyped ==
    ASSUME BusTypeOK
    PROVE  /\ MaxCommits \in Nat /\ MaxSnapshots \in Nat
           /\ version \in Nat /\ Commits \subseteq Int /\ 1..version \subseteq Commits
           /\ unqueued \in Int /\ fresh \in Int /\ base \in Int /\ epoch \in Int
           /\ got \in Seq(Int) /\ held \in Seq(Int) /\ chain \in Seq(Int)
           /\ Told \subseteq Commits /\ HeldBack \subseteq Commits
           /\ ToSet(chain) \subseteq Commits \union {Barrier}
           /\ ToSet(queue) \subseteq Pushed /\ ToSet(buffer) \subseteq Pushed
  <1>1. \A S : \A s \in Seq(S) : ToSet(s) \subseteq S
    BY LenProperties DEF ToSet
  <1>2. /\ MaxCommits \in Nat /\ MaxSnapshots \in Nat /\ version \in 0..MaxCommits
    BY EventBusAssumption DEF BusTypeOK
  <1>3. \A S, T : S \subseteq T => Seq(S) \subseteq Seq(T)
    OBVIOUS
  <1>4. /\ Commits \subseteq Int /\ Commits \union {Barrier} \subseteq Int
    BY <1>2 DEF Commits, Barrier
  <1>5. /\ got \in Seq(Commits) /\ held \in Seq(Commits)
        /\ chain \in Seq(Commits \union {Barrier})
        /\ queue \in Seq(Pushed) /\ buffer \in Seq(Pushed)
    BY DEF BusTypeOK
  <1>6. got \in Seq(Int) /\ held \in Seq(Int) /\ chain \in Seq(Int)
    BY <1>3, <1>4, <1>5
  <1> QED
    BY <1>1, <1>2, <1>4, <1>5, <1>6 DEF BusTypeOK, Told, HeldBack, Commits

(* A commit is newer than every event under way.                           *)
LEMMA CommitKeeps ==
    ASSUME BusInv, Commit
    PROVE  BusInv'
  <1>1. BusTypeOK /\ LinkInv /\ OrderInv /\ EpochInv /\ BarrierInv /\ CoverInv
            /\ OverlapInv
    BY DEF BusInv
  <1>2. /\ version' = version + 1 /\ unqueued' = version + 1 /\ unqueued = 0
        /\ version < MaxCommits
        /\ UNCHANGED <<chain, broken, handleVars, watchVars>>
    BY DEF Commit
  <1>3. /\ version \in Nat /\ 1..version \subseteq 1..version' /\ version' \in Int
        /\ \A v \in 1..version' : v \in 1..version \/ v = version'
        /\ fresh \in Int /\ base \in Int /\ fresh <= version /\ base <= version
        /\ MaxCommits \in Nat
    BY <1>1, <1>2, PlacesTyped DEF BusTypeOK
  <1>4. /\ Told' = Told /\ Queued' = Queued /\ Buffered' = Buffered
        /\ HeldBack' = HeldBack /\ Lively' = Lively
    BY <1>2 DEF handleVars, watchVars, Told, Queued, Buffered, HeldBack, Lively
  <1>5. Coming' = Coming \union {version'} /\ version' # 0
    BY <1>2, <1>3 DEF Coming, Barrier
  <1>6. \A e \in Told \union Queued \union Buffered \union HeldBack \union Coming :
            e \in 1..version /\ e < version'
    BY <1>1, <1>2, <1>3 DEF LinkInv
  <1>7. BusTypeOK'
    BY <1>1, <1>2, <1>3 DEF BusTypeOK, handleVars, watchVars
  <1>8. LinkInv'
    BY <1>1, <1>2, <1>3, <1>4, <1>5, <1>6 DEF LinkInv, handleVars, watchVars
  <1>9. OrderInv'
    <2>1. \A e \in ToSet(chain) : e < version'
      BY <1>1, <1>2, <1>3, <1>6 DEF Coming, Barrier
    <2> QED
      BY <1>1, <1>2, <1>4, <1>5, <1>6, <2>1
         DEF OrderInv, Below, handleVars, watchVars
  <1>10. EpochInv' /\ BarrierInv'
    BY <1>1, <1>2
       DEF EpochInv, BarrierInv, BarrierAt, BoundaryAwaited, handleVars, watchVars
  <1>11. CoverInv'
    BY <1>1, <1>2, <1>3, <1>4, <1>5 DEF CoverInv, handleVars, watchVars
  <1>12. OverlapInv'
    BY <1>1, <1>2, <1>3, <1>4, <1>5 DEF OverlapInv, handleVars, watchVars
  <1> QED
    BY <1>7, <1>8, <1>9, <1>10, <1>11, <1>12 DEF BusInv

(* An event joins the chain behind older ones, or is lost with it.         *)
LEMMA EmitKeeps ==
    ASSUME BusInv, Emit
    PROVE  BusInv'
  <1>1. BusTypeOK /\ LinkInv /\ OrderInv /\ EpochInv /\ BarrierInv /\ CoverInv
            /\ OverlapInv
    BY DEF BusInv
  <1>2. /\ unqueued # 0 /\ unqueued' = 0
        /\ chain' = IF broken THEN chain ELSE Append(chain, unqueued)
        /\ UNCHANGED <<version, broken, handleVars, watchVars>>
    BY DEF Emit, Enqueue
  <1>3. /\ Told' = Told /\ Queued' = Queued /\ Buffered' = Buffered
        /\ HeldBack' = HeldBack /\ Lively' = Lively
    BY <1>2 DEF handleVars, watchVars, Told, Queued, Buffered, HeldBack, Lively
  <1>4. /\ unqueued \in Commits \union {Barrier} /\ unqueued \in Int /\ chain \in Seq(Int)
    BY <1>1, <1>2, PlacesTyped DEF BusTypeOK
  <1>5. /\ chain' \in Seq(Commits \union {Barrier})
        /\ ~broken => ToSet(chain') = ToSet(chain) \union {unqueued}
    BY <1>1, <1>2, <1>4, AppendedSet DEF BusTypeOK
  <1>6. /\ Coming' \subseteq Coming
        /\ ~broken => Coming' = Coming
    BY <1>2, <1>5 DEF Coming, Barrier
  <1>7. BusTypeOK'
    BY <1>1, <1>2, <1>5 DEF BusTypeOK, handleVars, watchVars
  <1>8. LinkInv'
    BY <1>1, <1>2, <1>3, <1>6 DEF LinkInv, handleVars, watchVars
  <1>9. OrderInv'
    <2>1. EventsAscend(chain')
      BY <1>1, <1>2, <1>4, AppendAscends DEF OrderInv
    <2> QED
      BY <1>1, <1>2, <1>3, <1>6, <2>1 DEF OrderInv, Below, handleVars, watchVars
  <1>10. EpochInv'
    BY <1>1, <1>2 DEF EpochInv, handleVars, watchVars
  <1>11. BarrierInv'
    <2>1. CASE broken
      BY <1>1, <1>2, <2>1
         DEF BarrierInv, BarrierAt, BoundaryAwaited, handleVars, watchVars
    <2>2. CASE ~broken /\ ~torn
      <3>1. BoundaryAwaited' = BoundaryAwaited /\ (BoundaryAwaited => unqueued >= fresh)
        BY <1>1, <1>2, <2>2 DEF BoundaryAwaited, OverlapInv, handleVars, watchVars
      <3>2. ASSUME NEW p \in 1..Len(chain), BarrierAt(p), BoundaryAwaited
            PROVE  p \in 1..Len(chain') /\ BarrierAt(p)'
        <4>1. /\ Len(chain) \in Nat /\ Len(chain') = Len(chain) + 1
              /\ \A i \in 1..Len(chain) : chain'[i] = chain[i]
              /\ chain'[Len(chain) + 1] = unqueued
          BY <1>2, <1>4, <2>2, AppendProperties, LenProperties
        <4>2. \A i \in 1..Len(chain') : i \in 1..Len(chain) \/ i = Len(chain) + 1
          BY <4>1
        <4> QED
          BY <1>2, <3>1, <3>2, <4>1, <4>2 DEF BarrierAt, Barrier, handleVars
      <3>3. ~BoundaryAwaited => Barrier \notin ToSet(chain')
        BY <1>1, <1>2, <1>5, <2>2 DEF BarrierInv, Barrier
      <3> QED
        BY <1>1, <1>2, <2>2, <3>1, <3>2, <3>3
           DEF BarrierInv, handleVars, watchVars
    <2> QED
      BY <2>1, <2>2, <1>2 DEF BarrierInv, watchVars
  <1>12. CoverInv'
    BY <1>1, <1>2, <1>3, <1>6 DEF CoverInv, handleVars, watchVars
  <1>13. OverlapInv'
    BY <1>1, <1>2, <1>3, <1>6 DEF OverlapInv, handleVars, watchVars
  <1> QED
    BY <1>7, <1>8, <1>9, <1>10, <1>11, <1>12, <1>13 DEF BusInv

(* A barrier leaves the chain; what follows it is held from now on.        *)
LEMMA MarkBoundaryKeeps ==
    ASSUME BusInv, MarkBoundary
    PROVE  BusInv'
  <1>1. BusTypeOK /\ LinkInv /\ OrderInv /\ EpochInv /\ BarrierInv /\ CoverInv
            /\ OverlapInv
    BY DEF BusInv
  <1>2. /\ chain # <<>> /\ Head(chain) = Barrier /\ chain' = Tail(chain)
        /\ phase' = IF phase = "dropping" THEN "holding" ELSE phase
        /\ UNCHANGED <<version, unqueued, broken, state, capture, fresh, epoch,
                       buffer, held, queue, watchVars>>
    BY DEF MarkBoundary, DeliverNext
  <1>3. /\ chain \in Seq(Int)
        /\ chain' \in Seq(Commits \union {Barrier})
        /\ ToSet(chain) = {Barrier} \union ToSet(chain')
        /\ Len(chain') = Len(chain) - 1 /\ Len(chain) > 0 /\ chain[1] = Barrier
        /\ \A i \in 1..Len(chain) - 1 : chain'[i] = chain[i + 1]
    BY <1>1, <1>2, TailSet, PlacesTyped DEF BusTypeOK
  <1>4. /\ Told' = Told /\ Queued' = Queued /\ Buffered' = Buffered
        /\ HeldBack' = HeldBack /\ Lively' = Lively /\ Coming' = Coming
    BY <1>2, <1>3
       DEF watchVars, Told, Queued, Buffered, HeldBack, Lively, Coming
  <1>5. BusTypeOK'
    BY <1>1, <1>2, <1>3 DEF BusTypeOK, watchVars
  <1>6. LinkInv'
    BY <1>1, <1>2, <1>4 DEF LinkInv, watchVars
  <1>7. OrderInv'
    <2>1. EventsAscend(chain')
      BY <1>1, <1>2, <1>3, TailAscends DEF OrderInv
    <2> QED
      BY <1>1, <1>2, <1>3, <1>4, <2>1 DEF OrderInv, watchVars
  <1>8. EpochInv'
    BY <1>1, <1>2 DEF EpochInv
  <1>9. ~torn => /\ BoundaryAwaited /\ ~BoundaryAwaited'
                 /\ \A e \in ToSet(chain') : e # Barrier /\ e >= fresh
    <2>1. SUFFICES ASSUME ~torn
                   PROVE  /\ BoundaryAwaited /\ ~BoundaryAwaited'
                          /\ \A e \in ToSet(chain') : e # Barrier /\ e >= fresh
      OBVIOUS
    <2>2. BoundaryAwaited
      BY <1>1, <1>3, <2>1 DEF BarrierInv
    <2>3. PICK p \in 1..Len(chain) : BarrierAt(p)
      BY <1>1, <2>1, <2>2 DEF BarrierInv
    <2>4. Len(chain) \in Nat /\ 1 \in 1..Len(chain)
      BY <1>3, LenProperties
    <2>5. p = 1
      BY <1>3, <2>3, <2>4 DEF BarrierAt
    <2>6. \A e \in ToSet(chain') : \E i \in 1..Len(chain) - 1 : e = chain[i + 1]
      BY <1>3, LenProperties DEF ToSet
    <2>7. \A i \in 1..Len(chain) - 1 : i + 1 \in 1..Len(chain) /\ i + 1 > 1
      BY <2>4
    <2> QED
      BY <1>2, <2>2, <2>3, <2>5, <2>6, <2>7 DEF BarrierAt, BoundaryAwaited
  <1>10. BarrierInv'
    BY <1>1, <1>2, <1>9 DEF BarrierInv, BoundaryAwaited, watchVars
  <1>11. CoverInv'
    BY <1>1, <1>2, <1>4 DEF CoverInv, watchVars
  <1>12. OverlapInv'
    <2>1. ~torn /\ capture = "boundary" => \A e \in Coming : e >= fresh
      BY <1>1, <1>3, <1>9 DEF OverlapInv, Coming, Barrier
    <2> QED
      BY <1>1, <1>2, <1>4, <2>1 DEF OverlapInv, watchVars
  <1> QED
    BY <1>5, <1>6, <1>7, <1>8, <1>10, <1>11, <1>12 DEF BusInv

(* The oldest event of the chain goes where the handle's state and phase   *)
(* say: nowhere, to the held events, the buffer or the queue.              *)
LEMMA DeliverKeeps ==
    ASSUME BusInv, NEW e \in Commits, Deliver(e)
    PROVE  BusInv'
  <1>1. BusTypeOK /\ LinkInv /\ OrderInv /\ EpochInv /\ BarrierInv /\ CoverInv
            /\ OverlapInv
    BY DEF BusInv
  <1>2. /\ chain # <<>> /\ Head(chain) = e /\ chain' = Tail(chain)
        /\ UNCHANGED <<version, unqueued, broken, state, capture, fresh, phase,
                       epoch, watchVars>>
    BY DEF Deliver, DeliverNext
  <1>3. /\ chain \in Seq(Int)
        /\ chain' \in Seq(Commits \union {Barrier})
        /\ ToSet(chain) = {e} \union ToSet(chain')
        /\ Len(chain') = Len(chain) - 1 /\ Len(chain) > 0 /\ chain[1] = e
        /\ Len(chain) \in Nat
        /\ \A i \in 1..Len(chain) - 1 : chain'[i] = chain[i + 1]
    BY <1>1, <1>2, TailSet, PlacesTyped, LenProperties DEF BusTypeOK
  <1>4. e # Barrier /\ e \in Int /\ e > 0
    BY <1>1, PlacesTyped DEF Commits, Barrier
  <1>5. /\ Coming = {e} \union Coming'
        /\ EventsAscend(chain')
        /\ \A c \in Coming' : e < c
    <2>1. /\ EventsAscend(chain')
          /\ \A c \in ToSet(chain') : c # Barrier => e < c
      BY <1>1, <1>2, <1>3, <1>4, TailAscends DEF OrderInv
    <2> QED
      BY <1>1, <1>2, <1>3, <1>4, <2>1 DEF Coming, OrderInv, Barrier
  <1>6. /\ \A a \in Told \union Queued \union Buffered \union HeldBack : a < e
        /\ e \in 1..version
    BY <1>1, <1>5 DEF OrderInv, Below, LinkInv
  <1>7. BarrierInv' /\ (~torn /\ BoundaryAwaited => e <= fresh)
    <2>1. CASE torn
      BY <1>2, <2>1 DEF BarrierInv, watchVars
    <2>2. CASE ~torn /\ BoundaryAwaited
      <3>1. PICK p \in 1..Len(chain) : BarrierAt(p)
        BY <1>1, <2>2 DEF BarrierInv
      <3>2. p # 1 /\ p - 1 \in 1..Len(chain') /\ e <= fresh
        BY <1>3, <1>4, <3>1 DEF BarrierAt
      <3>3. BarrierAt(p - 1)'
        <4>1. \A i \in 1..Len(chain') :
                    /\ i + 1 \in 1..Len(chain) /\ i \in Int
                    /\ chain'[i] = chain[i + 1]
          BY <1>3
        <4>2. p \in Int /\ chain'[p - 1] = chain[p]
          BY <1>3, <3>2, <4>1
        <4>3. \A i \in 1..Len(chain') :
                    /\ i # p - 1 => chain'[i] # Barrier
                    /\ i < p - 1 => chain'[i] <= fresh
                    /\ i > p - 1 => chain'[i] >= fresh
          BY <3>1, <4>1, <4>2 DEF BarrierAt
        <4> QED
          BY <1>2, <3>1, <4>2, <4>3 DEF BarrierAt
      <3> QED
        BY <1>1, <1>2, <2>2, <3>2, <3>3 DEF BarrierInv, BoundaryAwaited, watchVars
    <2>3. CASE ~torn /\ ~BoundaryAwaited
      BY <1>1, <1>2, <1>3, <2>3 DEF BarrierInv, BoundaryAwaited, watchVars
    <2> QED
      BY <2>1, <2>2, <2>3
  <1>8. Told' = Told /\ got' = got /\ base' = base /\ torn' = torn
    BY <1>2 DEF watchVars, Told
  <1>9. CASE UNCHANGED <<buffer, held, queue>>
             /\ (state \in {"none", "unsubscribed"} \/ phase = "dropping")
    <2>1. /\ Queued' = Queued /\ Buffered' = Buffered /\ HeldBack' = HeldBack
          /\ Lively' = Lively
      BY <1>2, <1>9 DEF Queued, Buffered, HeldBack, Lively
    <2>2. BusTypeOK'
      BY <1>1, <1>2, <1>3, <1>8, <1>9 DEF BusTypeOK
    <2>3. LinkInv'
      BY <1>1, <1>2, <1>3, <1>5, <1>8, <1>9, <2>1, EmptySet DEF LinkInv
    <2>4. OrderInv'
      BY <1>1, <1>2, <1>3, <1>5, <1>8, <1>9, <2>1 DEF OrderInv, Below
    <2>5. EpochInv'
      BY <1>1, <1>2, <1>9 DEF EpochInv
    <2>6. CoverInv'
      <3>1. ~broken /\ ~torn => \A v \in 1..version :
               /\ ~(capture = "none" /\ state \in {"buffering", "started"})
               /\ capture = "boundary" /\ state # "unsubscribed" =>
                    v <= fresh \/ v \in HeldBack \union Coming'
        BY <1>1, <1>5, <1>7, <1>9 DEF CoverInv, LinkInv, BoundaryAwaited
      <3> QED
        BY <1>2, <1>8, <2>1, <3>1 DEF CoverInv
    <2>7. OverlapInv'
      BY <1>1, <1>2, <1>5, <1>8, <2>1 DEF OverlapInv
    <2> QED
      BY <1>7, <2>2, <2>3, <2>4, <2>5, <2>6, <2>7 DEF BusInv
  <1>10. CASE /\ phase = "holding" /\ state \notin {"none", "unsubscribed"}
              /\ held' = Append(held, e) /\ UNCHANGED <<buffer, queue>>
    <2>1. /\ held' \in Seq(Commits) /\ HeldBack' = HeldBack \union {e}
          /\ Ascends(held')
      <3>1. held \in Seq(Commits) /\ held \in Seq(Int)
        BY <1>1, PlacesTyped DEF BusTypeOK
      <3>2. \A a \in ToSet(held) : a < e
        BY <1>6 DEF HeldBack
      <3> QED
        BY <1>1, <1>4, <1>10, <3>1, <3>2, AppendedSet, AppendAscends
           DEF HeldBack, OrderInv
    <2>2. /\ Queued' = Queued /\ Buffered' = Buffered /\ Lively' = Lively
      BY <1>2, <1>10 DEF Queued, Buffered, Lively
    <2>3. BusTypeOK'
      BY <1>1, <1>2, <1>3, <1>8, <1>10, <2>1 DEF BusTypeOK
    <2>4. LinkInv'
      BY <1>1, <1>2, <1>3, <1>5, <1>6, <1>8, <1>10, <2>1, <2>2, EmptySet
         DEF LinkInv
    <2>5. OrderInv'
      <3>1. /\ Below(Told, Queued \union Buffered \union HeldBack' \union Coming')
            /\ Below(Queued, Buffered \union HeldBack' \union Coming')
            /\ Below(Buffered, HeldBack' \union Coming')
            /\ Below(HeldBack', Coming')
        BY <1>1, <1>5, <1>6, <2>1 DEF OrderInv, Below
      <3> QED
        BY <1>1, <1>2, <1>3, <1>5, <1>8, <1>10, <2>1, <2>2, <3>1 DEF OrderInv
    <2>6. EpochInv'
      BY <1>1, <1>2, <1>10 DEF EpochInv
    <2>7. CoverInv'
      BY <1>1, <1>2, <1>5, <1>8, <1>10, <2>1, <2>2 DEF CoverInv, LinkInv
    <2>8. OverlapInv'
      BY <1>1, <1>2, <1>5, <1>8, <1>10, <2>1, <2>2 DEF OverlapInv, LinkInv
    <2> QED
      BY <1>7, <2>3, <2>4, <2>5, <2>6, <2>7, <2>8 DEF BusInv
  <1> DEFINE pushed == [event |-> e, epoch |-> epoch]
  <1>11. pushed \in Pushed /\ pushed.event = e /\ pushed.epoch = epoch
    BY <1>1 DEF Pushed, BusTypeOK
  <1>12. CASE /\ state = "buffering" /\ phase = "none"
              /\ buffer' = Append(buffer, pushed) /\ UNCHANGED <<held, queue>>
    <2>1. /\ buffer' \in Seq(Pushed)
          /\ ToSet(buffer') = ToSet(buffer) \union {pushed}
      BY <1>1, <1>11, <1>12, AppendedSet DEF BusTypeOK
    <2>2. PushesAscend(buffer')
      BY <1>1, <1>6, <1>11, <1>12, AppendPush DEF BusTypeOK, OrderInv, Buffered
    <2>3. /\ Queued' = Queued /\ Buffered' = Buffered \union {e}
          /\ HeldBack' = HeldBack /\ Lively' = Lively \union {e}
      BY <1>2, <1>11, <1>12, <2>1 DEF Queued, Buffered, HeldBack, Lively
    <2>4. HeldBack = {}
      BY <1>1, <1>12, EmptySet DEF BusTypeOK, HeldBack
    <2>5. BusTypeOK'
      BY <1>1, <1>2, <1>3, <1>8, <1>12, <2>1 DEF BusTypeOK
    <2>6. LinkInv'
      BY <1>1, <1>2, <1>3, <1>5, <1>6, <1>8, <1>12, <2>1, <2>3, EmptySet
         DEF LinkInv
    <2>7. OrderInv'
      BY <1>1, <1>2, <1>3, <1>5, <1>6, <1>8, <1>12, <2>2, <2>3, <2>4
         DEF OrderInv, Below
    <2>8. EpochInv'
      BY <1>1, <1>2, <1>4, <1>11, <1>12, <2>1, PlacesTyped DEF EpochInv
    <2>9. CoverInv'
      BY <1>1, <1>2, <1>5, <1>8, <1>12, <2>3 DEF CoverInv, LinkInv
    <2>10. OverlapInv'
      BY <1>1, <1>2, <1>5, <1>8, <1>12, <2>3 DEF OverlapInv, LinkInv
    <2> QED
      BY <1>7, <2>5, <2>6, <2>7, <2>8, <2>9, <2>10 DEF BusInv
  <1>13. CASE /\ state = "started" /\ phase = "none"
              /\ queue' = Append(queue, pushed) /\ UNCHANGED <<buffer, held>>
    <2>1. /\ queue' \in Seq(Pushed)
          /\ ToSet(queue') = ToSet(queue) \union {pushed}
      BY <1>1, <1>11, <1>13, AppendedSet DEF BusTypeOK
    <2>2. PushesAscend(queue')
      BY <1>1, <1>6, <1>11, <1>13, AppendPush DEF BusTypeOK, OrderInv, Queued
    <2>3. /\ Queued' = Queued \union {e} /\ Buffered' = Buffered
          /\ HeldBack' = HeldBack /\ Lively' = Lively \union {e}
      BY <1>2, <1>11, <1>13, <2>1 DEF Queued, Buffered, HeldBack, Lively
    <2>4. HeldBack = {} /\ Buffered = {}
      BY <1>1, <1>13, EmptySet DEF BusTypeOK, HeldBack, Buffered
    <2>5. BusTypeOK'
      BY <1>1, <1>2, <1>3, <1>8, <1>13, <2>1 DEF BusTypeOK
    <2>6. LinkInv'
      BY <1>1, <1>2, <1>3, <1>5, <1>6, <1>8, <1>13, <2>1, <2>3, EmptySet
         DEF LinkInv
    <2>7. OrderInv'
      BY <1>1, <1>2, <1>3, <1>5, <1>6, <1>8, <1>13, <2>2, <2>3, <2>4
         DEF OrderInv, Below
    <2>8. EpochInv'
      BY <1>1, <1>2, <1>4, <1>11, <1>13, <2>1, PlacesTyped DEF EpochInv
    <2>9. CoverInv'
      BY <1>1, <1>2, <1>5, <1>8, <1>13, <2>3 DEF CoverInv, LinkInv
    <2>10. OverlapInv'
      BY <1>1, <1>2, <1>5, <1>8, <1>13, <2>3 DEF OverlapInv, LinkInv
    <2> QED
      BY <1>7, <2>5, <2>6, <2>7, <2>8, <2>9, <2>10 DEF BusInv
  <1> HIDE DEF pushed
  <1>14. \/ UNCHANGED <<buffer, held, queue>>
                /\ (state \in {"none", "unsubscribed"} \/ phase = "dropping")
         \/ /\ phase = "holding" /\ state \notin {"none", "unsubscribed"}
            /\ held' = Append(held, e) /\ UNCHANGED <<buffer, queue>>
         \/ /\ state = "buffering" /\ phase = "none"
            /\ buffer' = Append(buffer, pushed) /\ UNCHANGED <<held, queue>>
         \/ /\ state = "started" /\ phase = "none"
            /\ queue' = Append(queue, pushed) /\ UNCHANGED <<buffer, held>>
    BY <1>1 DEF Deliver, Push, BusTypeOK, pushed
  <1> QED
    BY <1>9, <1>10, <1>12, <1>13, <1>14

(* A cancelled emitter takes the chain with it.                            *)
LEMMA CancelEmitterKeeps ==
    ASSUME BusInv, CancelEmitter
    PROVE  BusInv'
  <1>1. BusTypeOK /\ LinkInv /\ OrderInv /\ EpochInv /\ BarrierInv /\ CoverInv
            /\ OverlapInv
    BY DEF BusInv
  <1>2. /\ chain' = <<>> /\ broken' = TRUE
        /\ UNCHANGED <<version, unqueued, handleVars, watchVars>>
    BY DEF CancelEmitter
  <1>3. ToSet(chain') = {} /\ chain' \in Seq(Commits \union {Barrier})
    BY <1>2, EmptySet
  <1>4. /\ Told' = Told /\ Queued' = Queued /\ Buffered' = Buffered
        /\ HeldBack' = HeldBack /\ Lively' = Lively /\ Coming' \subseteq Coming
    BY <1>2, <1>3
       DEF handleVars, watchVars, Told, Queued, Buffered, HeldBack, Lively, Coming
  <1>5. BusTypeOK' /\ LinkInv'
    BY <1>1, <1>2, <1>3, <1>4 DEF BusTypeOK, LinkInv, handleVars, watchVars
  <1>6. OrderInv'
    <2>1. EventsAscend(chain')
      BY <1>2 DEF EventsAscend
    <2> QED
      BY <1>1, <1>2, <1>3, <1>4, <2>1 DEF OrderInv, Below, handleVars, watchVars
  <1>7. EpochInv' /\ BarrierInv' /\ CoverInv' /\ OverlapInv'
    BY <1>1, <1>2, <1>3, <1>4
       DEF EpochInv, BarrierInv, BoundaryAwaited, CoverInv, OverlapInv, handleVars, watchVars
  <1> QED
    BY <1>5, <1>6, <1>7 DEF BusInv

(* A watch has nothing yet.                                                *)
LEMMA WatchKeeps ==
    ASSUME BusInv, Watch
    PROVE  BusInv'
  <1>1. BusTypeOK /\ LinkInv /\ OrderInv /\ EpochInv /\ BarrierInv /\ CoverInv
            /\ OverlapInv
    BY DEF BusInv
  <1>2. /\ state = "none" /\ state' = "buffering" /\ capture' = "first"
        /\ UNCHANGED <<busVars, fresh, phase, epoch, buffer, held, queue, watchVars>>
    BY DEF Watch
  <1>3. /\ Told' = Told /\ Queued' = Queued /\ Buffered' = Buffered
        /\ HeldBack' = HeldBack /\ Lively' = Lively /\ Coming' = Coming
    BY <1>2 DEF busVars, watchVars, Told, Queued, Buffered, HeldBack, Lively, Coming
  <1>4. BusTypeOK'
    BY <1>1, <1>2 DEF BusTypeOK, LinkInv, busVars, watchVars
  <1>5. LinkInv'
    BY <1>1, <1>2, <1>3 DEF LinkInv, busVars, watchVars
  <1>6. OrderInv' /\ EpochInv'
    BY <1>1, <1>2, <1>3 DEF OrderInv, EpochInv, busVars, watchVars
  <1>7. BarrierInv' /\ CoverInv' /\ OverlapInv'
    BY <1>1, <1>2, <1>3
       DEF LinkInv, BarrierInv, BoundaryAwaited, CoverInv, OverlapInv, busVars, watchVars
  <1> QED
    BY <1>4, <1>5, <1>6, <1>7 DEF BusInv

(* The first snapshot covers every commit so far.                          *)
LEMMA FirstSnapshotKeeps ==
    ASSUME BusInv, FirstSnapshot
    PROVE  BusInv'
  <1>1. BusTypeOK /\ LinkInv /\ OrderInv /\ EpochInv /\ BarrierInv /\ CoverInv
            /\ OverlapInv
    BY DEF BusInv
  <1>2. /\ capture = "first" /\ capture' = "none" /\ base' = version
        /\ UNCHANGED <<busVars, state, fresh, phase, epoch, buffer, held, queue,
                       got, torn>>
    BY DEF FirstSnapshot
  <1>3. /\ Told' = Told /\ Queued' = Queued /\ Buffered' = Buffered
        /\ HeldBack' = HeldBack /\ Lively' = Lively /\ Coming' = Coming
    BY <1>2 DEF busVars, Told, Queued, Buffered, HeldBack, Lively, Coming
  <1>4. version \in Nat
    BY <1>1, PlacesTyped
  <1>5. BusTypeOK'
    BY <1>1, <1>2, <1>4 DEF BusTypeOK, LinkInv, busVars
  <1>6. LinkInv'
    BY <1>1, <1>2, <1>3 DEF LinkInv, busVars
  <1>7. OrderInv' /\ EpochInv'
    BY <1>1, <1>2, <1>3 DEF OrderInv, EpochInv, busVars
  <1>8. BarrierInv'
    BY <1>1, <1>2 DEF LinkInv, BarrierInv, BoundaryAwaited, busVars
  <1>9. CoverInv' /\ OverlapInv'
    BY <1>1, <1>2, <1>3, <1>4 DEF LinkInv, CoverInv, OverlapInv, busVars
  <1> QED
    BY <1>5, <1>6, <1>7, <1>8, <1>9 DEF BusInv

(* The buffer follows the queue.                                           *)
LEMMA StartKeeps ==
    ASSUME BusInv, Start
    PROVE  BusInv'
  <1>1. BusTypeOK /\ LinkInv /\ OrderInv /\ EpochInv /\ BarrierInv /\ CoverInv
            /\ OverlapInv
    BY DEF BusInv
  <1>2. /\ state = "buffering" /\ capture # "first" /\ state' = "started"
        /\ queue' = queue \o buffer /\ buffer' = <<>>
        /\ UNCHANGED <<busVars, capture, fresh, phase, epoch, held, watchVars>>
    BY DEF Start
  <1>3. /\ queue \in Seq(Pushed) /\ buffer \in Seq(Pushed)
        /\ queue' \in Seq(Pushed) /\ buffer' \in Seq(Pushed)
        /\ ToSet(queue') = ToSet(queue) \union ToSet(buffer)
        /\ ToSet(buffer') = {}
    BY <1>1, <1>2, JoinedSet, EmptySet DEF BusTypeOK
  <1>4. /\ Told' = Told /\ Queued' = Queued \union Buffered /\ Buffered' = {}
        /\ HeldBack' = HeldBack /\ Lively' = Lively /\ Coming' = Coming
    BY <1>2, <1>3 DEF busVars, watchVars, Told, Queued, Buffered, HeldBack, Lively, Coming
  <1>5. PushesAscend(queue') /\ PushesAscend(buffer')
    <2>1. \A x \in ToSet(queue), y \in ToSet(buffer) : x.event < y.event
      BY <1>1 DEF OrderInv, Below, Queued, Buffered
    <2>2. PushesAscend(queue \o buffer)
      BY <1>1, <1>3, <2>1, JoinPush DEF OrderInv
    <2> QED
      BY <1>2, <2>2 DEF PushesAscend
  <1>6. BusTypeOK'
    BY <1>1, <1>2, <1>3 DEF BusTypeOK, busVars, watchVars
  <1>7. LinkInv'
    BY <1>1, <1>2, <1>4 DEF LinkInv, busVars, watchVars
  <1>8. OrderInv'
    BY <1>1, <1>2, <1>4, <1>5 DEF OrderInv, Below, busVars, watchVars
  <1>9. EpochInv'
    BY <1>1, <1>2, <1>3 DEF EpochInv
  <1>10. BarrierInv' /\ CoverInv' /\ OverlapInv'
    BY <1>1, <1>2, <1>4
       DEF BarrierInv, BarrierAt, BoundaryAwaited, CoverInv, OverlapInv, busVars, watchVars
  <1> QED
    BY <1>6, <1>7, <1>8, <1>9, <1>10 DEF BusInv

(* The listener is told the oldest queued event, unless it is outdated.    *)
LEMMA ListenKeeps ==
    ASSUME BusInv, Listen
    PROVE  BusInv'
  <1>1. BusTypeOK /\ LinkInv /\ OrderInv /\ EpochInv /\ BarrierInv /\ CoverInv
            /\ OverlapInv
    BY DEF BusInv
  <1> DEFINE x == Head(queue)
  <1>2. /\ queue # <<>> /\ queue' = Tail(queue)
        /\ got' = IF state = "started" /\ x.epoch = epoch
                  THEN Append(got, x.event) ELSE got
        /\ UNCHANGED <<busVars, state, capture, fresh, phase, epoch, buffer, held,
                       base, torn>>
    BY DEF Listen, Current
  <1>3. /\ queue' \in Seq(Pushed) /\ x \in Pushed /\ x \in ToSet(queue)
        /\ ToSet(queue) = {x} \union ToSet(queue')
        /\ PushesAscend(queue')
        /\ \A y \in ToSet(queue') : x.event < y.event
    BY <1>1, <1>2, TailSet, TailPush DEF BusTypeOK, OrderInv
  <1>4. /\ x.event \in Commits /\ x.event \in Int /\ x.event \in Queued
    BY <1>1, <1>3, PlacesTyped DEF Pushed, Queued
  <1>5. /\ \A a \in Told : a < x.event
        /\ \A b \in Queued' \union Buffered \union HeldBack \union Coming :
                x.event < b
    <2>1. \A b \in Queued' : x.event < b
      BY <1>3 DEF Queued
    <2> QED
      BY <1>1, <1>4, <2>1 DEF OrderInv, Below
  <1>6. /\ Queued = {x.event} \union Queued' /\ Buffered' = Buffered
        /\ HeldBack' = HeldBack /\ Coming' = Coming
        /\ Lively' \subseteq Lively
        /\ Lively \subseteq Lively' \union
                {e \in {x.event} : x.epoch = epoch}
    BY <1>2, <1>3 DEF busVars, Queued, Buffered, HeldBack, Coming, Lively
  <1> HIDE DEF x
  <1>7. /\ got' \in Seq(Commits) /\ Ascends(got')
        /\ Told' = IF state = "started" /\ x.epoch = epoch
                   THEN Told \union {x.event} ELSE Told
    <2>1. got \in Seq(Commits) /\ got \in Seq(Int) /\ Ascends(got)
      BY <1>1, PlacesTyped DEF BusTypeOK, OrderInv
    <2>2. \A a \in ToSet(got) : a < x.event
      BY <1>5 DEF Told
    <2>3. /\ Append(got, x.event) \in Seq(Commits)
          /\ ToSet(Append(got, x.event)) = ToSet(got) \union {x.event}
      BY <1>4, <2>1, AppendedSet
    <2>4. Ascends(Append(got, x.event))
      BY <1>4, <2>1, <2>2, AppendAscends
    <2> QED
      BY <1>2, <2>1, <2>3, <2>4 DEF Told
  <1>8. BusTypeOK'
    BY <1>1, <1>2, <1>3, <1>7 DEF BusTypeOK, busVars
  <1>9. LinkInv'
    BY <1>1, <1>2, <1>4, <1>6, <1>7 DEF LinkInv, busVars
  <1>10. OrderInv'
    <2>1. \A a \in Told' : a \in Told \/ a = x.event
      BY <1>7
    <2>2. Below(Told', Queued' \union Buffered \union HeldBack \union Coming)
      BY <1>1, <1>5, <1>6, <2>1 DEF OrderInv, Below
    <2> QED
      BY <1>1, <1>2, <1>3, <1>6, <1>7, <2>2 DEF OrderInv, Below, busVars
  <1>11. EpochInv'
    BY <1>1, <1>2, <1>3 DEF EpochInv
  <1>12. BarrierInv'
    BY <1>1, <1>2 DEF BarrierInv, BarrierAt, BoundaryAwaited, busVars
  <1>13. CoverInv'
    <2>1. state = "started" => Told \union Lively \subseteq Told' \union Lively'
      BY <1>6, <1>7
    <2>2. state # "buffering"
      BY <1>1, <1>2 DEF LinkInv
    <2> QED
      BY <1>1, <1>2, <1>6, <2>1, <2>2 DEF CoverInv, busVars
  <1>14. OverlapInv'
    <2>1. Told' \union Lively' \subseteq Told \union Lively
      <3>1. ASSUME x.epoch = epoch PROVE x.event \in Lively
        BY <1>3, <3>1 DEF Lively
      <3> QED
        BY <1>6, <1>7, <3>1
    <2> QED
      BY <1>1, <1>2, <1>6, <2>1 DEF OverlapInv, busVars
  <1> QED
    BY <1>8, <1>9, <1>10, <1>11, <1>12, <1>13, <1>14 DEF BusInv

(* A resnapshot outdates what was pushed before it.                        *)
LEMMA ResnapshotKeeps ==
    ASSUME BusInv, Resnapshot
    PROVE  BusInv'
  <1>1. BusTypeOK /\ LinkInv /\ OrderInv /\ EpochInv /\ BarrierInv /\ CoverInv
            /\ OverlapInv
    BY DEF BusInv
  <1>2. /\ state \in {"buffering", "started"} /\ capture = "none"
        /\ epoch < MaxSnapshots /\ epoch' = epoch + 1
        /\ phase' = "dropping" /\ capture' = "line"
        /\ UNCHANGED <<busVars, state, fresh, buffer, held, queue, watchVars>>
    BY DEF Resnapshot
  <1>3. /\ epoch \in Nat /\ epoch' \in 0..MaxSnapshots /\ epoch' > 0
        /\ \A y \in ToSet(queue) \union ToSet(buffer) :
                y.epoch <= epoch' /\ y.epoch # epoch'
    <2>1. \A y \in ToSet(queue) \union ToSet(buffer) :
                y.epoch \in Int /\ y.epoch <= epoch
      BY <1>1, PlacesTyped DEF Pushed, EpochInv
    <2>2. epoch \in Nat /\ MaxSnapshots \in Nat
      BY <1>1, EventBusAssumption DEF BusTypeOK
    <2> QED
      BY <1>2, <2>1, <2>2
  <1>4. /\ Told' = Told /\ Queued' = Queued /\ Buffered' = Buffered
        /\ HeldBack' = HeldBack /\ Coming' = Coming
    BY <1>2 DEF busVars, watchVars, Told, Queued, Buffered, HeldBack, Coming
  <1>5. BusTypeOK'
    BY <1>1, <1>2, <1>3 DEF BusTypeOK, busVars, watchVars
  <1>6. LinkInv'
    BY <1>1, <1>2, <1>4 DEF LinkInv, busVars, watchVars
  <1>7. OrderInv'
    BY <1>1, <1>2, <1>4 DEF OrderInv, busVars, watchVars
  <1>8. EpochInv'
    BY <1>2, <1>3 DEF EpochInv
  <1>9. BarrierInv' /\ CoverInv' /\ OverlapInv'
    BY <1>1, <1>2
       DEF BarrierInv, BoundaryAwaited, CoverInv, OverlapInv, busVars, watchVars
  <1> QED
    BY <1>5, <1>6, <1>7, <1>8, <1>9 DEF BusInv

(* The capture queues the barrier behind everything it has read but the    *)
(* last commit.                                                            *)
LEMMA CaptureKeeps ==
    ASSUME BusInv, Capture
    PROVE  BusInv'
  <1>1. BusTypeOK /\ LinkInv /\ OrderInv /\ EpochInv /\ BarrierInv /\ CoverInv
            /\ OverlapInv
    BY DEF BusInv
  <1>2. /\ capture = "line" /\ fresh' = version /\ capture' = "boundary"
        /\ chain' = IF broken THEN chain ELSE Append(chain, Barrier)
        /\ UNCHANGED <<version, unqueued, broken, state, phase, epoch, buffer, held,
                       queue, watchVars>>
    BY DEF Capture, Enqueue
  <1>3. /\ chain \in Seq(Int) /\ Barrier \in Int /\ version \in Nat
        /\ chain' \in Seq(Commits \union {Barrier})
        /\ ~broken => ToSet(chain') = ToSet(chain) \union {Barrier}
    BY <1>1, <1>2, PlacesTyped, AppendedSet DEF BusTypeOK, Barrier
  <1>4. /\ Told' = Told /\ Queued' = Queued /\ Buffered' = Buffered
        /\ HeldBack' = HeldBack /\ Lively' = Lively /\ Coming' = Coming
    BY <1>2, <1>3
       DEF watchVars, Told, Queued, Buffered, HeldBack, Lively, Coming
  <1>5. BusTypeOK'
    BY <1>1, <1>2, <1>3 DEF BusTypeOK, watchVars
  <1>6. LinkInv'
    BY <1>1, <1>2, <1>4 DEF LinkInv, watchVars
  <1>7. OrderInv'
    <2>1. EventsAscend(chain')
      BY <1>1, <1>2, <1>3, AppendAscends DEF OrderInv
    <2>2. unqueued # 0 => \A e \in ToSet(chain') : e < unqueued
      <3>1. unqueued # 0 => Barrier < unqueued
        BY <1>1, <1>3 DEF BusTypeOK, Barrier
      <3> QED
        BY <1>1, <1>2, <1>3, <3>1 DEF OrderInv
    <2> QED
      BY <1>1, <1>2, <1>4, <2>1, <2>2 DEF OrderInv, watchVars
  <1>8. EpochInv'
    BY <1>1, <1>2 DEF EpochInv
  <1>9. BarrierInv'
    <2>1. CASE torn \/ broken
      BY <1>1, <1>2, <2>1 DEF BarrierInv, BoundaryAwaited, LinkInv, ToSet, watchVars
    <2>2. CASE ~torn /\ ~broken
      <3>1. phase = "dropping" /\ Barrier \notin ToSet(chain)
        BY <1>1, <1>2, <2>2 DEF BarrierInv, BoundaryAwaited
      <3>2. /\ Len(chain) \in Nat /\ Len(chain') = Len(chain) + 1
            /\ \A i \in 1..Len(chain) :
                    chain'[i] = chain[i] /\ chain'[i] # Barrier
            /\ chain'[Len(chain) + 1] = Barrier
        <4>1. /\ Len(chain) \in Nat /\ Len(chain') = Len(chain) + 1
              /\ \A i \in 1..Len(chain) : chain'[i] = chain[i]
              /\ chain'[Len(chain) + 1] = Barrier
              /\ DOMAIN chain = 1..Len(chain)
          BY <1>2, <1>3, <2>2, LenProperties, AppendProperties
        <4> QED
          BY <3>1, <4>1 DEF ToSet
      <3>3. \A i \in 1..Len(chain) : chain[i] \in Int /\ chain[i] <= version
        <4>1. DOMAIN chain = 1..Len(chain)
          BY <1>3, LenProperties
        <4>2. \A i \in 1..Len(chain) : chain[i] \in Coming
          BY <3>1, <4>1 DEF Coming, ToSet
        <4> QED
          BY <1>1, <1>3, <4>2 DEF LinkInv
      <3>4. \A i \in 1..Len(chain') :
                i \in Int /\ (i \in 1..Len(chain) \/ i = Len(chain) + 1)
        BY <3>2
      <3>5. PICK n \in Nat : n = Len(chain) + 1
        BY <3>2
      <3>6. BarrierAt(n)' /\ n \in 1..Len(chain')
        BY <1>2, <3>2, <3>3, <3>4, <3>5 DEF BarrierAt
      <3> QED
        BY <1>2, <2>2, <3>1, <3>6 DEF BarrierInv, BoundaryAwaited, watchVars
    <2> QED
      BY <2>1, <2>2
  <1>10. CoverInv'
    BY <1>2, <1>3 DEF CoverInv
  <1>11. OverlapInv'
    <2>1. ~torn => phase = "dropping" /\ HeldBack = {}
      BY <1>1, <1>2, EmptySet DEF BarrierInv, BusTypeOK, HeldBack
    <2>2. unqueued # 0 => unqueued >= version
      BY <1>1, <1>3 DEF BusTypeOK
    <2> QED
      BY <1>1, <1>2, <1>4, <2>1, <2>2 DEF OverlapInv, watchVars
  <1> QED
    BY <1>5, <1>6, <1>7, <1>8, <1>9, <1>10, <1>11 DEF BusInv

(* When a resnapshot is over, its held events are pushed again behind what *)
(* the watcher had, as events of the present.                              *)
LEMMA ReleaseMoves ==
    ASSUME BusInv, Release, capture \in {"line", "boundary"}, epoch' = epoch
    PROVE  /\ phase' = "none" /\ held' = <<>> /\ HeldBack' = {}
           /\ queue' \in Seq(Pushed) /\ buffer' \in Seq(Pushed)
           /\ PushesAscend(queue') /\ PushesAscend(buffer')
           /\ Queued' \subseteq Queued \union HeldBack
           /\ Buffered' \subseteq Buffered \union HeldBack
           /\ Below(Queued', Buffered')
           /\ Lively' \subseteq HeldBack
           /\ state # "unsubscribed" => Lively' = HeldBack
           /\ state = "started" => buffer' = <<>>
           /\ state = "buffering" => queue' = queue
           /\ \A y \in ToSet(queue') \union ToSet(buffer') : y.epoch <= epoch
  <1>1. BusTypeOK /\ LinkInv /\ OrderInv /\ EpochInv
    BY DEF BusInv
  <1> DEFINE again == [i \in 1..Len(held) |-> [event |-> held[i], epoch |-> epoch]]
  <1>2. /\ phase' = "none" /\ held' = <<>>
        /\ \/ state = "unsubscribed" /\ UNCHANGED <<buffer, queue>>
           \/ state = "buffering" /\ buffer' = buffer \o again /\ UNCHANGED queue
           \/ /\ state \notin {"unsubscribed", "buffering"}
              /\ queue' = queue \o again /\ UNCHANGED buffer
    BY DEF Release
  <1>3. HeldBack' = {}
    BY <1>2, EmptySet DEF HeldBack
  <1>4. /\ queue \in Seq(Pushed) /\ buffer \in Seq(Pushed)
        /\ held \in Seq(Commits) /\ epoch \in 0..MaxSnapshots
        /\ Len(held) \in Nat /\ DOMAIN held = 1..Len(held)
        /\ \A i \in 1..Len(held) : held[i] \in Commits
    BY <1>1, LenProperties DEF BusTypeOK
  <1>5. /\ again \in Seq(Pushed) /\ DOMAIN again = 1..Len(held)
        /\ \A i \in 1..Len(held) : again[i].event = held[i] /\ again[i].epoch = epoch
    <2>1. \A i \in 1..Len(held) : [event |-> held[i], epoch |-> epoch] \in Pushed
      BY <1>4 DEF Pushed
    <2>2. again \in Seq(Pushed)
      BY <1>4, <2>1, IsASeq
    <2> QED
      BY <2>2
  <1>6. /\ \A y \in ToSet(again) : y.event \in HeldBack /\ y.epoch = epoch
        /\ \A h \in HeldBack : \E y \in ToSet(again) : y.event = h /\ y.epoch = epoch
    BY <1>4, <1>5 DEF ToSet, HeldBack
  <1>7. PushesAscend(again)
    BY <1>1, <1>4, <1>5 DEF PushesAscend, OrderInv, Ascends
  <1> HIDE DEF again
  <1>8. /\ queue \o again \in Seq(Pushed) /\ buffer \o again \in Seq(Pushed)
        /\ ToSet(queue \o again) = ToSet(queue) \union ToSet(again)
        /\ ToSet(buffer \o again) = ToSet(buffer) \union ToSet(again)
    BY <1>4, <1>5, JoinedSet
  <1>9. PushesAscend(queue \o again) /\ PushesAscend(buffer \o again)
    <2>1. /\ \A x \in ToSet(queue), y \in ToSet(again) : x.event < y.event
          /\ \A x \in ToSet(buffer), y \in ToSet(again) : x.event < y.event
      BY <1>1, <1>6 DEF OrderInv, Below, Queued, Buffered
    <2> QED
      BY <1>1, <1>4, <1>5, <1>7, <2>1, JoinPush DEF OrderInv
  <1>10. phase # "none"
    BY <1>1 DEF LinkInv
  <1>11. \A y \in ToSet(queue) \union ToSet(buffer) :
            y.epoch # epoch /\ y.epoch <= epoch
    BY <1>1, <1>10 DEF EpochInv
  <1>12. epoch <= epoch
    BY <1>4
  <1>13. CASE state = "unsubscribed" /\ UNCHANGED <<buffer, queue>>
    <2>1. Queued' = Queued /\ Buffered' = Buffered /\ Lively' = {}
      BY <1>11, <1>13 DEF Queued, Buffered, Lively
    <2> QED
      BY <1>1, <1>2, <1>3, <1>4, <1>11, <1>13, <2>1 DEF OrderInv, Below
  <1>14. CASE state = "buffering" /\ buffer' = buffer \o again /\ UNCHANGED queue
    <2>1. /\ Queued' = Queued /\ Buffered' = Buffered \union HeldBack
          /\ Lively' = HeldBack
      <3>1. ToSet(queue') = ToSet(queue) /\ Queued' = Queued
        BY <1>14 DEF Queued
      <3>2. ToSet(buffer') = ToSet(buffer) \union ToSet(again)
        BY <1>8, <1>14
      <3>3. Buffered' = Buffered \union HeldBack
        BY <1>6, <3>2 DEF Buffered
      <3>4. \A y \in ToSet(queue') \union ToSet(buffer') :
                y.epoch = epoch <=> y \in ToSet(again)
        BY <1>6, <1>11, <3>1, <3>2
      <3>5. Lively' = HeldBack
        BY <1>6, <3>2, <3>4 DEF Lively
      <3> QED
        BY <3>1, <3>3, <3>5
    <2>2. Below(Queued', Buffered')
      BY <1>1, <2>1 DEF OrderInv, Below
    <2> QED
      BY <1>1, <1>2, <1>3, <1>4, <1>6, <1>8, <1>9, <1>11, <1>12, <1>14, <2>1, <2>2
         DEF OrderInv
  <1>15. CASE /\ state \notin {"unsubscribed", "buffering"}
              /\ queue' = queue \o again /\ UNCHANGED buffer
    <2>1. state = "started" /\ buffer = <<>> /\ Buffered = {}
      BY <1>1, <1>15, EmptySet DEF BusTypeOK, LinkInv, Buffered
    <2>2. /\ Queued' = Queued \union HeldBack /\ Buffered' = {}
          /\ Lively' = HeldBack
      <3>1. ToSet(queue') = ToSet(queue) \union ToSet(again) /\ ToSet(buffer') = {}
        BY <1>8, <1>15, <2>1, EmptySet
      <3>2. Queued' = Queued \union HeldBack /\ Buffered' = {}
        BY <1>6, <3>1 DEF Queued, Buffered
      <3>3. epoch' = epoch
        OBVIOUS
      <3> QED
        BY <1>6, <1>11, <3>1, <3>2, <3>3 DEF Lively
    <2>3. PushesAscend(queue') /\ PushesAscend(buffer')
      BY <1>1, <1>9, <1>15 DEF OrderInv
    <2>4. Below(Queued', Buffered')
      BY <2>2 DEF Below
    <2>5. ToSet(queue') \union ToSet(buffer')
             \subseteq ToSet(queue) \union ToSet(buffer) \union ToSet(again)
      BY <1>8, <1>15
    <2> QED
      BY <1>2, <1>3, <1>4, <1>6, <1>8, <1>11, <1>12, <1>15,
         <2>1, <2>2, <2>3, <2>4, <2>5
  <1> QED
    BY <1>2, <1>13, <1>14, <1>15 DEF again

(* The new snapshot takes over from what the listener was told: the held   *)
(* events and those that are coming go on where it ends.                   *)
LEMMA SnapshotKeeps ==
    ASSUME BusInv, Snapshot
    PROVE  BusInv'
  <1>1. BusTypeOK /\ LinkInv /\ OrderInv /\ EpochInv /\ BarrierInv /\ CoverInv
            /\ OverlapInv
    BY DEF BusInv
  <1>2. /\ capture = "boundary" /\ phase = "holding" /\ capture' = "none"
        /\ Release /\ base' = fresh /\ got' = <<>>
        /\ UNCHANGED <<busVars, state, fresh, epoch, torn>>
    BY DEF Snapshot
  <1>3. /\ phase' = "none" /\ held' = <<>> /\ HeldBack' = {}
        /\ queue' \in Seq(Pushed) /\ buffer' \in Seq(Pushed)
        /\ PushesAscend(queue') /\ PushesAscend(buffer')
        /\ Queued' \subseteq Queued \union HeldBack
        /\ Buffered' \subseteq Buffered \union HeldBack
        /\ Below(Queued', Buffered')
        /\ Lively' \subseteq HeldBack
        /\ state # "unsubscribed" => Lively' = HeldBack
        /\ state = "started" => buffer' = <<>>
        /\ state = "buffering" => queue' = queue
        /\ \A y \in ToSet(queue') \union ToSet(buffer') : y.epoch <= epoch
    BY <1>2, ReleaseMoves DEF Snapshot
  <1>4. Told' = {} /\ Coming' = Coming /\ got' \in Seq(Commits)
    BY <1>2, EmptySet DEF Told, Coming, busVars
  <1>5. BusTypeOK'
    BY <1>1, <1>2, <1>3, <1>4 DEF BusTypeOK, busVars
  <1>6. state # "none"
    BY <1>1, <1>2 DEF LinkInv
  <1>7. LinkInv'
    BY <1>1, <1>2, <1>3, <1>4, <1>6 DEF LinkInv, busVars
  <1>8. OrderInv'
    <2>1. Ascends(got') /\ Ascends(held')
      BY <1>2, <1>3 DEF Ascends
    <2>2. /\ Below(Told', Queued' \union Buffered' \union HeldBack' \union Coming')
          /\ Below(Queued', Buffered' \union HeldBack' \union Coming')
          /\ Below(Buffered', HeldBack' \union Coming')
          /\ Below(HeldBack', Coming')
      BY <1>1, <1>3, <1>4 DEF OrderInv, Below
    <2> QED
      BY <1>1, <1>2, <1>3, <2>1, <2>2 DEF OrderInv, busVars
  <1>9. EpochInv'
    BY <1>2, <1>3 DEF EpochInv
  <1>10. BarrierInv'
    BY <1>1, <1>2 DEF BarrierInv, BoundaryAwaited, busVars
  <1>11. CoverInv'
    BY <1>1, <1>2, <1>3, <1>4 DEF CoverInv, busVars
  <1>12. OverlapInv'
    BY <1>1, <1>2, <1>3, <1>4 DEF OverlapInv, busVars
  <1> QED
    BY <1>5, <1>7, <1>8, <1>9, <1>10, <1>11, <1>12 DEF BusInv

(* A resnapshot that is given up tells the watcher what it held.           *)
LEMMA CancelResnapshotKeeps ==
    ASSUME BusInv, CancelResnapshot
    PROVE  BusInv'
  <1>1. BusTypeOK /\ LinkInv /\ OrderInv /\ EpochInv /\ BarrierInv /\ CoverInv
            /\ OverlapInv
    BY DEF BusInv
  <1>2. /\ capture \in {"line", "boundary"} /\ capture' = "none"
        /\ Release /\ torn' = TRUE
        /\ UNCHANGED <<busVars, state, fresh, epoch, base, got>>
    BY DEF CancelResnapshot
  <1>3. /\ phase' = "none" /\ held' = <<>> /\ HeldBack' = {}
        /\ queue' \in Seq(Pushed) /\ buffer' \in Seq(Pushed)
        /\ PushesAscend(queue') /\ PushesAscend(buffer')
        /\ Queued' \subseteq Queued \union HeldBack
        /\ Buffered' \subseteq Buffered \union HeldBack
        /\ Below(Queued', Buffered')
        /\ state = "started" => buffer' = <<>>
        /\ state = "buffering" => queue' = queue
        /\ \A y \in ToSet(queue') \union ToSet(buffer') : y.epoch <= epoch
    BY <1>2, ReleaseMoves
  <1>4. Told' = Told /\ Coming' = Coming
    BY <1>2 DEF Told, Coming, busVars
  <1>5. BusTypeOK'
    BY <1>1, <1>2, <1>3 DEF BusTypeOK, busVars
  <1>6. state # "none"
    BY <1>1, <1>2 DEF LinkInv
  <1>7. LinkInv'
    BY <1>1, <1>2, <1>3, <1>4, <1>6 DEF LinkInv, busVars
  <1>8. OrderInv'
    <2>1. Ascends(held')
      BY <1>3 DEF Ascends
    <2>2. /\ Below(Told', Queued' \union Buffered' \union HeldBack' \union Coming')
          /\ Below(Queued', Buffered' \union HeldBack' \union Coming')
          /\ Below(Buffered', HeldBack' \union Coming')
          /\ Below(HeldBack', Coming')
      BY <1>1, <1>3, <1>4 DEF OrderInv, Below
    <2> QED
      BY <1>1, <1>2, <1>3, <2>1, <2>2 DEF OrderInv, busVars
  <1>9. EpochInv'
    BY <1>2, <1>3 DEF EpochInv
  <1>10. BarrierInv' /\ CoverInv' /\ OverlapInv'
    BY <1>2 DEF BarrierInv, CoverInv, OverlapInv
  <1> QED
    BY <1>5, <1>7, <1>8, <1>9, <1>10 DEF BusInv

(* A watcher that unsubscribes gets nothing more.                          *)
LEMMA UnsubscribeKeeps ==
    ASSUME BusInv, Unsubscribe
    PROVE  BusInv'
  <1>1. BusTypeOK /\ LinkInv /\ OrderInv /\ EpochInv /\ BarrierInv /\ CoverInv
            /\ OverlapInv
    BY DEF BusInv
  <1>2. /\ state \in {"buffering", "started"} /\ state' = "unsubscribed"
        /\ capture' = IF capture = "first" THEN "none" ELSE capture
        /\ buffer' = <<>> /\ held' = <<>>
        /\ UNCHANGED <<busVars, fresh, phase, epoch, queue, watchVars>>
    BY DEF Unsubscribe
  <1>3. /\ Told' = Told /\ Queued' = Queued /\ Buffered' = {} /\ HeldBack' = {}
        /\ Coming' = Coming /\ Lively' \subseteq Lively
        /\ ToSet(buffer') = {}
    BY <1>2, EmptySet
       DEF busVars, watchVars, Told, Queued, Buffered, HeldBack, Coming, Lively
  <1>4. BusTypeOK'
    BY <1>1, <1>2 DEF BusTypeOK, busVars, watchVars
  <1>5. LinkInv'
    BY <1>1, <1>2, <1>3 DEF LinkInv, busVars, watchVars
  <1>6. OrderInv'
    <2>1. Ascends(held') /\ PushesAscend(buffer')
      BY <1>2 DEF Ascends, PushesAscend
    <2> QED
      BY <1>1, <1>2, <1>3, <2>1 DEF OrderInv, Below, busVars, watchVars
  <1>7. EpochInv'
    BY <1>1, <1>2, <1>3 DEF EpochInv
  <1>8. BarrierInv'
    BY <1>1, <1>2 DEF BarrierInv, BarrierAt, BoundaryAwaited, busVars, watchVars
  <1>9. CoverInv'
    BY <1>2 DEF CoverInv
  <1>10. OverlapInv'
    BY <1>1, <1>2, <1>3 DEF OverlapInv, LinkInv, busVars, watchVars
  <1> QED
    BY <1>4, <1>5, <1>6, <1>7, <1>8, <1>9, <1>10 DEF BusInv

-----------------------------------------------------------------------------
(* The theorems                                                            *)

LEMMA InitHolds == BusInit => BusInv
  <1> SUFFICES ASSUME BusInit PROVE BusInv
    OBVIOUS
  <1>1. /\ version = 0 /\ unqueued = 0 /\ chain = <<>> /\ ~broken /\ state = "none"
        /\ capture = "none" /\ fresh = 0 /\ phase = "none" /\ epoch = 0
        /\ buffer = <<>> /\ held = <<>> /\ queue = <<>> /\ base = -1 /\ got = <<>>
        /\ torn = FALSE /\ broken = FALSE
    BY DEF BusInit
  <1>2. /\ Told = {} /\ Queued = {} /\ Buffered = {} /\ HeldBack = {}
        /\ Coming = {} /\ Lively = {}
        /\ ToSet(queue) = {} /\ ToSet(buffer) = {} /\ ToSet(chain) = {}
    BY <1>1, EmptySet
       DEF Told, Queued, Buffered, HeldBack, Coming, Lively, Barrier
  <1>3. BusTypeOK
    <2>1. version \in 0..MaxCommits /\ epoch \in 0..MaxSnapshots
      BY <1>1, EventBusAssumption
    <2>2. base \in -1..version /\ fresh \in 0..version
      BY <1>1
    <2>3. /\ chain \in Seq(Commits \union {Barrier}) /\ got \in Seq(Commits)
          /\ buffer \in Seq(Pushed) /\ queue \in Seq(Pushed) /\ held \in Seq(Commits)
      BY <1>1
    <2> QED
      BY <1>1, <2>1, <2>2, <2>3 DEF BusTypeOK
  <1>4. LinkInv /\ EpochInv /\ BarrierInv /\ CoverInv /\ OverlapInv
    BY <1>1, <1>2
       DEF LinkInv, EpochInv, BarrierInv, BoundaryAwaited, CoverInv, OverlapInv
  <1>5. OrderInv
    BY <1>1, <1>2 DEF OrderInv, Ascends, PushesAscend, EventsAscend, Below
  <1> QED
    BY <1>3, <1>4, <1>5 DEF BusInv

(* Every step of the bus, the handle and their callers keeps the order of  *)
(* the events and every event's place.                                     *)
THEOREM BusInvariant == BusSpec => []BusInv
  <1>1. ASSUME BusInv, [BusNext]_streamVars PROVE BusInv'
    <2>1. CASE UNCHANGED streamVars
      BY <1>1, <2>1
         DEF BusInv, BusTypeOK, LinkInv, OrderInv, EpochInv, BarrierInv, BarrierAt,
             BoundaryAwaited, CoverInv, OverlapInv, Told, Queued, Buffered, HeldBack,
             Coming, Lively, streamVars, busVars, handleVars, watchVars
    <2>2. CASE BusNext
      <3>1. CASE BusStep
        BY <1>1, <3>1, EmitKeeps, MarkBoundaryKeeps, DeliverKeeps DEF BusStep
      <3>2. CASE HandleStep
        BY <1>1, <3>2, FirstSnapshotKeeps, CaptureKeeps, SnapshotKeeps, ListenKeeps
           DEF HandleStep
      <3> QED
        BY <1>1, <2>2, <3>1, <3>2, CommitKeeps, CancelEmitterKeeps, WatchKeeps,
           StartKeeps, ResnapshotKeeps, CancelResnapshotKeeps, UnsubscribeKeeps
           DEF BusNext
    <2> QED
      BY <1>1, <2>1, <2>2
  <1> QED
    BY <1>1, InitHolds, PTL DEF BusSpec

(* A watcher misses no event between its snapshots and its listener, is    *)
(* told them in the order of the commits, each once, and after a           *)
(* resnapshot nothing older than its last commit.                          *)
THEOREM WatcherSeesAll == BusSpec => []WatchersSeeAll
  <1>1. BusInv => WatchersSeeAll
    <2> SUFFICES ASSUME BusInv PROVE WatchersSeeAll
      OBVIOUS
    <2>1. BusTypeOK /\ LinkInv /\ OrderInv /\ CoverInv /\ OverlapInv
      BY DEF BusInv
    <2>2. /\ DOMAIN got = 1..Len(got)
          /\ \A i \in DOMAIN got : got[i] \in Told
          /\ \A v \in Told : \E i \in DOMAIN got : got[i] = v
      BY <2>1, LenProperties DEF BusTypeOK, Told, ToSet
    <2>3. AtRest => Lively = {} /\ Coming = {}
      BY <2>1, EmptySet DEF AtRest, BusTypeOK, Lively, Coming, Barrier
    <2>4. NoGap
      BY <2>1, <2>2, <2>3 DEF NoGap, Coherent, AtRest, CoverInv
    <2>5. InOrder
      BY <2>1 DEF InOrder, OrderInv, Ascends
    <2>6. OverlapBounded
      BY <2>1, <2>2 DEF OverlapBounded, OverlapInv
    <2> QED
      BY <2>1, <2>4, <2>5, <2>6 DEF WatchersSeeAll
  <1> QED
    BY <1>1, BusInvariant, PTL

=============================================================================

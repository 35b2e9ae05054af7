--------------------------- MODULE RunLaneProofs ---------------------------
(***************************************************************************)
(* Proofs about RunLane, for every set of operations, every number of       *)
(* inputs, crashes and attempts, and every queue mode: first what each      *)
(* action keeps of the control state, then what happens to a queued input   *)
(* (none is lost, none used twice, none overtakes an earlier one of its     *)
(* kind, and a completed run leaves none behind), then retries, overflow    *)
(* recovery and the promise of DurableOperation.                            *)
(***************************************************************************)
EXTENDS LaneRecords, DurableRecordsProofs, FiniteSetTheorems,
        WellFoundedInduction

-----------------------------------------------------------------------------
(* Placing inputs                                                          *)

(* The inputs a boundary takes are a finite set, and so are the ones up to *)
(* any of them.                                                            *)
LEMMA RankType ==
    ASSUME NEW S \in SUBSET Inputs
    PROVE  /\ IsFiniteSet(S)
           /\ Cardinality(S) \in Nat
           /\ \A i \in Inputs : Cardinality({j \in S : j <= i}) \in Nat
  <1>1. IsFiniteSet(Inputs)
    BY RunLaneAssumption, FS_Interval DEF Inputs
  <1>2. \A T \in SUBSET Inputs : IsFiniteSet(T) /\ Cardinality(T) \in Nat
    BY <1>1, FS_Subset, FS_CardinalityType
  <1>3. \A i \in Inputs : {j \in S : j <= i} \in SUBSET Inputs
    OBVIOUS
  <1> QED
    BY <1>2, <1>3

(* The rank of a selected input is positive, at most the number selected,  *)
(* and grows with the input.                                               *)
LEMMA RankOrder ==
    ASSUME NEW S \in SUBSET Inputs, NEW a \in S
    PROVE  /\ Cardinality({j \in S : j <= a}) > 0
           /\ Cardinality({j \in S : j <= a}) <= Cardinality(S)
           /\ \A b \in S : a < b =>
                Cardinality({j \in S : j <= a}) < Cardinality({j \in S : j <= b})
  <1> DEFINE Upto(x) == {j \in S : j <= x}
  <1>1. S \subseteq Int
    BY RunLaneAssumption DEF Inputs
  <1>2. \A x \in S : Upto(x) \in SUBSET S /\ IsFiniteSet(Upto(x))
                        /\ Cardinality(Upto(x)) \in Nat
    BY RankType, FS_Subset, FS_CardinalityType
  <1>3. Cardinality(Upto(a)) # 0
    <2>1. a \in Upto(a)
      BY <1>1
    <2> QED
      BY <1>2, <2>1, FS_EmptySet
  <1>4. Cardinality(Upto(a)) <= Cardinality(S)
    BY <1>2, RankType, FS_Subset
  <1>5. ASSUME NEW b \in S, a < b
        PROVE  Cardinality(Upto(a)) < Cardinality(Upto(b))
    <2>1. Upto(a) \in SUBSET Upto(b)
      <3>1. a \in Int /\ b \in Int /\ \A j \in S : j \in Int
        BY <1>1
      <3>2. \A j \in S : j <= a => j <= b
        BY <1>5, <3>1
      <3> QED
        BY <3>2
    <2>2. b \in Upto(b) /\ b \notin Upto(a)
      BY <1>1, <1>5
    <2>3. Cardinality(Upto(a)) <= Cardinality(Upto(b))
            /\ Cardinality(Upto(a)) # Cardinality(Upto(b))
      BY <1>2, <2>1, <2>2, FS_Subset
    <2> QED
      BY <1>2, <2>3
  <1> QED
    BY <1>2, <1>3, <1>4, <1>5

(* What acceptance and the boundaries select is queued.                    *)
LEMMA SelectedQueued ==
    /\ AcceptedInbox \in SUBSET inbox
    /\ \A followUps : BoundaryInbox(followUps) \in SUBSET inbox
  BY DEF AcceptedInbox, BoundaryInbox, Take, OfKind

-----------------------------------------------------------------------------
(* Types and the control of the drive                                      *)

(* What makes TypeOK inductive: an operation is open exactly while its      *)
(* state exists, a task runs exactly while it names an operation, and the  *)
(* drive still owns the state, the response and the temporary data it      *)
(* works on.                                                               *)
Control ==
    /\ current = None <=> op.at = "none"
    /\ pc = "idle" <=> driving = None
    /\ RequestSettledOnce
    /\ TemporaryStateOwned
    /\ DriveOwnsState

ControlInv == TypeOK /\ Control

(* Placing selected inputs keeps the types of the queues.                  *)
LEMMA PlaceType ==
    ASSUME TypeOK, NEW S \in SUBSET inbox, NEW base \in Nat,
           PlaceInputs(S, base)
    PROVE  /\ place' \in [Inputs -> Nat]
           /\ pending' \subseteq Inputs
           /\ inbox' \subseteq Inputs
           /\ kind' = kind /\ sent' = sent /\ withdrawn' = withdrawn
           /\ Cardinality(S) \in Nat
  <1>1. S \in SUBSET Inputs
    BY DEF TypeOK
  <1>2. /\ Cardinality(S) \in Nat
        /\ \A i \in Inputs : Cardinality({j \in S : j <= i}) \in Nat
    BY <1>1, RankType
  <1>3. \A i \in Inputs : base + Cardinality({j \in S : j <= i}) \in Nat
    BY <1>2
  <1>4. place' \in [Inputs -> Nat]
    BY <1>3 DEF PlaceInputs, TypeOK
  <1> QED
    BY <1>2, <1>4 DEF PlaceInputs, TypeOK

(* The end of an operation is well typed: its state is gone and its result *)
(* recorded.                                                               *)
LEMMA TerminalType ==
    ASSUME TypeOK, current \in Ops, NEW s \in Statuses, Terminal(s)
    PROVE  /\ op' = NoState
           /\ op' \in OpStates
           /\ current' = None
           /\ result' \in [Ops -> Statuses \union {"none"}]
           /\ result'[current] # "none"
  <1>1. NoState \in OpStates
    BY DEF NoState, OpStates
  <1> QED
    BY <1>1 DEF TypeOK, Terminal, Statuses

LEMMA ControlInit == Init => ControlInv
  <1> SUFFICES ASSUME Init PROVE ControlInv
    OBVIOUS
  <1>1. TypeOK
    <2>1. NoState \in OpStates
      BY DEF NoState, OpStates
    <2>2. /\ kind \in [Inputs -> InputKinds \union {"unsent"}]
          /\ place \in [Inputs -> Nat]
          /\ result \in [Ops -> Statuses \union {"none"}]
      BY DEF Init
    <2>3. /\ sent \in 0..MaxInputs
          /\ crashes \in 0..MaxCrashes
          /\ plan \in [threshold : BOOLEAN, followUp : BOOLEAN]
      BY RunLaneAssumption DEF Init, NoPlan
    <2> QED
      BY <2>1, <2>2, <2>3 DEF Init, TypeOK
  <1>2. Control
    BY RunLaneAssumption DEF Init, Control, NoState, RequestSettledOnce,
       TemporaryStateOwned, DriveOwnsState
  <1> QED
    BY <1>1, <1>2 DEF ControlInv

LEMMA ControlStep == ControlInv /\ [Next]_vars => ControlInv'
  <1> SUFFICES ASSUME ControlInv, [Next]_vars PROVE ControlInv'
    OBVIOUS
  <1> USE RunLaneAssumption DEF ControlInv, Inputs, laneVars, taskVars,
      countVars, InputKinds, Statuses
  <1>t. TypeOK /\ Control
    OBVIOUS
  <1>n. /\ NoState \in OpStates
        /\ op \in OpStates
        /\ tip \in Nat /\ tip + 1 \in Nat
        /\ op.attempt + 1 \in Nat
    BY <1>t DEF TypeOK, OpStates, NoState
  <1>1. ASSUME NEW k \in InputKinds, Enqueue(k)
        PROVE  ControlInv'
    BY <1>t, <1>1 DEF Enqueue, TypeOK, Control, OpStates, NoState, NoPlan, RequestSettledOnce,
         TemporaryStateOwned, DriveOwnsState
  <1>2. ASSUME NEW i \in Inputs, CancelQueued(i)
        PROVE  ControlInv'
    BY <1>t, <1>2 DEF CancelQueued, TypeOK, Control, OpStates, NoState, NoPlan, RequestSettledOnce,
         TemporaryStateOwned, DriveOwnsState
  <1>3. ASSUME NEW o \in Ops, NEW prompts \in 0..1, Accept(o, prompts)
        PROVE  ControlInv'
    <2>s. /\ PlaceInputs(AcceptedInbox, tip)
          /\ AcceptedInbox \in SUBSET inbox
      BY <1>t, <1>3, SelectedQueued DEF Accept
    <2>p. /\ place' \in [Inputs -> Nat] /\ pending' \subseteq Inputs
          /\ inbox' \subseteq Inputs /\ kind' = kind /\ sent' = sent
          /\ withdrawn' = withdrawn /\ Cardinality(AcceptedInbox) \in Nat
      BY <1>t, <1>n, <2>s, PlaceType
    <2>1. op' \in OpStates /\ op'.at = "starting" /\ op'.control = "running"
      BY <1>t, <1>3 DEF Accept, OpStates, NoState, TypeOK
    <2>2. tip' \in Nat
      BY <1>n, <1>3, <2>p DEF Accept
    <2>3. TypeOK'
      BY <1>t, <1>3, <2>p, <2>1, <2>2 DEF Accept, TypeOK
    <2>4. Control'
      BY <1>t, <1>3, <2>1 DEF Accept, TypeOK, Control, RequestSettledOnce,
         TemporaryStateOwned, DriveOwnsState
    <2> QED
      BY <2>3, <2>4
  <1>4. CASE RequestAbort
    <2>1. TypeOK'
      BY <1>t, <1>4 DEF RequestAbort, TypeOK, OpStates, NoState, NoPlan, OfKind
    <2>2. Control'
      BY <1>t, <1>4 DEF RequestAbort, TypeOK, Control, OpStates, NoState, NoPlan, RequestSettledOnce,
         TemporaryStateOwned, DriveOwnsState
    <2> QED
      BY <2>1, <2>2
  <1>5. CASE Drive
    BY <1>t, <1>5 DEF Drive, TypeOK, Control, OpStates, NoState, NoPlan, RequestSettledOnce,
         TemporaryStateOwned, DriveOwnsState
  <1>6. CASE CheckAbort
    BY <1>t, <1>6 DEF CheckAbort, TypeOK, Control, OpStates, NoState, NoPlan, RequestSettledOnce,
         TemporaryStateOwned, DriveOwnsState
  <1>7. CASE ReturnResult
    BY <1>t, <1>7 DEF ReturnResult, TypeOK, Control, OpStates, NoState, NoPlan, RequestSettledOnce,
         TemporaryStateOwned, DriveOwnsState
  <1>8. CASE AbortSignal
    BY <1>t, <1>8 DEF AbortSignal, TypeOK, Control, OpStates, NoState, NoPlan, RequestSettledOnce,
         TemporaryStateOwned, DriveOwnsState
  <1>9. ASSUME NEW injected \in 0..1, StartRun(injected)
        PROVE  ControlInv'
    <2>1. tip + injected \in Nat
      BY <1>n
    <2>2. op' \in OpStates /\ op'.at = "checkpoint" /\ op'.control = op.control
      BY <1>n, <1>9, <2>1 DEF StartRun, OpStates
    <2>3. TypeOK'
      BY <1>t, <1>9, <2>1, <2>2 DEF StartRun, TypeOK
    <2>4. Control'
      BY <1>t, <1>9, <2>2 DEF StartRun, Acts, TypeOK, Control,
         RequestSettledOnce, TemporaryStateOwned, DriveOwnsState
    <2> QED
      BY <2>3, <2>4
  <1>10. ASSUME NEW threshold \in BOOLEAN, PrepareCheckpoint(threshold)
        PROVE  ControlInv'
    BY <1>t, <1>10 DEF PrepareCheckpoint, Acts, TypeOK, Control, OpStates, NoState, NoPlan, RequestSettledOnce,
         TemporaryStateOwned, DriveOwnsState
  <1>11. ASSUME NEW followUp \in BOOLEAN, BeforeRunEnd(followUp)
        PROVE  ControlInv'
    BY <1>t, <1>11 DEF BeforeRunEnd, TypeOK, Control, OpStates, NoState, NoPlan, RequestSettledOnce,
         TemporaryStateOwned, DriveOwnsState
  <1>12. CASE Checkpoint
    <2> DEFINE selected == BoundaryInbox(~plan.threshold /\ op.next = "mayFinish")
    <2>s. PlaceInputs(selected, tip) /\ selected \in SUBSET inbox
      BY <1>12, SelectedQueued DEF Checkpoint
    <2>p. /\ place' \in [Inputs -> Nat] /\ pending' \subseteq Inputs
          /\ inbox' \subseteq Inputs /\ kind' = kind /\ sent' = sent
          /\ withdrawn' = withdrawn /\ Cardinality(selected) \in Nat
      BY <1>t, <1>n, <2>s, PlaceType
    <2> HIDE DEF selected
    <2>1. tip + Cardinality(selected) \in Nat
      BY <1>n, <2>p
    <2>2. /\ \A t \in Nat, u \in BOOLEAN :
                Ready(t, u) \in OpStates /\ Ready(t, u).at = "ready"
          /\ op.trigger \in Nat /\ op.used \in BOOLEAN
      BY <1>n DEF Ready, OpStates
    <2>o. /\ \/ /\ op' \in OpStates /\ op'.at = "ready"
                /\ UNCHANGED <<current, result, preparation>>
             \/ /\ op' \in OpStates /\ op'.at = "summary" /\ preparation' = TRUE
                /\ UNCHANGED <<current, result>>
             \/ Terminal("completed") /\ UNCHANGED preparation
          /\ tip' \in Nat /\ issued' \in Nat
      <3> USE <1>t, <1>n, <2>1, <2>2 DEF TypeOK
      <3>1. CASE /\ tip' = tip + Cardinality(selected)
                 /\ op' = Ready(tip + Cardinality(selected), FALSE)
                 /\ issued' = 0
                 /\ UNCHANGED <<current, result, preparation>>
        BY <3>1
      <3>2. CASE /\ op' = [op EXCEPT !.at = "summary", !.reason = "threshold"]
                 /\ preparation' = TRUE
                 /\ UNCHANGED <<current, result, tip, issued>>
        <4>1. op' \in OpStates /\ op'.at = "summary"
          BY <3>2 DEF OpStates
        <4> QED
          BY <3>2, <4>1
      <3>3. CASE /\ op' = Ready(op.trigger, op.used)
                 /\ issued' = 0
                 /\ UNCHANGED <<current, result, preparation, tip>>
        BY <3>3
      <3>4. CASE /\ tip' = tip + 1
                 /\ op' = Ready(tip + 1, FALSE)
                 /\ issued' = 0
                 /\ UNCHANGED <<current, result, preparation>>
        BY <3>4
      <3>5. CASE Terminal("completed") /\ UNCHANGED <<preparation, tip, issued>>
        BY <3>5
      <3> QED
        BY <1>12, <3>1, <3>2, <3>3, <3>4, <3>5 DEF Checkpoint, selected
    <2>4. /\ pc = "commit" /\ current = driving /\ op.at = "checkpoint"
          /\ pc' = "check" /\ plan' = NoPlan
          /\ UNCHANGED <<frames, driving, due, overflowed, unsettled, crashes>>
      BY <1>12 DEF Checkpoint
    <2>5. driving \in Ops /\ current \in Ops
      BY <1>t, <2>4 DEF TypeOK, Control
    <2>6. TypeOK'
      BY <1>t, <1>n, <2>p, <2>o, <2>4, <2>5, TerminalType DEF TypeOK, NoPlan
    <2>7. Control'
      BY <1>t, <2>o, <2>4, <2>5 DEF Terminal, TypeOK, Control, NoState,
         RequestSettledOnce, TemporaryStateOwned, DriveOwnsState
    <2> QED
      BY <2>6, <2>7
  <1>13. CASE FinishReadyFailure
    BY <1>t, <1>13 DEF FinishReadyFailure, Acts, Terminal, TypeOK, Control, OpStates, NoState, NoPlan, RequestSettledOnce,
         TemporaryStateOwned, DriveOwnsState
  <1>14. CASE PublishGenerationIntent
    <2>1. op' \in OpStates /\ op'.at = "effectPending" /\ op'.control = op.control
      BY <1>n, <1>14 DEF PublishGenerationIntent, OpStates
    <2>2. TypeOK'
      BY <1>t, <1>14, <2>1 DEF PublishGenerationIntent, TypeOK
    <2>3. Control'
      BY <1>t, <1>14, <2>1 DEF PublishGenerationIntent, Acts, TypeOK, Control,
         RequestSettledOnce, TemporaryStateOwned, DriveOwnsState
    <2> QED
      BY <2>2, <2>3
  <1>15. CASE AppendFrame
    BY <1>t, <1>15 DEF AppendFrame, TypeOK, Control, OpStates, NoState, NoPlan, RequestSettledOnce,
         TemporaryStateOwned, DriveOwnsState
  <1>16. CASE SettleResponse
    <2>1. /\ current \in Ops /\ current = driving /\ unsettled = 1
          /\ ~preparation
      BY <1>t, <1>16 DEF SettleResponse, TypeOK, Control, RequestSettledOnce,
         TemporaryStateOwned, DriveOwnsState
    <2>2. \/ /\ op' \in OpStates
             /\ op'.at \in {"checkpoint", "tools", "retryWait"}
             /\ UNCHANGED <<current, result, preparation>>
          \/ /\ op' \in OpStates /\ op'.at = "summary" /\ preparation' = TRUE
             /\ UNCHANGED <<current, result>>
          \/ Terminal("failed") /\ UNCHANGED preparation
      <3>1. CASE op' = [op EXCEPT !.at = "checkpoint", !.next = "mayFinish",
                                  !.trigger = tip + 1]
                 /\ UNCHANGED <<current, result, preparation>>
        BY <1>n, <3>1 DEF OpStates
      <3>2. CASE /\ \E n \in 1..2 : op' = [op EXCEPT !.at = "tools", !.calls = n]
                 /\ UNCHANGED <<current, result, preparation>>
        <4>1. PICK n \in 1..2 : op' = [op EXCEPT !.at = "tools", !.calls = n]
          BY <3>2
        <4>2. n \in Nat
          OBVIOUS
        <4>3. op' \in OpStates /\ op'.at = "tools"
          BY <1>n, <4>1, <4>2 DEF OpStates
        <4> QED
          BY <3>2, <4>3
      <3>3. CASE SettleRetryable /\ UNCHANGED preparation
        BY <1>n, <3>3 DEF SettleRetryable, OpStates
      <3>4. CASE Terminal("failed") /\ UNCHANGED preparation
        BY <3>4
      <3>5. CASE \E available \in BOOLEAN : SettleOverflow(available)
        BY <1>n, <3>5 DEF SettleOverflow, OpStates
      <3> QED
        BY <1>16, <3>1, <3>2, <3>3, <3>4, <3>5 DEF SettleResponse
    <2>3. overflowed' \subseteq Nat /\ due' \in BOOLEAN
      BY <1>t, <1>16 DEF SettleResponse, SettleRetryable, SettleOverflow, TypeOK,
         OpStates
    <2>4. /\ tip' = tip + 1 /\ unsettled' = unsettled - 1 /\ frames' = FALSE
          /\ pc' = "check"
          /\ UNCHANGED <<inbox, kind, pending, place, sent, withdrawn, driving,
                         plan, issued, crashes>>
      BY <1>16 DEF SettleResponse, WriteResponse
    <2>u. /\ tip' \in Nat /\ unsettled' \in Nat /\ frames' \in BOOLEAN
          /\ preparation' \in BOOLEAN
      <3>1. tip' \in Nat
        BY <1>n, <2>4
      <3>2. unsettled' = 0 /\ unsettled' \in Nat
        BY <2>1, <2>4
      <3>3. preparation' \in BOOLEAN
        BY <1>t, <2>2, <2>4 DEF TypeOK
      <3>4. frames' \in BOOLEAN
        BY <2>4
      <3> QED
        BY <3>1, <3>2, <3>3, <3>4
    <2>r. /\ op' \in OpStates /\ current' \in Ops \union {None}
          /\ result' \in [Ops -> Statuses \union {"none"}]
      BY <1>t, <2>1, <2>2, TerminalType DEF TypeOK
    <2>5. TypeOK'
      BY <1>t, <2>3, <2>4, <2>r, <2>u DEF TypeOK
    <2>6. Control'
      BY <1>t, <2>1, <2>2, <2>4 DEF Terminal, TypeOK, Control, NoState,
         RequestSettledOnce, TemporaryStateOwned, DriveOwnsState
    <2> QED
      BY <2>5, <2>6
  <1>17. CASE RecoverGeneration
    <2>1. /\ current \in Ops /\ current = driving /\ unsettled = 1
          /\ ~preparation
      BY <1>t, <1>17 DEF RecoverGeneration, Acts, TypeOK, Control,
         RequestSettledOnce, TemporaryStateOwned, DriveOwnsState
    <2>2. \/ /\ op' \in OpStates /\ op'.at = "retryWait"
             /\ UNCHANGED <<current, result>>
          \/ Terminal("failed")
      BY <1>n, <1>17 DEF RecoverGeneration, SettleRetryable, OpStates
    <2>3. due' \in BOOLEAN
      BY <1>t, <1>17 DEF RecoverGeneration, SettleRetryable, TypeOK
    <2>4. /\ tip' = tip + 1 /\ unsettled' = unsettled - 1 /\ frames' = FALSE
          /\ pc' = "check"
          /\ UNCHANGED <<inbox, kind, pending, place, sent, withdrawn, driving,
                         plan, preparation, overflowed, issued, crashes>>
      BY <1>17 DEF RecoverGeneration, WriteResponse
    <2>u. /\ tip' \in Nat /\ unsettled' \in Nat /\ frames' \in BOOLEAN
          /\ preparation' \in BOOLEAN
      <3>1. tip' \in Nat
        BY <1>n, <2>4
      <3>2. unsettled' = 0 /\ unsettled' \in Nat
        BY <2>1, <2>4
      <3>3. preparation' \in BOOLEAN
        BY <1>t, <2>2, <2>4 DEF TypeOK
      <3>4. frames' \in BOOLEAN
        BY <2>4
      <3> QED
        BY <3>1, <3>2, <3>3, <3>4
    <2>r. /\ op' \in OpStates /\ current' \in Ops \union {None}
          /\ result' \in [Ops -> Statuses \union {"none"}]
      BY <1>t, <2>1, <2>2, TerminalType DEF TypeOK
    <2>5. TypeOK'
      BY <1>t, <2>3, <2>4, <2>r, <2>u DEF TypeOK
    <2>6. Control'
      BY <1>t, <2>1, <2>2, <2>4 DEF Terminal, TypeOK, Control, NoState,
         RequestSettledOnce, TemporaryStateOwned, DriveOwnsState
    <2> QED
      BY <2>5, <2>6
  <1>18. CASE TimePasses
    BY <1>t, <1>18 DEF TimePasses, TypeOK, Control, OpStates, NoState, NoPlan, RequestSettledOnce,
         TemporaryStateOwned, DriveOwnsState
  <1>19. CASE RetryWait
    BY <1>t, <1>19 DEF RetryWait, Acts, TypeOK, Control, OpStates, NoState, NoPlan, RequestSettledOnce,
         TemporaryStateOwned, DriveOwnsState
  <1>20. CASE ReturnWaiting
    BY <1>t, <1>20 DEF ReturnWaiting, Acts, TypeOK, Control, OpStates, NoState, NoPlan, RequestSettledOnce,
         TemporaryStateOwned, DriveOwnsState
  <1>21. ASSUME NEW terminates \in BOOLEAN, NEW sequential \in BOOLEAN,
                MaterializeOutcome(terminates, sequential)
         PROVE  ControlInv'
    <2>1. op.calls > 1 => op.calls - 1 \in Nat
      BY <1>n DEF OpStates
    <2>2. /\ op' \in OpStates
          /\ op'.at \in {"tools", "checkpoint"} /\ op'.control = op.control
      BY <1>n, <1>21, <2>1 DEF MaterializeOutcome, Acts, OpStates
    <2>3. TypeOK'
      BY <1>t, <1>n, <1>21, <2>2 DEF MaterializeOutcome, TypeOK
    <2>4. Control'
      BY <1>t, <1>21, <2>2 DEF MaterializeOutcome, Acts, TypeOK, Control,
         RequestSettledOnce, TemporaryStateOwned, DriveOwnsState
    <2> QED
      BY <2>3, <2>4
  <1>22. ASSUME NEW outcome \in {"completed", "declined", "failed"},
                PublishOutcome(outcome)
         PROVE  ControlInv'
    <2>1. PICK selected \in SUBSET inbox, base \in Nat :
                /\ PlaceInputs(selected, base)
                /\ tip' = base + Cardinality(selected)
                /\ \/ /\ \E settings \in OpStates :
                            \/ op' = [settings EXCEPT !.at = "ready",
                                        !.trigger = base + Cardinality(selected),
                                        !.used = FALSE, !.attempt = 1,
                                        !.next = "needAssistant"]
                            \/ op' = [settings EXCEPT !.at = "ready", !.attempt = 1]
                            \/ op' = [settings EXCEPT !.at = "checkpoint"]
                      /\ UNCHANGED <<current, result>>
                   \/ Terminal("failed")
      <3> DEFINE base == IF outcome = "completed" THEN tip + 1 ELSE tip
                 resumes == outcome = "completed"
                                \/ (outcome = "declined" /\ op.reason = "threshold")
                 selected == IF resumes
                             THEN BoundaryInbox(outcome = "declined"
                                                    /\ op.next = "mayFinish")
                             ELSE {}
                 settings == [op EXCEPT !.compacts = @ /\ outcome # "declined",
                                        !.reason = "none"]
      <3>1. base \in Nat /\ selected \in SUBSET inbox
        BY <1>n, SelectedQueued
      <3>2. settings \in OpStates
        <4>1. (op.compacts /\ outcome # "declined") \in BOOLEAN
          OBVIOUS
        <4> QED
          BY <1>n, <4>1 DEF OpStates
      <3> HIDE DEF settings
      <3> QED
        BY <1>22, <3>1, <3>2 DEF PublishOutcome, settings
    <2>p. /\ place' \in [Inputs -> Nat] /\ pending' \subseteq Inputs
          /\ inbox' \subseteq Inputs /\ kind' = kind /\ sent' = sent
          /\ withdrawn' = withdrawn /\ Cardinality(selected) \in Nat
      BY <1>t, <2>1, PlaceType
    <2>2. base + Cardinality(selected) \in Nat
      BY <2>p
    <2>3. \/ /\ op' \in OpStates /\ op'.at \in {"ready", "checkpoint"}
             /\ UNCHANGED <<current, result>>
          \/ Terminal("failed")
      <3>1. CASE /\ \E settings \in OpStates :
                        \/ op' = [settings EXCEPT !.at = "ready",
                                    !.trigger = base + Cardinality(selected),
                                    !.used = FALSE, !.attempt = 1,
                                    !.next = "needAssistant"]
                        \/ op' = [settings EXCEPT !.at = "ready", !.attempt = 1]
                        \/ op' = [settings EXCEPT !.at = "checkpoint"]
                 /\ UNCHANGED <<current, result>>
        <4>1. PICK settings \in OpStates :
                        \/ op' = [settings EXCEPT !.at = "ready",
                                    !.trigger = base + Cardinality(selected),
                                    !.used = FALSE, !.attempt = 1,
                                    !.next = "needAssistant"]
                        \/ op' = [settings EXCEPT !.at = "ready", !.attempt = 1]
                        \/ op' = [settings EXCEPT !.at = "checkpoint"]
          BY <3>1
        <4>2. ASSUME op' = [settings EXCEPT !.at = "ready",
                              !.trigger = base + Cardinality(selected),
                              !.used = FALSE, !.attempt = 1,
                              !.next = "needAssistant"]
              PROVE  op' \in OpStates /\ op'.at = "ready"
          BY <2>2, <4>2 DEF OpStates
        <4>3. ASSUME op' = [settings EXCEPT !.at = "ready", !.attempt = 1]
              PROVE  op' \in OpStates /\ op'.at = "ready"
          BY <4>3 DEF OpStates
        <4>4. ASSUME op' = [settings EXCEPT !.at = "checkpoint"]
              PROVE  op' \in OpStates /\ op'.at = "checkpoint"
          BY <4>4 DEF OpStates
        <4> QED
          BY <3>1, <4>1, <4>2, <4>3, <4>4
      <3> QED
        BY <2>1, <3>1
    <2>4. /\ pc = "act" /\ current = driving /\ op.at = "summary" /\ pc' = "check"
          /\ preparation' = FALSE /\ issued' \in Nat
          /\ UNCHANGED <<frames, driving, plan, due, overflowed, unsettled, crashes>>
      BY <1>t, <1>22 DEF PublishOutcome, Acts, TypeOK
    <2>5. driving \in Ops /\ current \in Ops
      BY <1>t, <2>4 DEF TypeOK, Control
    <2>6. TypeOK'
      BY <1>t, <2>1, <2>p, <2>2, <2>3, <2>4, <2>5, TerminalType DEF TypeOK
    <2>7. Control'
      BY <1>t, <2>3, <2>4, <2>5 DEF Terminal, TypeOK, Control, NoState,
         RequestSettledOnce, TemporaryStateOwned, DriveOwnsState
    <2> QED
      BY <2>6, <2>7
  <1>23. CASE SummaryOvertaken
    BY <1>t, <1>23 DEF SummaryOvertaken, Acts, TypeOK, Control, OpStates, NoState, NoPlan, RequestSettledOnce,
         TemporaryStateOwned, DriveOwnsState
  <1>24. CASE ReconcileAbort
    <2>1. current \in Ops /\ current = driving
      BY <1>t, <1>24 DEF ReconcileAbort, TypeOK, Control
    <2>2. /\ tip' \in Nat /\ frames' = FALSE /\ unsettled' = 0
          /\ preparation' = FALSE
      BY <1>t, <1>24 DEF ReconcileAbort, PendingResponse, WriteResponse, TypeOK,
         Control, RequestSettledOnce, TemporaryStateOwned
    <2>3. /\ Terminal("aborted") /\ pc' = "idle" /\ driving' = None
          /\ UNCHANGED <<inbox, kind, pending, place, sent, withdrawn, plan, due,
                         overflowed, issued, crashes>>
      BY <1>24 DEF ReconcileAbort
    <2>4. TypeOK'
      BY <1>t, <1>n, <2>1, <2>2, <2>3 DEF Terminal, TypeOK
    <2>5. Control'
      BY <2>1, <2>2, <2>3 DEF Terminal, Control, NoState, RequestSettledOnce,
         TemporaryStateOwned, DriveOwnsState
    <2> QED
      BY <2>4, <2>5
  <1>25. CASE Crash
    BY <1>t, <1>25 DEF Crash, TypeOK, Control, OpStates, NoState, NoPlan, RequestSettledOnce,
         TemporaryStateOwned, DriveOwnsState
  <1>26. CASE UNCHANGED vars
    BY <1>t, <1>26 DEF vars, TypeOK, Control, RequestSettledOnce,
       TemporaryStateOwned, DriveOwnsState
  <1> QED
    BY <1>1, <1>2, <1>3, <1>4, <1>5, <1>6, <1>7, <1>8, <1>9, <1>10, <1>11, <1>12, <1>13, <1>14, <1>15, <1>16, <1>17, <1>18, <1>19, <1>20, <1>21, <1>22, <1>23, <1>24, <1>25, <1>26
       DEF Next, Callers, DriveStep

(* The control invariant holds throughout.                                 *)
LEMMA ControlAlways == Spec => []ControlInv
  BY ControlInit, ControlStep, PTL DEF Spec

(* Every durable and volatile variable of the lane keeps its type: no       *)
(* transaction of lane.py, checkpoint.py, response.py, recovery.py or       *)
(* reconcile.py writes a state outside the declared OperationState kinds.   *)
THEOREM TypeCorrect == Spec => []TypeOK
  <1>1. ControlInv => TypeOK
    BY DEF ControlInv
  <1> QED
    BY <1>1, ControlAlways, PTL

(* A published request intent is settled by exactly one response entry, for *)
(* every interleaving of the stream, recovery, abort and crashes.           *)
THEOREM SettledOnce == Spec => []RequestSettledOnce
  <1>1. ControlInv => RequestSettledOnce
    BY DEF ControlInv, Control
  <1> QED
    BY <1>1, ControlAlways, PTL

(* Frames and preparations never outlive the state that owns them.          *)
THEOREM TemporaryOwned == Spec => []TemporaryStateOwned
  <1>1. ControlInv => TemporaryStateOwned
    BY DEF ControlInv, Control
  <1> QED
    BY <1>1, ControlAlways, PTL

(* The ownership checks of settle_response, run_checkpoint and              *)
(* reconcile_abort, which fault the harness, never fail in a run.           *)
THEOREM OwnsState == Spec => []DriveOwnsState
  <1>1. ControlInv => DriveOwnsState
    BY DEF ControlInv, Control
  <1> QED
    BY <1>1, ControlAlways, PTL

(* What the run of restarts checks of the stored state, for any number of   *)
(* inputs, attempts and crashes: the response owed, the temporary data and  *)
(* the drive's own state.                                                   *)
THEOREM StateStaysOwned == Spec => []StateOwned
  <1>1. ControlInv => StateOwned
    BY DEF ControlInv, Control, StateOwned
  <1> QED
    BY <1>1, ControlAlways, PTL

-----------------------------------------------------------------------------
(* Queued inputs                                                           *)

(* The queue invariant.  KindFifo needs DistinctEntries' bound (a placed   *)
(* input lies on the branch, so a later placement lies above it) and       *)
(* InputAccounted (what is placed is no longer queued).                    *)
QueueInv ==
    /\ \A i \in inbox : kind[i] \in InputKinds
    /\ InboxBackedByPayload
    /\ InputAccounted
    /\ KindFifo
    /\ DistinctEntries

-----------------------------------------------------------------------------
(* Selections                                                              *)

(* S takes from the inbox without passing over an earlier input of a kind  *)
(* it takes.                                                               *)
Downward(S) ==
    /\ S \in SUBSET inbox
    /\ \A i \in inbox, j \in S : i < j /\ kind[i] = kind[j] => i \in S

(* Acceptance and both boundaries select downward-closed sets.             *)
LEMMA SelectionDownward ==
    ASSUME TypeOK
    PROVE  /\ Downward(AcceptedInbox)
           /\ \A followUps : Downward(BoundaryInbox(followUps))
           /\ Downward({})
  <1>1. \A i \in inbox : i \in Int
    BY RunLaneAssumption DEF TypeOK, Inputs
  <1>2. ASSUME NEW mode, NEW k, NEW i \in inbox, NEW j \in Take(mode, OfKind(k)),
               i < j, kind[i] = kind[j]
        PROVE  i \in Take(mode, OfKind(k))
    BY <1>1, <1>2 DEF Take, OfKind
  <1>3. \A mode, k : \A j \in Take(mode, OfKind(k)) : j \in inbox /\ kind[j] = k
    BY DEF Take, OfKind
  <1>4. Downward(AcceptedInbox)
    <2>1. ASSUME NEW i \in inbox, NEW j \in AcceptedInbox, i < j,
                 kind[i] = kind[j]
          PROVE  i \in AcceptedInbox
      <3>1. CASE j \in OfKind("nextRun")
        BY <2>1, <3>1 DEF AcceptedInbox, OfKind
      <3>2. CASE j \in Take(SteeringMode, OfKind("steer"))
        BY <1>2, <2>1, <3>2 DEF AcceptedInbox
      <3>3. CASE j \in Take(FollowUpMode, OfKind("followUp"))
        BY <1>2, <2>1, <3>3 DEF AcceptedInbox
      <3> QED
        BY <3>1, <3>2, <3>3 DEF AcceptedInbox
    <2> QED
      BY <2>1, SelectedQueued DEF Downward
  <1>5. ASSUME NEW followUps
        PROVE  Downward(BoundaryInbox(followUps))
    BY <1>2, SelectedQueued DEF Downward, BoundaryInbox
  <1> QED
    BY <1>4, <1>5 DEF Downward

(* Placing a downward-closed selection above everything placed so far      *)
(* keeps the queue invariant.                                              *)
LEMMA PlaceQueue ==
    ASSUME TypeOK, QueueInv, NEW S, Downward(S), NEW base \in Nat,
           base >= tip, PlaceInputs(S, base),
           tip' \in Nat, tip' >= base + Cardinality(S)
    PROVE  QueueInv'
  <1> DEFINE rank(i) == Cardinality({j \in S : j <= i})
  <1>1. S \in SUBSET Inputs
    BY DEF Downward, TypeOK
  <1>2. /\ Cardinality(S) \in Nat
        /\ \A i \in Inputs : rank(i) \in Nat
    BY <1>1, RankType
  <1>3. \A i \in S : /\ rank(i) > 0 /\ rank(i) <= Cardinality(S)
                     /\ \A b \in S : i < b => rank(i) < rank(b)
    BY <1>1, RankOrder
  <1>4. /\ \A i \in S : place'[i] = base + rank(i)
        /\ \A i \in Inputs \ S : place'[i] = place[i]
        /\ inbox' = inbox \ S /\ pending' = pending \ S
        /\ kind' = kind /\ sent' = sent /\ withdrawn' = withdrawn
    BY <1>1 DEF PlaceInputs
  <1>5. /\ \A i \in Inputs : i \in Int /\ place[i] \in Nat /\ place[i] <= tip
        /\ tip \in Nat
        /\ 1..sent \in SUBSET Inputs
    BY RunLaneAssumption DEF TypeOK, QueueInv, DistinctEntries, Inputs
  <1> HIDE DEF rank
  <1>6. \A i \in S : place'[i] > base /\ place'[i] <= base + Cardinality(S)
    BY <1>1, <1>2, <1>3, <1>4
  <1>7. \A i \in Inputs \ S : place'[i] <= tip /\ place'[i] \in Nat
    BY <1>4, <1>5
  <1>8. \A i \in Inputs : place'[i] \in Nat
    BY <1>1, <1>2, <1>4, <1>5
  <1>9. InboxBackedByPayload'
    BY <1>4 DEF QueueInv, InboxBackedByPayload
  <1>10. InputAccounted'
    <2>1. \A i \in S : place'[i] > 0 /\ i \in inbox /\ i \notin withdrawn
      BY <1>1, <1>5, <1>6, <1>8 DEF Downward, QueueInv, InputAccounted
    <2>2. \A i \in Inputs \ S : place'[i] = place[i]
      BY <1>4
    <2> QED
      BY <1>1, <1>4, <2>1, <2>2 DEF QueueInv, InputAccounted
  <1>11. KindFifo'
    <2> SUFFICES ASSUME NEW i \in 1..sent, NEW j \in 1..sent,
                        i < j, kind[i] = kind[j], place'[j] > 0
                 PROVE  i \notin inbox' /\ place'[i] < place'[j]
      BY <1>4 DEF KindFifo
    <2>0. i \in Inputs /\ j \in Inputs
      BY <1>5
    <2>1. CASE j \in S
      <3>1. i \in inbox => i \in S
        BY <2>1 DEF Downward
      <3>2. CASE i \in S
        BY <1>1, <1>2, <1>3, <1>4, <2>0, <2>1, <3>2
      <3>3. CASE i \notin S
        <4>1. place'[i] <= tip /\ place'[i] \in Nat /\ place'[j] > base
              /\ place'[j] \in Nat
          BY <1>6, <1>7, <1>8, <2>0, <2>1, <3>3
        <4>2. i \notin inbox'
          BY <1>4, <3>1, <3>3
        <4> QED
          BY <1>5, <4>1, <4>2
      <3> QED
        BY <3>2, <3>3
    <2>2. CASE j \notin S
      <3>1. place'[j] = place[j]
        BY <1>4, <2>0, <2>2
      <3>2. i \notin inbox /\ place[i] < place[j]
        BY <3>1 DEF QueueInv, KindFifo
      <3>3. i \notin S
        BY <3>2 DEF Downward
      <3> QED
        BY <1>4, <2>0, <3>1, <3>2, <3>3
    <2> QED
      BY <2>1, <2>2
  <1>12. DistinctEntries'
    <2>1. ASSUME NEW i \in Inputs
          PROVE  place'[i] <= tip'
      BY <1>2, <1>5, <1>6, <1>7, <1>8
    <2>2. ASSUME NEW i \in Inputs, NEW j \in Inputs, place'[i] > 0, i # j
          PROVE  place'[i] # place'[j]
      <3>1. CASE i \in S /\ j \in S
        <4>1. i < j \/ j < i
          BY <1>5, <2>2
        <4>2. rank(i) # rank(j)
          BY <1>2, <1>3, <3>1, <4>1
        <4> QED
          BY <1>2, <1>4, <3>1, <4>2
      <3>2. CASE i \in S /\ j \notin S
        BY <1>5, <1>6, <1>7, <1>8, <3>2
      <3>3. CASE i \notin S /\ j \in S
        BY <1>5, <1>6, <1>7, <1>8, <3>3
      <3>4. CASE i \notin S /\ j \notin S
        BY <1>4, <2>2, <3>4 DEF QueueInv, DistinctEntries
      <3> QED
        BY <3>1, <3>2, <3>3, <3>4
    <2> QED
      BY <2>1, <2>2 DEF DistinctEntries
  <1>13. \A i \in inbox' : kind'[i] \in InputKinds
    BY <1>4 DEF QueueInv
  <1> QED
    BY <1>9, <1>10, <1>11, <1>12, <1>13 DEF QueueInv

(* A step that touches no queue and only adds entries keeps the invariant. *)
LEMMA QueueUntouched ==
    ASSUME TypeOK, QueueInv, UNCHANGED laneVars, tip' \in Nat, tip' >= tip
    PROVE  QueueInv'
  <1>1. \A i \in Inputs : place[i] \in Nat /\ place[i] <= tip
    BY DEF TypeOK, QueueInv, DistinctEntries
  <1>2. DistinctEntries'
    BY <1>1 DEF TypeOK, QueueInv, DistinctEntries, laneVars
  <1> QED
    BY <1>2 DEF QueueInv, InboxBackedByPayload, InputAccounted, KindFifo, laneVars

LEMMA QueueInit == Init => QueueInv
  BY RunLaneAssumption DEF Init, QueueInv, InboxBackedByPayload, InputAccounted,
     KindFifo, DistinctEntries, Inputs

LEMMA QueueStep == TypeOK /\ QueueInv /\ [Next]_vars => QueueInv'
  <1> SUFFICES ASSUME TypeOK, QueueInv, [Next]_vars PROVE QueueInv'
    OBVIOUS
  <1>n. tip \in Nat /\ tip + 1 \in Nat /\ tip + 1 >= tip
    BY DEF TypeOK
  <1>1. ASSUME NEW k \in InputKinds, Enqueue(k)
        PROVE  QueueInv'
    <2>1. /\ sent \in Nat /\ sent + 1 \in Inputs /\ sent' = sent + 1
          /\ inbox \in SUBSET Inputs /\ pending \in SUBSET Inputs
      BY <1>1, RunLaneAssumption DEF Enqueue, TypeOK, Inputs
    <2>2. /\ inbox' = inbox \union {sent + 1}
          /\ pending' = pending \union {sent + 1}
          /\ \A i \in Inputs : i # sent + 1 => kind'[i] = kind[i]
          /\ UNCHANGED <<place, withdrawn, tip>>
      BY <1>1, <2>1 DEF Enqueue, TypeOK
    <2>3. /\ sent + 1 \notin inbox /\ sent + 1 \notin withdrawn
          /\ ~(place[sent + 1] > 0)
      BY <2>1 DEF QueueInv, InputAccounted
    <2>4. InputAccounted'
      <3>1. \A i \in Inputs : i <= sent + 1 <=> (i <= sent \/ i = sent + 1)
        BY <2>1, RunLaneAssumption DEF Inputs
      <3> QED
        BY <2>1, <2>2, <2>3, <3>1 DEF QueueInv, InputAccounted
    <2>5. KindFifo'
      <3> SUFFICES ASSUME NEW i \in 1..(sent + 1), NEW j \in 1..(sent + 1),
                          i < j, kind'[i] = kind'[j], place[j] > 0
                   PROVE  i \notin inbox' /\ place[i] < place[j]
        BY <2>1, <2>2 DEF KindFifo
      <3>1. i \in 1..sent /\ j \in 1..sent /\ i \in Inputs /\ j \in Inputs
            /\ i # sent + 1 /\ j # sent + 1
        BY <2>1, <2>3, RunLaneAssumption DEF Inputs
      <3> QED
        BY <2>2, <3>1 DEF QueueInv, KindFifo
    <2>6. \A i \in inbox' : kind'[i] \in InputKinds
      BY <1>1, <2>1, <2>2 DEF Enqueue, TypeOK, QueueInv
    <2> QED
      BY <2>2, <2>4, <2>5, <2>6
         DEF QueueInv, InboxBackedByPayload, DistinctEntries
  <1>2. ASSUME NEW i \in Inputs, CancelQueued(i)
        PROVE  QueueInv'
    <2>1. ~(place[i] > 0)
      BY <1>2 DEF CancelQueued, QueueInv, InputAccounted
    <2> QED
      BY <1>2, <2>1 DEF CancelQueued, TypeOK, QueueInv, InboxBackedByPayload,
         InputAccounted, KindFifo, DistinctEntries
  <1>3. ASSUME NEW o \in Ops, NEW prompts \in 0..1, Accept(o, prompts)
        PROVE  QueueInv'
    <2>1. /\ PlaceInputs(AcceptedInbox, tip) /\ Downward(AcceptedInbox)
          /\ tip' = tip + Cardinality(AcceptedInbox) + prompts
      BY <1>3, SelectionDownward DEF Accept
    <2>2. Cardinality(AcceptedInbox) \in Nat
      BY <2>1, RankType DEF Downward, TypeOK
    <2>3. tip' \in Nat /\ tip' >= tip + Cardinality(AcceptedInbox)
      BY <1>n, <2>1, <2>2
    <2> QED
      BY <1>n, <2>1, <2>3, PlaceQueue
  <1>4. CASE RequestAbort
    <2> DEFINE drained == OfKind("steer") \union OfKind("followUp")
    <2>1. drained \in SUBSET inbox /\ inbox \in SUBSET Inputs
      BY DEF OfKind, TypeOK
    <2>2. /\ inbox' = inbox \ drained /\ pending' = pending \ drained
          /\ withdrawn' = withdrawn \union drained
          /\ UNCHANGED <<kind, place, sent, tip>>
      BY <1>4 DEF RequestAbort
    <2>3. \A i \in drained : ~(place[i] > 0)
      BY <2>1 DEF QueueInv, InputAccounted
    <2> HIDE DEF drained
    <2> QED
      BY <2>1, <2>2, <2>3 DEF QueueInv, InboxBackedByPayload,
         InputAccounted, KindFifo, DistinctEntries
  <1>12. CASE Checkpoint
    <2> DEFINE selected == BoundaryInbox(~plan.threshold /\ op.next = "mayFinish")
    <2>1. PlaceInputs(selected, tip) /\ Downward(selected)
      BY <1>12, SelectionDownward DEF Checkpoint
    <2>2. Cardinality(selected) \in Nat
      BY <2>1, RankType DEF Downward, TypeOK
    <2>3. selected = {} => Cardinality(selected) = 0
      BY FS_EmptySet
    <2> HIDE DEF selected
    <2>4. \/ tip' = tip + Cardinality(selected)
          \/ selected = {} /\ tip' \in {tip, tip + 1}
      BY <1>12 DEF Checkpoint, selected
    <2>5. tip' \in Nat /\ tip' >= tip + Cardinality(selected)
      BY <1>n, <2>2, <2>3, <2>4
    <2> QED
      BY <1>n, <2>1, <2>5, PlaceQueue
  <1>22. ASSUME NEW outcome \in {"completed", "declined", "failed"},
                PublishOutcome(outcome)
         PROVE  QueueInv'
    <2> DEFINE base == IF outcome = "completed" THEN tip + 1 ELSE tip
               resumes == outcome = "completed"
                              \/ (outcome = "declined" /\ op.reason = "threshold")
               selected == IF resumes
                           THEN BoundaryInbox(outcome = "declined"
                                                  /\ op.next = "mayFinish")
                           ELSE {}
    <2>1. Downward(selected)
      BY SelectionDownward
    <2>2. base \in Nat /\ base >= tip
      BY <1>n
    <2>3. PlaceInputs(selected, base) /\ tip' = base + Cardinality(selected)
      BY <1>22 DEF PublishOutcome
    <2> HIDE DEF base, selected
    <2>4. Cardinality(selected) \in Nat
      BY <2>1, RankType DEF Downward, TypeOK
    <2>5. tip' \in Nat /\ tip' >= base + Cardinality(selected)
      BY <2>2, <2>3, <2>4
    <2> QED
      BY <2>1, <2>2, <2>3, <2>5, PlaceQueue
  <1>q. ASSUME UNCHANGED laneVars, tip' \in {tip, tip + 1}
        PROVE  QueueInv'
    BY <1>n, <1>q, QueueUntouched
  <1>9. ASSUME NEW injected \in 0..1, StartRun(injected)
        PROVE  QueueInv'
    <2>1. injected \in {0, 1}
      OBVIOUS
    <2>2. tip + injected \in {tip, tip + 1}
      BY <1>n, <2>1
    <2> QED
      BY <1>9, <1>q, <2>2 DEF StartRun
  <1>21. ASSUME NEW terminates \in BOOLEAN, NEW sequential \in BOOLEAN,
                MaterializeOutcome(terminates, sequential)
         PROVE  QueueInv'
    BY <1>21, <1>q DEF MaterializeOutcome
  <1>d. CASE \/ Drive \/ CheckAbort \/ ReturnResult \/ AbortSignal
             \/ FinishReadyFailure \/ PublishGenerationIntent \/ AppendFrame
             \/ TimePasses \/ RetryWait \/ ReturnWaiting \/ SummaryOvertaken
             \/ Crash
    BY <1>d, <1>q DEF Drive, CheckAbort, ReturnResult, AbortSignal,
       FinishReadyFailure, PublishGenerationIntent, AppendFrame, TimePasses,
       RetryWait, ReturnWaiting, SummaryOvertaken, Crash
  <1>w. CASE SettleResponse \/ RecoverGeneration \/ ReconcileAbort
    BY <1>w, <1>q DEF SettleResponse, RecoverGeneration, ReconcileAbort,
       WriteResponse
  <1>10. ASSUME NEW threshold \in BOOLEAN, PrepareCheckpoint(threshold)
         PROVE  QueueInv'
    BY <1>10, <1>q DEF PrepareCheckpoint
  <1>11. ASSUME NEW followUp \in BOOLEAN, BeforeRunEnd(followUp)
         PROVE  QueueInv'
    BY <1>11, <1>q DEF BeforeRunEnd
  <1>26. CASE UNCHANGED vars
    BY <1>26, <1>q DEF vars, laneVars
  <1> QED
    BY <1>1, <1>2, <1>3, <1>4, <1>9, <1>10, <1>11, <1>12, <1>21, <1>22, <1>26,
       <1>d, <1>w DEF Next, Callers, DriveStep

(* The queue invariant holds throughout.                                   *)
LEMMA QueueAlways == Spec => []QueueInv
  <1>1. ControlInv => TypeOK
    BY DEF ControlInv
  <1> QED
    BY <1>1, QueueInit, QueueStep, ControlAlways, PTL DEF Spec

(* A queue item and its pending payload are written and deleted together.  *)
THEOREM PayloadBacked == Spec => []InboxBackedByPayload
  <1>1. QueueInv => InboxBackedByPayload
    BY DEF QueueInv
  <1> QED
    BY <1>1, QueueAlways, PTL

(* A queued input is waiting, or one entry, or handed back, and only one   *)
(* of these: lane.py and boundary.py neither lose nor repeat it.           *)
THEOREM Accounted == Spec => []InputAccounted
  <1>1. QueueInv => InputAccounted
    BY DEF QueueInv
  <1> QED
    BY <1>1, QueueAlways, PTL

(* Inputs of one kind enter the history in the order they were queued.     *)
THEOREM Fifo == Spec => []KindFifo
  <1>1. QueueInv => KindFifo
    BY DEF QueueInv
  <1> QED
    BY <1>1, QueueAlways, PTL

(* No two inputs become the same entry of the branch.                      *)
THEOREM Distinct == Spec => []DistinctEntries
  <1>1. QueueInv => DistinctEntries
    BY DEF QueueInv
  <1> QED
    BY <1>1, QueueAlways, PTL

-----------------------------------------------------------------------------
(* What a completed run leaves behind                                      *)

(* A boundary that takes nothing found nothing to take.                    *)
LEMMA TakeNothing ==
    ASSUME NEW S \in SUBSET Nat, NEW mode, Take(mode, S) = {}
    PROVE  S = {}
  <1>1. CASE mode = "all"
    BY <1>1 DEF Take
  <1>2. CASE mode # "all"
    <2> SUFFICES ASSUME S # {} PROVE FALSE
      OBVIOUS
    <2> DEFINE R == OpToRel(<, Nat)
    <2>1. \E n \in S : \A m \in S : ~ (<<m, n>> \in R)
      <3>1. IsWellFoundedOn(R, Nat)
        BY NatLessThanWellFounded
      <3> HIDE DEF R
      <3> QED
        BY <3>1, WFMin
    <2>2. \A m, n \in Nat : m < n => <<m, n>> \in R
      BY DEF OpToRel
    <2> HIDE DEF R
    <2>3. PICK n \in S : \A m \in S : ~ (<<m, n>> \in R)
      BY <2>1
    <2>4. ASSUME NEW m \in S
          PROVE  n <= m
      <3>1. m \in Nat /\ n \in Nat /\ ~(m < n)
        BY <2>2, <2>3
      <3> QED
        BY <3>1
    <2> QED
      BY <1>2, <2>4 DEF Take
  <1> QED
    BY <1>1, <1>2

LEMMA CompletedStep ==
    TypeOK /\ QueueInv /\ [Next]_vars =>
        \A o \in Ops : (result[o] = "none" /\ result'[o] = "completed")
                            => \A i \in inbox' : kind[i] = "nextRun"
  <1> SUFFICES ASSUME TypeOK, QueueInv, [Next]_vars,
                      NEW o \in Ops, result[o] = "none",
                      result'[o] = "completed", NEW i \in inbox'
               PROVE  kind[i] = "nextRun"
    OBVIOUS
  <1>1. result' # result
    OBVIOUS
  <1>2. ~Terminal("failed") /\ ~Terminal("aborted")
    BY DEF Terminal, TypeOK
  <1>3. CASE Checkpoint
    <2> DEFINE selected == BoundaryInbox(~plan.threshold /\ op.next = "mayFinish")
    <2>1. /\ PlaceInputs(selected, tip) /\ selected = {}
          /\ plan = NoPlan /\ op.next = "mayFinish"
      BY <1>1, <1>3 DEF Checkpoint
    <2>2. i \in inbox
      BY <2>1 DEF PlaceInputs
    <2>3. BoundaryInbox(TRUE) = {}
      BY <2>1 DEF NoPlan
    <2>4. \A k : OfKind(k) \in SUBSET Nat
      <3>1. \A j \in Inputs : j \in Nat
        BY DEF Inputs
      <3> QED
        BY <3>1 DEF OfKind, TypeOK
    <2>5. OfKind("steer") = {}
      BY <2>3, <2>4, TakeNothing DEF BoundaryInbox
    <2>6. OfKind("followUp") = {}
      BY <2>3, <2>4, <2>5, TakeNothing DEF BoundaryInbox
    <2> QED
      BY <2>2, <2>5, <2>6 DEF OfKind, QueueInv, InputKinds
  <1>4. CASE \E k \in InputKinds : Enqueue(k)
    BY <1>1, <1>4 DEF Enqueue
  <1>5. CASE \E j \in Inputs : CancelQueued(j)
    BY <1>1, <1>5 DEF CancelQueued
  <1>6. CASE \E q \in Ops, prompts \in 0..1 : Accept(q, prompts)
    BY <1>1, <1>6 DEF Accept
  <1>7. CASE \/ RequestAbort \/ Drive \/ CheckAbort \/ ReturnResult \/ AbortSignal
             \/ PublishGenerationIntent \/ AppendFrame \/ TimePasses \/ RetryWait
             \/ ReturnWaiting \/ SummaryOvertaken \/ Crash
    BY <1>1, <1>7 DEF RequestAbort, Drive, CheckAbort, ReturnResult, AbortSignal,
       PublishGenerationIntent, AppendFrame, TimePasses, RetryWait,
       ReturnWaiting, SummaryOvertaken, Crash
  <1>8. CASE \/ \E injected \in 0..1 : StartRun(injected)
             \/ \E threshold \in BOOLEAN : PrepareCheckpoint(threshold)
             \/ \E followUp \in BOOLEAN : BeforeRunEnd(followUp)
             \/ \E terminates, sequential \in BOOLEAN :
                    MaterializeOutcome(terminates, sequential)
    BY <1>1, <1>8 DEF StartRun, PrepareCheckpoint, BeforeRunEnd, MaterializeOutcome
  <1>9. CASE SettleResponse
    BY <1>1, <1>2, <1>9 DEF SettleResponse, SettleRetryable, SettleOverflow
  <1>10. CASE FinishReadyFailure \/ RecoverGeneration \/ ReconcileAbort
    BY <1>1, <1>2, <1>10 DEF FinishReadyFailure, RecoverGeneration,
       SettleRetryable, ReconcileAbort
  <1>11. CASE \E outcome \in {"completed", "declined", "failed"} :
                PublishOutcome(outcome)
    BY <1>1, <1>2, <1>11 DEF PublishOutcome
  <1>12. CASE UNCHANGED vars
    BY <1>1, <1>12 DEF vars
  <1> QED
    BY <1>3, <1>4, <1>5, <1>6, <1>7, <1>8, <1>9, <1>10, <1>11, <1>12
       DEF Next, Callers, DriveStep

(* The transaction that completes a run reads the inbox again, so nothing   *)
(* queued while the last hook ran is left behind for no one.               *)
THEOREM TookInput == Spec => CompletedRunTookInput
  <1>1. ControlInv => TypeOK
    BY DEF ControlInv
  <1> QED
    BY <1>1, CompletedStep, ControlAlways, QueueAlways, PTL
       DEF Spec, CompletedRunTookInput

(* What the run of the queues checks, for any number of inputs, runs and    *)
(* modes: no input is lost, doubled or reordered within its kind.           *)
THEOREM QueuesKeepInputs == Spec => []InputsKept
  <1>1. ControlInv /\ QueueInv => InputsKept
    BY DEF ControlInv, QueueInv, InputsKept
  <1> QED
    BY <1>1, ControlAlways, QueueAlways, PTL

-----------------------------------------------------------------------------
(* The retry bound                                                         *)

(* The attempt number counts the intents: an attempt to come has one less  *)
(* published than its number, an attempt under way exactly its number.     *)
RetryInv ==
    /\ op.at \in {"ready", "retryWait"} =>
        op.attempt <= MaxAttempts /\ issued + 1 = op.attempt
    /\ op.at = "effectPending" =>
        op.attempt <= MaxAttempts /\ issued = op.attempt
    /\ issued <= MaxAttempts

LEMMA RetryInit == Init => RetryInv
  BY RunLaneAssumption DEF Init, RetryInv, NoState

LEMMA RetryStep == ControlInv /\ RetryInv /\ [Next]_vars => RetryInv'
  <1> SUFFICES ASSUME ControlInv, RetryInv, [Next]_vars PROVE RetryInv'
    OBVIOUS
  <1>n. /\ op \in OpStates /\ op.attempt \in Nat /\ issued \in Nat
        /\ MaxAttempts \in Nat /\ MaxAttempts >= 1
    BY RunLaneAssumption DEF ControlInv, TypeOK, OpStates
  (* A step that keeps the intents keeps the invariant where it keeps the  *)
  (* state and the attempt, or leaves the retry cycle.                     *)
  <1>k. ASSUME issued' = issued,
               \/ op'.at = op.at /\ op'.attempt = op.attempt
               \/ op'.at \notin {"ready", "retryWait", "effectPending"}
        PROVE  RetryInv'
    BY <1>k DEF RetryInv
  (* A new step starts with attempt 1 and no intent.                       *)
  <1>f. ASSUME issued' = 0, op'.at = "ready", op'.attempt = 1
        PROVE  RetryInv'
    BY <1>n, <1>f DEF RetryInv
  <1>e. ASSUME NEW status, Terminal(status), issued' = issued
        PROVE  RetryInv'
    <2>1. op'.at = "none"
      BY <1>e DEF Terminal, NoState
    <2> QED
      BY <1>e, <1>k, <2>1
  (* A retryable error is retried only below the limit.                    *)
  <1>r. ASSUME op.at = "effectPending", SettleRetryable, issued' = issued
        PROVE  RetryInv'
    <2>1. CASE Terminal("failed")
      BY <1>e, <1>r, <2>1
    <2>2. CASE /\ op.attempt < MaxAttempts
               /\ op' = [op EXCEPT !.at = "retryWait", !.attempt = @ + 1]
      <3>1. op'.at = "retryWait" /\ op'.attempt = op.attempt + 1
        BY <1>n, <2>2 DEF OpStates
      <3> QED
        BY <1>n, <1>r, <2>2, <3>1 DEF RetryInv
    <2> QED
      BY <1>r, <2>1, <2>2 DEF SettleRetryable
  <1>1. CASE \/ \E k \in InputKinds : Enqueue(k)
             \/ \E i \in Inputs : CancelQueued(i)
             \/ Drive \/ CheckAbort \/ ReturnResult \/ AbortSignal
             \/ AppendFrame \/ TimePasses \/ ReturnWaiting \/ SummaryOvertaken
             \/ Crash
             \/ \E threshold \in BOOLEAN : PrepareCheckpoint(threshold)
             \/ \E followUp \in BOOLEAN : BeforeRunEnd(followUp)
             \/ UNCHANGED vars
    <2>1. issued' = issued /\ op' = op
      BY <1>1 DEF Enqueue, CancelQueued, Drive, CheckAbort, ReturnResult,
         AbortSignal, AppendFrame, TimePasses, ReturnWaiting, SummaryOvertaken,
         Crash, PrepareCheckpoint, BeforeRunEnd, vars, countVars
    <2> QED
      BY <1>k, <2>1
  <1>2. CASE \E o \in Ops, prompts \in 0..1 : Accept(o, prompts)
    <2>1. issued' = issued /\ op'.at = "starting"
      BY <1>2 DEF Accept, NoState
    <2> QED
      BY <1>k, <2>1
  <1>3. CASE RequestAbort
    <2>1. issued' = issued /\ op'.at = op.at /\ op'.attempt = op.attempt
      BY <1>n, <1>3 DEF RequestAbort, countVars, OpStates
    <2> QED
      BY <1>k, <2>1
  <1>4. CASE \E injected \in 0..1 : StartRun(injected)
    <2>1. issued' = issued /\ op'.at = "checkpoint"
      BY <1>n, <1>4 DEF StartRun, countVars, OpStates
    <2> QED
      BY <1>k, <2>1
  <1>5. CASE Checkpoint
    <2> DEFINE selected == BoundaryInbox(~plan.threshold /\ op.next = "mayFinish")
    <2> HIDE DEF selected
    <2>1. ASSUME NEW t, NEW u, op' = Ready(t, u), issued' = 0
          PROVE  RetryInv'
      BY <1>f, <1>n, <2>1 DEF Ready, OpStates
    <2>2. CASE /\ op' = [op EXCEPT !.at = "summary", !.reason = "threshold"]
               /\ issued' = issued
      BY <1>k, <1>n, <2>2 DEF OpStates
    <2>3. CASE Terminal("completed") /\ issued' = issued
      BY <1>e, <2>3
    <2> QED
      BY <1>5, <2>1, <2>2, <2>3 DEF Checkpoint
  <1>6. CASE FinishReadyFailure
    BY <1>6, <1>e DEF FinishReadyFailure, countVars
  <1>7. CASE PublishGenerationIntent
    <2>1. op.at = "ready" /\ op'.at = "effectPending" /\ op'.attempt = op.attempt
      BY <1>n, <1>7 DEF PublishGenerationIntent, Acts, OpStates
    <2> QED
      BY <1>7, <1>n, <2>1 DEF PublishGenerationIntent, RetryInv
  <1>8. CASE SettleResponse
    <2>1. op.at = "effectPending" /\ issued' = issued
      BY <1>8 DEF SettleResponse
    <2>2. CASE op' = [op EXCEPT !.at = "checkpoint", !.next = "mayFinish",
                                !.trigger = tip + 1]
      BY <1>k, <1>n, <2>1, <2>2 DEF OpStates
    <2>3. CASE \E n \in 1..2 : op' = [op EXCEPT !.at = "tools", !.calls = n]
      BY <1>k, <1>n, <2>1, <2>3 DEF OpStates
    <2>4. CASE SettleRetryable
      BY <1>r, <2>1, <2>4
    <2>5. CASE Terminal("failed")
      BY <1>e, <2>1, <2>5
    <2>6. CASE \E available \in BOOLEAN : SettleOverflow(available)
      <3>1. CASE op' = [op EXCEPT !.at = "summary", !.reason = "overflow",
                                  !.next = "needAssistant", !.used = TRUE]
        BY <1>k, <1>n, <2>1, <3>1 DEF OpStates
      <3> QED
        BY <2>5, <2>6, <3>1 DEF SettleOverflow
    <2> QED
      BY <1>8, <2>2, <2>3, <2>4, <2>5, <2>6 DEF SettleResponse
  <1>9. CASE RecoverGeneration
    BY <1>9, <1>r DEF RecoverGeneration, Acts
  <1>10. CASE RetryWait
    <2>1. op.at = "retryWait" /\ op'.at = "ready" /\ op'.attempt = op.attempt
      BY <1>n, <1>10 DEF RetryWait, Acts, OpStates
    <2> QED
      BY <1>10, <2>1 DEF RetryWait, countVars, RetryInv
  <1>11. CASE \E terminates, sequential \in BOOLEAN :
                MaterializeOutcome(terminates, sequential)
    <2>1. op' = [op EXCEPT !.calls = @ - 1] => op'.at = "tools"
      BY <1>n, <1>11 DEF MaterializeOutcome, Acts, OpStates
    <2>2. op'.at \in {"tools", "checkpoint"} /\ issued' = issued
      BY <1>n, <1>11, <2>1 DEF MaterializeOutcome, countVars, OpStates
    <2> QED
      BY <1>k, <2>2
  <1>12. ASSUME NEW outcome \in {"completed", "declined", "failed"},
                PublishOutcome(outcome)
         PROVE  RetryInv'
    <2> DEFINE settings == [op EXCEPT !.compacts = @ /\ outcome # "declined",
                                      !.reason = "none"]
    <2>2. DOMAIN settings = {"at", "control", "trigger", "next", "used",
                             "attempt", "calls", "reason", "compacts"}
      BY <1>n DEF OpStates
    <2> HIDE DEF settings
    <2>3. CASE /\ \/ \E t : op' = [settings EXCEPT !.at = "ready", !.trigger = t,
                                    !.used = FALSE, !.attempt = 1,
                                    !.next = "needAssistant"]
                  \/ op' = [settings EXCEPT !.at = "ready", !.attempt = 1]
               /\ issued' = 0
      BY <1>f, <2>2, <2>3
    <2>4. CASE op' = [settings EXCEPT !.at = "checkpoint"] /\ issued' = issued
      BY <1>k, <2>2, <2>4
    <2>5. CASE Terminal("failed") /\ issued' = issued
      BY <1>e, <2>5
    <2> QED
      BY <1>12, <2>3, <2>4, <2>5 DEF PublishOutcome, settings
  <1>13. CASE ReconcileAbort
    BY <1>13, <1>e DEF ReconcileAbort
  <1> QED
    BY <1>1, <1>2, <1>3, <1>4, <1>5, <1>6, <1>7, <1>8, <1>9, <1>10, <1>11,
       <1>12, <1>13 DEF Next, Callers, DriveStep

(* One step publishes at most max_attempts requests, however often the     *)
(* process was lost between an intent and its answer.                      *)
THEOREM RetriesBounded == Spec => []RetryBound
  <1>1. RetryInv => RetryBound
    BY DEF RetryInv, RetryBound
  <1> QED
    BY <1>1, RetryInit, RetryStep, ControlAlways, PTL DEF Spec

-----------------------------------------------------------------------------
(* The abstract operation                                                  *)

(* An idle lane carries no marker: the next acceptance starts unmarked.    *)
IdleUnmarked == current = None => op.control = "running"

(* The statuses with which a run ends.                                     *)
LEMMA TerminalMaps ==
    ASSUME ControlInv, current \in Ops, NEW status \in Statuses,
           status = "aborted" => op.control = "cancel", Terminal(status)
    PROVE  Operation!Settle(status) /\ IdleUnmarked'
  <1>1. current # None
    BY RunLaneAssumption
  <1> QED
    BY <1>1 DEF Operation!Settle, Terminal, NoState, IdleUnmarked

LEMMA OperationInit == Init => Operation!Init /\ IdleUnmarked
  BY DEF Init, Operation!Init, NoState, IdleUnmarked

(* Every step of a run maps to a step of the abstract operation or to a    *)
(* stutter.                                                                *)
LEMMA OperationStep ==
    FreshIds /\ ControlInv /\ IdleUnmarked /\ [Next]_vars
        => [Operation!Next]_(Operation!opVars) /\ IdleUnmarked'
  <1> SUFFICES ASSUME FreshIds, ControlInv, IdleUnmarked, [Next]_vars
               PROVE  [Operation!Next]_(Operation!opVars) /\ IdleUnmarked'
    OBVIOUS
  <1>n. op \in OpStates
    BY DEF ControlInv, TypeOK
  <1>k. ASSUME current' = current, result' = result, op'.control = op.control
        PROVE  [Operation!Next]_(Operation!opVars) /\ IdleUnmarked'
    BY <1>k DEF Operation!opVars, IdleUnmarked
  <1>e. ASSUME current \in Ops, NEW status \in Statuses, Terminal(status),
               status = "aborted" => op.control = "cancel"
        PROVE  [Operation!Next]_(Operation!opVars) /\ IdleUnmarked'
    <2>1. Operation!Settle(status) /\ IdleUnmarked'
      BY <1>e, TerminalMaps
    <2>2. status \in Operation!Statuses
      BY DEF Statuses, Operation!Statuses
    <2> QED
      BY <2>1, <2>2 DEF Operation!Next
  <1>a. op.at # "none" => current \in Ops
    BY DEF ControlInv, Control, TypeOK
  <1>1. CASE \/ \E k \in InputKinds : Enqueue(k)
             \/ \E i \in Inputs : CancelQueued(i)
             \/ Drive \/ CheckAbort \/ ReturnResult \/ AbortSignal
             \/ AppendFrame \/ TimePasses \/ ReturnWaiting \/ SummaryOvertaken
             \/ Crash
             \/ \E threshold \in BOOLEAN : PrepareCheckpoint(threshold)
             \/ \E followUp \in BOOLEAN : BeforeRunEnd(followUp)
             \/ UNCHANGED vars
    <2>1. current' = current /\ result' = result /\ op' = op
      BY <1>1 DEF Enqueue, CancelQueued, Drive, CheckAbort, ReturnResult,
         AbortSignal, AppendFrame, TimePasses, ReturnWaiting, SummaryOvertaken,
         Crash, PrepareCheckpoint, BeforeRunEnd, vars
    <2> QED
      BY <1>k, <2>1
  <1>2. ASSUME NEW o \in Ops, NEW prompts \in 0..1, Accept(o, prompts)
        PROVE  [Operation!Next]_(Operation!opVars) /\ IdleUnmarked'
    <2>1. /\ current = None /\ result[o] = "none" /\ current' = o
          /\ result' = result /\ op'.control = "running"
          /\ op.control = "running" /\ o # None
      BY <1>2, RunLaneAssumption DEF Accept, NoState, IdleUnmarked
    <2>2. Operation!Accept(o)
      BY <2>1 DEF Operation!Accept
    <2> QED
      BY <2>1, <2>2 DEF Operation!Next, IdleUnmarked
  <1>3. CASE RequestAbort
    <2>1. /\ current # None /\ op.control = "running" /\ op'.control = "cancel"
          /\ current' = current /\ result' = result
      BY <1>3, <1>n DEF RequestAbort, OpStates
    <2>2. Operation!RequestAbort
      BY <2>1 DEF Operation!RequestAbort
    <2> QED
      BY <2>1, <2>2 DEF Operation!Next, IdleUnmarked
  <1>4. CASE \E injected \in 0..1 : StartRun(injected)
    BY <1>4, <1>k, <1>n DEF StartRun, OpStates
  <1>5. CASE Checkpoint
    <2>1. current \in Ops
      BY <1>5, <1>a DEF Checkpoint
    <2> DEFINE selected == BoundaryInbox(~plan.threshold /\ op.next = "mayFinish")
    <2> HIDE DEF selected
    <2>2. CASE /\ \E t, u : op' = Ready(t, u)
               /\ UNCHANGED <<current, result>>
      BY <1>k, <1>n, <2>2 DEF Ready, OpStates
    <2>3. CASE /\ op' = [op EXCEPT !.at = "summary", !.reason = "threshold"]
               /\ UNCHANGED <<current, result>>
      BY <1>k, <1>n, <2>3 DEF OpStates
    <2>4. CASE Terminal("completed")
      BY <1>e, <2>1, <2>4 DEF Statuses
    <2> QED
      BY <1>5, <2>2, <2>3, <2>4 DEF Checkpoint
  <1>6. CASE FinishReadyFailure
    BY <1>6, <1>a, <1>e DEF FinishReadyFailure, Acts, Statuses
  <1>7. CASE PublishGenerationIntent \/ RetryWait
    BY <1>7, <1>k, <1>n DEF PublishGenerationIntent, RetryWait, OpStates
  <1>r. ASSUME SettleRetryable, current \in Ops
        PROVE  [Operation!Next]_(Operation!opVars) /\ IdleUnmarked'
    <2>1. CASE Terminal("failed")
      BY <1>e, <1>r, <2>1 DEF Statuses
    <2>2. CASE /\ op' = [op EXCEPT !.at = "retryWait", !.attempt = @ + 1]
               /\ UNCHANGED <<current, result>>
      BY <1>k, <1>n, <2>2 DEF OpStates
    <2> QED
      BY <1>r, <2>1, <2>2 DEF SettleRetryable
  <1>8. CASE SettleResponse
    <2>1. current \in Ops
      BY <1>8, <1>a DEF SettleResponse
    <2>2. CASE /\ op' = [op EXCEPT !.at = "checkpoint", !.next = "mayFinish",
                                   !.trigger = tip + 1]
               /\ UNCHANGED <<current, result>>
      BY <1>k, <1>n, <2>2 DEF OpStates
    <2>3. CASE /\ \E n \in 1..2 : op' = [op EXCEPT !.at = "tools", !.calls = n]
               /\ UNCHANGED <<current, result>>
      BY <1>k, <1>n, <2>3 DEF OpStates
    <2>4. CASE SettleRetryable
      BY <1>r, <2>1, <2>4
    <2>5. CASE Terminal("failed")
      BY <1>e, <2>1, <2>5 DEF Statuses
    <2>6. CASE \E available \in BOOLEAN : SettleOverflow(available)
      <3>1. CASE /\ op' = [op EXCEPT !.at = "summary", !.reason = "overflow",
                                     !.next = "needAssistant", !.used = TRUE]
                 /\ UNCHANGED <<current, result>>
        BY <1>k, <1>n, <3>1 DEF OpStates
      <3> QED
        BY <2>5, <2>6, <3>1 DEF SettleOverflow
    <2> QED
      BY <1>8, <2>2, <2>3, <2>4, <2>5, <2>6 DEF SettleResponse
  <1>9. CASE RecoverGeneration
    BY <1>9, <1>a, <1>r DEF RecoverGeneration, Acts
  <1>11. CASE \E terminates, sequential \in BOOLEAN :
                MaterializeOutcome(terminates, sequential)
    BY <1>11, <1>k, <1>n DEF MaterializeOutcome, OpStates
  <1>12. ASSUME NEW outcome \in {"completed", "declined", "failed"},
                PublishOutcome(outcome)
         PROVE  [Operation!Next]_(Operation!opVars) /\ IdleUnmarked'
    <2>1. current \in Ops
      BY <1>12, <1>a DEF PublishOutcome, Acts
    <2> DEFINE settings == [op EXCEPT !.compacts = @ /\ outcome # "declined",
                                      !.reason = "none"]
    <2>2. /\ DOMAIN settings = {"at", "control", "trigger", "next", "used",
                                "attempt", "calls", "reason", "compacts"}
          /\ settings.control = op.control
      BY <1>n DEF OpStates
    <2> HIDE DEF settings
    <2>3. CASE /\ \/ \E t : op' = [settings EXCEPT !.at = "ready", !.trigger = t,
                                    !.used = FALSE, !.attempt = 1,
                                    !.next = "needAssistant"]
                  \/ op' = [settings EXCEPT !.at = "ready", !.attempt = 1]
                  \/ op' = [settings EXCEPT !.at = "checkpoint"]
               /\ UNCHANGED <<current, result>>
      BY <1>k, <2>2, <2>3
    <2>4. CASE Terminal("failed")
      BY <1>e, <2>1, <2>4 DEF Statuses
    <2> QED
      BY <1>12, <2>3, <2>4 DEF PublishOutcome, settings
  <1>13. CASE ReconcileAbort
    <2>1. current \in Ops /\ op.control = "cancel" /\ Terminal("aborted")
      BY <1>13 DEF ReconcileAbort, ControlInv, TypeOK, Control
    <2> QED
      BY <1>e, <2>1 DEF Statuses
  <1> QED
    BY <1>1, <1>2, <1>3, <1>4, <1>5, <1>6, <1>7, <1>8, <1>9, <1>11,
       <1>12, <1>13 DEF Next, Callers, DriveStep

(* With a new id for every run, the lane keeps DurableOperation's promise:  *)
(* one operation at a time, accepted once, a marker that stays, and one     *)
(* final result.                                                           *)
THEOREM Implements == ASSUME FreshIds PROVE Spec => ImplementsOperation
  <1>1. Spec => [](ControlInv /\ IdleUnmarked)
    <2>1. ControlInv /\ IdleUnmarked /\ [Next]_vars => IdleUnmarked'
      BY OperationStep
    <2> QED
      BY <2>1, OperationInit, ControlAlways, PTL DEF Spec
  <1>2. ControlInv /\ IdleUnmarked /\ [Next]_vars
            => [Operation!Next]_(Operation!opVars)
    BY OperationStep
  <1> QED
    BY <1>1, <1>2, OperationInit, PTL DEF Spec, ImplementsOperation, Operation!Spec

-----------------------------------------------------------------------------
(* Overflow recovery                                                       *)

(* Every trigger whose recovery was spent lies on the branch, and the open  *)
(* step knows whether its own was: a new step has a new, deeper trigger.   *)
OverflowInv ==
    /\ \A t \in overflowed : t <= tip
    /\ op.at \in {"none", "starting"} \/
        (op.trigger <= tip /\ (op.trigger \in overflowed => op.used))
    /\ op.at = "starting" => overflowed = {}

LEMMA OverflowInit == Init => OverflowInv
  BY DEF Init, OverflowInv, NoState

LEMMA OverflowStep ==
    ControlInv /\ OverflowInv /\ [Next]_vars => OverflowInv'
  <1> SUFFICES ASSUME ControlInv, OverflowInv, [Next]_vars PROVE OverflowInv'
    OBVIOUS
  <1>n. /\ op \in OpStates /\ tip \in Nat /\ op.trigger \in Nat
        /\ overflowed \in SUBSET Nat
        /\ DOMAIN op = {"at", "control", "trigger", "next", "used",
                        "attempt", "calls", "reason", "compacts"}
    BY DEF ControlInv, TypeOK, OpStates
  (* The step goes on with the same trigger, or the operation is over.     *)
  <1>k. ASSUME overflowed' = overflowed, tip' \in Nat, tip' >= tip,
               \/ /\ op'.at \notin {"none", "starting"}
                  /\ op.at \notin {"none", "starting"}
                  /\ op'.trigger = op.trigger /\ op'.used = op.used
               \/ op'.at = "none"
        PROVE  OverflowInv'
    BY <1>k, <1>n DEF OverflowInv
  (* The step has a new trigger, above every trigger spent before.         *)
  <1>f. ASSUME overflowed' = overflowed, tip' \in Nat, tip' > tip,
               op'.trigger = tip', op'.at \notin {"none", "starting"}
        PROVE  OverflowInv'
    BY <1>f, <1>n DEF OverflowInv
  <1>e. ASSUME NEW status, Terminal(status), overflowed' = overflowed,
               tip' \in Nat, tip' >= tip
        PROVE  OverflowInv'
    BY <1>e, <1>k DEF Terminal, NoState
  <1>t. /\ tip + 1 \in Nat /\ tip + 1 > tip /\ tip + 1 >= tip /\ tip >= tip
    BY <1>n
  <1>1. CASE \/ \E k \in InputKinds : Enqueue(k)
             \/ \E i \in Inputs : CancelQueued(i)
             \/ Drive \/ CheckAbort \/ ReturnResult \/ AbortSignal
             \/ AppendFrame \/ TimePasses \/ ReturnWaiting \/ SummaryOvertaken
             \/ Crash
             \/ \E threshold \in BOOLEAN : PrepareCheckpoint(threshold)
             \/ \E followUp \in BOOLEAN : BeforeRunEnd(followUp)
             \/ UNCHANGED vars
    <2>1. overflowed' = overflowed /\ tip' = tip /\ op' = op
      BY <1>1 DEF Enqueue, CancelQueued, Drive, CheckAbort, ReturnResult,
         AbortSignal, AppendFrame, TimePasses, ReturnWaiting, SummaryOvertaken,
         Crash, PrepareCheckpoint, BeforeRunEnd, vars, countVars
    <2> QED
      BY <2>1 DEF OverflowInv
  <1>2. CASE \E o \in Ops, prompts \in 0..1 : Accept(o, prompts)
    BY <1>2 DEF Accept, NoState, OverflowInv
  <1>3. CASE RequestAbort
    <2>1. /\ overflowed' = overflowed /\ tip' = tip /\ op'.at = op.at
          /\ op'.trigger = op.trigger /\ op'.used = op.used
      BY <1>3, <1>n DEF RequestAbort, countVars
    <2> QED
      BY <2>1 DEF OverflowInv
  <1>4. ASSUME NEW injected \in 0..1, StartRun(injected)
        PROVE  OverflowInv'
    <2>1. /\ op'.at = "checkpoint" /\ op'.trigger = tip'
          /\ overflowed' = {}
      BY <1>4, <1>n DEF StartRun, Acts, OverflowInv, countVars
    <2>2. tip' \in Nat
      BY <1>4, <1>n DEF StartRun
    <2> QED
      BY <2>1, <2>2 DEF OverflowInv
  <1>5. CASE Checkpoint
    <2> DEFINE selected == BoundaryInbox(~plan.threshold /\ op.next = "mayFinish")
    <2>1. selected \in SUBSET Inputs
      BY SelectedQueued DEF ControlInv, TypeOK
    <2> HIDE DEF selected
    <2>2. IsFiniteSet(selected) /\ Cardinality(selected) \in Nat
      BY <2>1, RankType
    <2>3. op.at = "checkpoint" /\ overflowed' = overflowed
      BY <1>5 DEF Checkpoint
    <2>4. CASE /\ selected # {}
               /\ tip' = tip + Cardinality(selected)
               /\ op' = Ready(tip + Cardinality(selected), FALSE)
      <3>1. Cardinality(selected) # 0
        BY <2>2, <2>4, FS_EmptySet
      <3>2. tip' \in Nat /\ tip' > tip
        BY <1>n, <2>2, <2>4, <3>1
      <3>3. op'.trigger = tip' /\ op'.at = "ready"
        BY <1>n, <2>4 DEF Ready
      <3> QED
        BY <1>f, <2>3, <3>2, <3>3
    <2>5. CASE /\ op' = [op EXCEPT !.at = "summary", !.reason = "threshold"]
               /\ tip' = tip
      <3>1. op'.trigger = op.trigger /\ op'.used = op.used /\ op'.at = "summary"
        BY <1>n, <2>5
      <3> QED
        BY <1>k, <1>n, <1>t, <2>3, <2>5, <3>1
    <2>6. CASE op' = Ready(op.trigger, op.used) /\ tip' = tip
      <3>1. op'.trigger = op.trigger /\ op'.used = op.used /\ op'.at = "ready"
        BY <1>n, <2>6 DEF Ready
      <3> QED
        BY <1>k, <1>n, <1>t, <2>3, <2>6, <3>1
    <2>7. CASE tip' = tip + 1 /\ op' = Ready(tip + 1, FALSE)
      <3>1. op'.trigger = tip' /\ op'.at = "ready"
        BY <1>n, <2>7 DEF Ready
      <3> QED
        BY <1>f, <1>t, <2>3, <2>7, <3>1
    <2>8. CASE Terminal("completed") /\ tip' = tip
      BY <1>e, <1>n, <1>t, <2>3, <2>8
    <2> QED
      BY <1>5, <2>4, <2>5, <2>6, <2>7, <2>8 DEF Checkpoint, selected
  <1>6. CASE FinishReadyFailure
    BY <1>6, <1>e, <1>n, <1>t DEF FinishReadyFailure, countVars
  <1>7. CASE PublishGenerationIntent \/ RetryWait
    <2>1. /\ op.at \in {"ready", "retryWait"} /\ op'.at \in {"effectPending", "ready"}
          /\ op'.trigger = op.trigger /\ op'.used = op.used
          /\ overflowed' = overflowed /\ tip' = tip
      BY <1>7, <1>n DEF PublishGenerationIntent, RetryWait, Acts, countVars
    <2> QED
      BY <1>k, <1>n, <1>t, <2>1
  <1>r. ASSUME SettleRetryable, op.at = "effectPending", tip' = tip + 1,
               overflowed' = overflowed
        PROVE  OverflowInv'
    <2>1. CASE Terminal("failed")
      BY <1>e, <1>r, <1>t, <2>1
    <2>2. CASE op' = [op EXCEPT !.at = "retryWait", !.attempt = @ + 1]
      <3>1. op'.trigger = op.trigger /\ op'.used = op.used /\ op'.at = "retryWait"
        BY <1>n, <2>2
      <3> QED
        BY <1>k, <1>r, <1>t, <3>1
    <2> QED
      BY <1>r, <2>1, <2>2 DEF SettleRetryable
  <1>8. CASE SettleResponse
    <2>1. op.at = "effectPending" /\ tip' = tip + 1
      BY <1>8 DEF SettleResponse, WriteResponse
    <2>2. CASE /\ op' = [op EXCEPT !.at = "checkpoint", !.next = "mayFinish",
                                   !.trigger = tip + 1]
               /\ overflowed' = overflowed
      <3>1. op'.trigger = tip' /\ op'.at = "checkpoint"
        BY <1>n, <2>1, <2>2
      <3> QED
        BY <1>f, <1>t, <2>1, <2>2, <3>1
    <2>3. CASE /\ \E n \in 1..2 : op' = [op EXCEPT !.at = "tools", !.calls = n]
               /\ overflowed' = overflowed
      <3>1. op'.trigger = op.trigger /\ op'.used = op.used /\ op'.at = "tools"
        BY <1>n, <2>3
      <3> QED
        BY <1>k, <1>t, <2>1, <2>3, <3>1
    <2>4. CASE SettleRetryable /\ overflowed' = overflowed
      BY <1>r, <2>1, <2>4
    <2>5. CASE Terminal("failed") /\ overflowed' = overflowed
      BY <1>e, <1>t, <2>1, <2>5
    <2>6. CASE \E available \in BOOLEAN : SettleOverflow(available)
      <3>1. CASE /\ op' = [op EXCEPT !.at = "summary", !.reason = "overflow",
                                     !.next = "needAssistant", !.used = TRUE]
                 /\ overflowed' = overflowed \union {op.trigger}
        <4>1. op'.trigger = op.trigger /\ op'.used = TRUE /\ op'.at = "summary"
          BY <1>n, <3>1
        <4>2. op.trigger <= tip /\ \A t \in overflowed : t <= tip
          BY <2>1 DEF OverflowInv
        <4> QED
          BY <1>n, <2>1, <3>1, <4>1, <4>2 DEF OverflowInv
      <3> QED
        BY <2>5, <2>6, <3>1 DEF SettleOverflow
    <2> QED
      BY <1>8, <2>2, <2>3, <2>4, <2>5, <2>6 DEF SettleResponse
  <1>9. CASE RecoverGeneration
    BY <1>9, <1>r DEF RecoverGeneration, WriteResponse, Acts
  <1>11. ASSUME NEW terminates \in BOOLEAN, NEW sequential \in BOOLEAN,
                MaterializeOutcome(terminates, sequential)
         PROVE  OverflowInv'
    <2>1. op.at = "tools" /\ tip' = tip + 1 /\ overflowed' = overflowed
      BY <1>11 DEF MaterializeOutcome, Acts, countVars
    <2>2. CASE op' = [op EXCEPT !.calls = @ - 1]
      <3>1. op'.trigger = op.trigger /\ op'.used = op.used /\ op'.at = "tools"
        BY <1>n, <2>1, <2>2
      <3> QED
        BY <1>k, <1>t, <2>1, <3>1
    <2>3. CASE op.calls <= 1 \/ op' # [op EXCEPT !.calls = @ - 1]
      <3>1. op'.trigger = tip' /\ op'.at = "checkpoint"
        <4>1. op' # [op EXCEPT !.calls = @ - 1] =>
                op' = [op EXCEPT !.at = "checkpoint", !.calls = 0, !.used = FALSE,
                             !.trigger = tip + 1,
                             !.next = IF terminates THEN "mayFinish"
                                      ELSE "needAssistant"]
          BY <1>11 DEF MaterializeOutcome
        <4>2. op.calls \in Nat
          BY <1>n DEF OpStates
        <4>3. op.calls <= 1 =>
                op' = [op EXCEPT !.at = "checkpoint", !.calls = 0, !.used = FALSE,
                             !.trigger = tip + 1,
                             !.next = IF terminates THEN "mayFinish"
                                      ELSE "needAssistant"]
          BY <1>11, <4>2 DEF MaterializeOutcome
        <4> QED
          BY <1>n, <2>1, <2>3, <4>1, <4>3
      <3> QED
        BY <1>f, <1>t, <2>1, <3>1
    <2> QED
      BY <2>2, <2>3
  <1>12. ASSUME NEW outcome \in {"completed", "declined", "failed"},
                PublishOutcome(outcome)
         PROVE  OverflowInv'
    <2> DEFINE base == IF outcome = "completed" THEN tip + 1 ELSE tip
               resumes == outcome = "completed"
                              \/ (outcome = "declined" /\ op.reason = "threshold")
               selected == IF resumes
                           THEN BoundaryInbox(outcome = "declined"
                                                  /\ op.next = "mayFinish")
                           ELSE {}
               settings == [op EXCEPT !.compacts = @ /\ outcome # "declined",
                                      !.reason = "none"]
               continued == base + Cardinality(selected)
    <2>1. selected \in SUBSET Inputs
      BY SelectedQueued DEF ControlInv, TypeOK
    <2>2. /\ base \in Nat /\ base >= tip
          /\ settings.trigger = op.trigger /\ settings.used = op.used
          /\ DOMAIN settings = {"at", "control", "trigger", "next", "used",
                                "attempt", "calls", "reason", "compacts"}
      BY <1>n
    <2>3. /\ op.at = "summary" /\ overflowed' = overflowed /\ tip' = continued
          /\ \/ /\ selected # {}
                /\ op' = [settings EXCEPT !.at = "ready", !.trigger = continued,
                              !.used = FALSE, !.attempt = 1,
                              !.next = "needAssistant"]
             \/ op' = [settings EXCEPT !.at = "ready", !.attempt = 1]
             \/ op' = [settings EXCEPT !.at = "checkpoint"]
             \/ Terminal("failed")
      BY <1>12 DEF PublishOutcome, Acts
    <2> HIDE DEF base, selected, settings
    <2>4. IsFiniteSet(selected) /\ Cardinality(selected) \in Nat
      BY <2>1, RankType
    <2>5. tip' \in Nat /\ tip' >= tip /\ tip' = continued
      BY <1>n, <2>2, <2>3, <2>4
    <2>6. CASE /\ selected # {}
               /\ op' = [settings EXCEPT !.at = "ready", !.trigger = continued,
                              !.used = FALSE, !.attempt = 1,
                              !.next = "needAssistant"]
      <3>1. Cardinality(selected) # 0
        BY <2>4, <2>6, FS_EmptySet
      <3>2. tip' > tip
        BY <1>n, <2>2, <2>3, <2>4, <3>1
      <3>3. op'.trigger = tip' /\ op'.at = "ready"
        BY <2>2, <2>5, <2>6
      <3> QED
        BY <1>f, <2>3, <2>5, <3>2, <3>3
    <2>7. CASE \/ op' = [settings EXCEPT !.at = "ready", !.attempt = 1]
               \/ op' = [settings EXCEPT !.at = "checkpoint"]
      <3>1. /\ op'.trigger = op.trigger /\ op'.used = op.used
            /\ op'.at \in {"ready", "checkpoint"}
        BY <2>2, <2>7
      <3> QED
        BY <1>k, <2>3, <2>5, <3>1
    <2>8. CASE Terminal("failed")
      BY <1>e, <2>3, <2>5, <2>8
    <2> QED
      BY <2>3, <2>6, <2>7, <2>8
  <1>13. CASE ReconcileAbort
    <2>1. tip' \in {tip, tip + 1}
      BY <1>13 DEF ReconcileAbort, WriteResponse
    <2> QED
      BY <1>13, <1>e, <1>n, <1>t, <2>1 DEF ReconcileAbort
  <1> QED
    BY <1>1, <1>2, <1>3, <1>4, <1>5, <1>6, <1>7, <1>8, <1>9, <1>11, <1>12,
       <1>13 DEF Next, Callers, DriveStep

(* The step from a pending response to a summary finds the allowance of    *)
(* its trigger unspent.                                                    *)
LEMMA OverflowSpends ==
    ControlInv /\ OverflowInv /\ [Next]_vars =>
        (op.at = "effectPending" /\ op'.at = "summary"
            => op.trigger \notin overflowed)
  <1> SUFFICES ASSUME ControlInv, OverflowInv, [Next]_vars,
                      op.at = "effectPending", op'.at = "summary"
               PROVE  op.trigger \notin overflowed
    OBVIOUS
  <1>n. op \in OpStates
    BY DEF ControlInv, TypeOK
  <1>1. op' # op /\ current # None
    BY DEF ControlInv, Control
  <1>2. \A status : ~Terminal(status)
    BY DEF Terminal, NoState
  <1>3. CASE SettleResponse
    <2>1. ~SettleRetryable
      BY <1>2, <1>n DEF SettleRetryable, OpStates
    <2>2. ~\E n \in 1..2 : op' = [op EXCEPT !.at = "tools", !.calls = n]
      BY <1>n DEF OpStates
    <2>3. op' # [op EXCEPT !.at = "checkpoint", !.next = "mayFinish",
                           !.trigger = tip + 1]
      BY <1>n DEF OpStates
    <2>4. \E available \in BOOLEAN : SettleOverflow(available)
      BY <1>2, <1>3, <2>1, <2>2, <2>3 DEF SettleResponse
    <2>5. ~op.used
      BY <1>2, <2>4 DEF SettleOverflow
    <2> QED
      BY <2>5 DEF OverflowInv
  <1>4. CASE RecoverGeneration
    BY <1>2, <1>4, <1>n DEF RecoverGeneration, SettleRetryable, OpStates
  <1>5. CASE RequestAbort
    BY <1>5, <1>n DEF RequestAbort, OpStates
  <1>6. CASE ReconcileAbort
    BY <1>2, <1>6 DEF ReconcileAbort
  <1>7. CASE \/ \E o \in Ops, prompts \in 0..1 : Accept(o, prompts)
             \/ \E injected \in 0..1 : StartRun(injected)
             \/ Checkpoint \/ FinishReadyFailure \/ PublishGenerationIntent
             \/ RetryWait
             \/ \E terminates, sequential \in BOOLEAN :
                    MaterializeOutcome(terminates, sequential)
             \/ \E outcome \in {"completed", "declined", "failed"} :
                    PublishOutcome(outcome)
    BY <1>1, <1>7 DEF Accept, StartRun, Checkpoint, FinishReadyFailure,
       PublishGenerationIntent, RetryWait, MaterializeOutcome, PublishOutcome,
       Acts
  <1>8. CASE \/ \E k \in InputKinds : Enqueue(k)
             \/ \E i \in Inputs : CancelQueued(i)
             \/ Drive \/ CheckAbort \/ ReturnResult \/ AbortSignal
             \/ AppendFrame \/ TimePasses \/ ReturnWaiting \/ SummaryOvertaken
             \/ Crash
             \/ \E threshold \in BOOLEAN : PrepareCheckpoint(threshold)
             \/ \E followUp \in BOOLEAN : BeforeRunEnd(followUp)
             \/ UNCHANGED vars
    BY <1>1, <1>8 DEF Enqueue, CancelQueued, Drive, CheckAbort, ReturnResult,
       AbortSignal, AppendFrame, TimePasses, ReturnWaiting, SummaryOvertaken,
       Crash, PrepareCheckpoint, BeforeRunEnd, vars
  <1> QED
    BY <1>3, <1>4, <1>5, <1>6, <1>7, <1>8 DEF Next, Callers, DriveStep

(* One overflow recovery per generation trigger, over any number of        *)
(* compactions, retries and crashes.                                       *)
THEOREM OverflowOnce == Spec => OverflowOncePerTrigger
  BY OverflowInit, OverflowStep, OverflowSpends, ControlAlways, PTL
     DEF Spec, OverflowOncePerTrigger

(* What the run of restarts checks of effects: a step stays within its      *)
(* budget of requests, each trigger is compacted for at most once, and a run *)
(* that completes has taken what was queued for it.                         *)
THEOREM EffectsStayBounded == Spec => EffectsBounded
  BY RetriesBounded, OverflowOnce, TookInput, PTL
     DEF EffectsBounded, OverflowOncePerTrigger, CompletedRunTookInput

-----------------------------------------------------------------------------
(* What is stored of the lane                                              *)

(* A batch under way has a call left and an assistant entry, a summary under *)
(* way its reason.                                                         *)
ShapeInv ==
    /\ op.at = "tools" => op.calls > 0 /\ tip > 0
    /\ op.at = "summary" => op.reason \in {"threshold", "overflow"}

LEMMA ShapeStep == ControlInv /\ ShapeInv /\ [Next]_vars => ShapeInv'
  <1> SUFFICES ASSUME ControlInv, ShapeInv, [Next]_vars PROVE ShapeInv'
    OBVIOUS
  <1>n. op \in OpStates /\ op.calls \in Nat /\ tip \in Nat
    BY DEF ControlInv, TypeOK, OpStates
  (* A step that ends in another state, or leaves state and tip alone.     *)
  <1>k. ASSUME op'.at \notin {"tools", "summary"}
        PROVE  ShapeInv'
    BY <1>k DEF ShapeInv
  <1>s. ASSUME UNCHANGED tip, op'.at = op.at, op'.calls = op.calls,
               op'.reason = op.reason
        PROVE  ShapeInv'
    BY <1>s DEF ShapeInv
  <1>e. ASSUME NEW status, Terminal(status)
        PROVE  ShapeInv'
    BY <1>e, <1>k DEF Terminal, NoState
  <1>r. ASSUME SettleRetryable
        PROVE  ShapeInv'
    <2>1. CASE op' = [op EXCEPT !.at = "retryWait", !.attempt = @ + 1]
      BY <1>k, <1>n, <2>1 DEF OpStates
    <2> QED
      BY <1>e, <1>r, <2>1 DEF SettleRetryable
  <1>1. CASE \/ \E k \in InputKinds : Enqueue(k)
             \/ \E i \in Inputs : CancelQueued(i)
             \/ Drive \/ CheckAbort \/ ReturnResult \/ AbortSignal
             \/ AppendFrame \/ TimePasses \/ ReturnWaiting \/ SummaryOvertaken
             \/ Crash
             \/ \E threshold \in BOOLEAN : PrepareCheckpoint(threshold)
             \/ \E followUp \in BOOLEAN : BeforeRunEnd(followUp)
             \/ UNCHANGED vars
    <2>1. tip' = tip /\ op' = op
      BY <1>1 DEF Enqueue, CancelQueued, Drive, CheckAbort, ReturnResult,
         AbortSignal, AppendFrame, TimePasses, ReturnWaiting, SummaryOvertaken,
         Crash, PrepareCheckpoint, BeforeRunEnd, vars
    <2> QED
      BY <1>s, <2>1
  <1>2. CASE \E o \in Ops, prompts \in 0..1 : Accept(o, prompts)
    <2>1. op'.at = "starting"
      BY <1>2 DEF Accept, NoState
    <2> QED
      BY <1>k, <2>1
  <1>3. CASE RequestAbort
    <2>1. /\ tip' = tip /\ op'.at = op.at /\ op'.calls = op.calls
          /\ op'.reason = op.reason
      BY <1>n, <1>3 DEF RequestAbort, OpStates
    <2> QED
      BY <1>s, <2>1
  <1>4. CASE \E injected \in 0..1 : StartRun(injected)
    <2>1. op'.at = "checkpoint"
      BY <1>n, <1>4 DEF StartRun, OpStates
    <2> QED
      BY <1>k, <2>1
  <1>5. CASE Checkpoint
    <2>1. ASSUME NEW t, NEW u, op' = Ready(t, u)
          PROVE  ShapeInv'
      BY <1>k, <1>n, <2>1 DEF Ready, OpStates
    <2>2. CASE op' = [op EXCEPT !.at = "summary", !.reason = "threshold"]
      BY <1>n, <2>2 DEF ShapeInv, OpStates
    <2> QED
      BY <1>5, <1>e, <2>1, <2>2 DEF Checkpoint
  <1>6. CASE FinishReadyFailure
    BY <1>6, <1>e DEF FinishReadyFailure
  <1>7. CASE PublishGenerationIntent
    <2>1. op'.at = "effectPending"
      BY <1>n, <1>7 DEF PublishGenerationIntent, OpStates
    <2> QED
      BY <1>k, <2>1
  <1>8. CASE SettleResponse
    <2>1. CASE op' = [op EXCEPT !.at = "checkpoint", !.next = "mayFinish",
                                !.trigger = tip + 1]
      BY <1>k, <1>n, <2>1 DEF OpStates
    <2>2. CASE \E n \in 1..2 : op' = [op EXCEPT !.at = "tools", !.calls = n]
      BY <1>n, <1>8, <2>2 DEF SettleResponse, WriteResponse, ShapeInv, OpStates
    <2>3. CASE \E available \in BOOLEAN : SettleOverflow(available)
      <3>1. CASE op' = [op EXCEPT !.at = "summary", !.reason = "overflow",
                                  !.next = "needAssistant", !.used = TRUE]
        BY <1>n, <3>1 DEF ShapeInv, OpStates
      <3> QED
        BY <1>e, <2>3, <3>1 DEF SettleOverflow
    <2> QED
      BY <1>8, <1>e, <1>r, <2>1, <2>2, <2>3 DEF SettleResponse
  <1>9. CASE RecoverGeneration
    BY <1>9, <1>r DEF RecoverGeneration
  <1>10. CASE RetryWait
    <2>1. op'.at = "ready"
      BY <1>n, <1>10 DEF RetryWait, OpStates
    <2> QED
      BY <1>k, <2>1
  <1>11. CASE \E terminates, sequential \in BOOLEAN :
                MaterializeOutcome(terminates, sequential)
    <2>1. CASE op.calls > 1
      <3>1. /\ op'.at = "tools" /\ op'.calls = op.calls - 1 /\ tip' = tip + 1
        BY <1>n, <1>11, <2>1 DEF MaterializeOutcome, Acts, OpStates
      <3> QED
        BY <1>n, <2>1, <3>1 DEF ShapeInv
    <2>2. CASE ~(op.calls > 1)
      <3>1. op'.at = "checkpoint"
        BY <1>n, <1>11, <2>2 DEF MaterializeOutcome, OpStates
      <3> QED
        BY <1>k, <3>1
    <2> QED
      BY <2>1, <2>2
  <1>12. ASSUME NEW outcome \in {"completed", "declined", "failed"},
                PublishOutcome(outcome)
         PROVE  ShapeInv'
    <2> DEFINE settings == [op EXCEPT !.compacts = @ /\ outcome # "declined",
                                      !.reason = "none"]
    <2>1. DOMAIN settings = {"at", "control", "trigger", "next", "used",
                             "attempt", "calls", "reason", "compacts"}
      BY <1>n DEF OpStates
    <2> HIDE DEF settings
    <2>2. CASE \/ \E t : op' = [settings EXCEPT !.at = "ready", !.trigger = t,
                                 !.used = FALSE, !.attempt = 1,
                                 !.next = "needAssistant"]
               \/ op' = [settings EXCEPT !.at = "ready", !.attempt = 1]
               \/ op' = [settings EXCEPT !.at = "checkpoint"]
      BY <1>k, <2>1, <2>2
    <2> QED
      BY <1>12, <1>e, <2>2 DEF PublishOutcome, settings
  <1>13. CASE ReconcileAbort
    BY <1>13, <1>e DEF ReconcileAbort
  <1> QED
    BY <1>1, <1>2, <1>3, <1>4, <1>5, <1>6, <1>7, <1>8, <1>9, <1>10, <1>11,
       <1>12, <1>13 DEF Next, Callers, DriveStep

LEMMA ShapeAlways == Spec => []ShapeInv
  <1>1. Init => ShapeInv
    BY DEF Init, ShapeInv, NoState
  <1> QED
    BY <1>1, ShapeStep, ControlAlways, PTL DEF Spec

(* Every rank up to the number selected is taken: the inbox is a tuple.     *)
LEMMA RankTaken ==
    ASSUME NEW S \in SUBSET Inputs, NEW k \in 1..Cardinality(S)
    PROVE  /\ Nth(S, k) \in S
           /\ Cardinality({j \in S : j <= Nth(S, k)}) = k
  <1> DEFINE n == Cardinality(S)
             rank(i) == Cardinality({j \in S : j <= i})
             f == [i \in S |-> rank(i)]
  <1>1. IsFiniteSet(S) /\ n \in Nat /\ \A i \in S : rank(i) \in Nat
    BY RankType
  <1>2. \A i \in S : /\ rank(i) > 0 /\ rank(i) <= n
                     /\ \A j \in S : i < j => rank(i) < rank(j)
    BY RankOrder
  <1>3. \A i \in S : i \in Int
    BY RunLaneAssumption DEF Inputs
  <1> HIDE DEF n, rank
  <1>4. IsFiniteSet(1..n) /\ Cardinality(1..n) = n
    BY <1>1, FS_Interval
  <1>5. \A i, j \in S : rank(i) = rank(j) => i = j
    BY <1>1, <1>2, <1>3
  <1>6. f \in Injection(S, 1..n)
    BY <1>1, <1>2, <1>5 DEF Injection, IsInjective
  <1>7. f \in Surjection(S, 1..n)
    <2> HIDE DEF f
    <2>1. Cardinality(S) = Cardinality(1..n)
      BY <1>4 DEF n
    <2> QED
      BY <1>4, <1>6, <2>1, FS_Injection
  <1>8. \E i \in S : rank(i) = k
    <2>1. k \in 1..n
      BY DEF n
    <2> QED
      BY <1>7, <2>1 DEF Surjection
  <1> QED
    BY <1>8 DEF Nth, rank

(* The inbox is stored as a tuple of items, one for each queued input.      *)
LEMMA LaneFits ==
    ASSUME Json, Ops \subseteq Scalars, TypeOK, QueueInv, NEW last \in LastOnes
    PROVE  /\ LaneStateOf(last) \in LaneStates
           /\ LaneStateOf(last).inbox = InOrder(inbox)
           /\ DOMAIN InOrder(inbox) = 1..Cardinality(inbox)
           /\ \A k \in 1..Cardinality(inbox) :
                /\ Nth(inbox, k) \in inbox /\ Nth(inbox, k) \in Int
                /\ InOrder(inbox)[k] = [entry_id |-> -Nth(inbox, k),
                                        kind |-> kind[Nth(inbox, k)]]
  <1>1. /\ inbox \in SUBSET Inputs /\ Cardinality(inbox) \in Nat
        /\ \A i \in inbox : kind[i] \in InboxKinds /\ i \in Int
    BY RankType, RunLaneAssumption
       DEF TypeOK, QueueInv, InputKinds, InboxKinds, Inputs
  <1>2. \A k \in 1..Cardinality(inbox) : Nth(inbox, k) \in inbox
    BY <1>1, RankTaken
  <1>3. \A k \in 1..Cardinality(inbox) :
            [entry_id |-> -Nth(inbox, k), kind |-> kind[Nth(inbox, k)]] \in InboxItems
    BY <1>1, <1>2 DEF InboxItems, Json
  <1>4. InOrder(inbox) \in Seq(InboxItems)
    BY <1>1, <1>3 DEF InOrder
  <1>5. /\ current # None => current \in Scalars
        /\ last \in Optional(Scalars)
    BY DEF TypeOK, LastOnes, Ended, Optional
  <1>6. LaneStateOf(last) \in LaneStates
    BY <1>4, <1>5 DEF LaneStateOf, LaneStates, Optional
  <1>7. LaneStateOf(last).inbox = InOrder(inbox)
    BY DEF LaneStateOf
  <1>8. DOMAIN InOrder(inbox) = 1..Cardinality(inbox)
    BY DEF InOrder
  <1>9. \A k \in 1..Cardinality(inbox) :
            InOrder(inbox)[k] = [entry_id |-> -Nth(inbox, k),
                                 kind |-> kind[Nth(inbox, k)]]
    BY DEF InOrder
  <1> QED
    BY <1>1, <1>2, <1>6, <1>7, <1>8, <1>9

(* Every queued input has a payload that can be read.                       *)
LEMMA QueueRead ==
    ASSUME Json, Ops \subseteq Scalars, TypeOK, QueueInv, NEW last \in LastOnes
    PROVE  ReadQueue(LaneStateOf(last).inbox, Payloads)
               = [k \in 1..Cardinality(inbox) |->
                    [entry_id |-> InOrder(inbox)[k].entry_id,
                     kind |-> InOrder(inbox)[k].kind, message |-> InputMessage]]
  <1>1. /\ LaneStateOf(last).inbox = InOrder(inbox)
        /\ DOMAIN InOrder(inbox) = 1..Cardinality(inbox)
        /\ \A k \in 1..Cardinality(inbox) :
                Nth(inbox, k) \in inbox /\ Nth(inbox, k) \in Int
        /\ \A k \in 1..Cardinality(inbox) :
                InOrder(inbox)[k].entry_id = -Nth(inbox, k)
    <2>1. \A k \in 1..Cardinality(inbox) :
                InOrder(inbox)[k] = [entry_id |-> -Nth(inbox, k),
                                     kind |-> kind[Nth(inbox, k)]]
      BY LaneFits
    <2>2. ASSUME NEW k \in 1..Cardinality(inbox)
          PROVE  InOrder(inbox)[k].entry_id = -Nth(inbox, k)
      <3> DEFINE id == -Nth(inbox, k)
      <3>1. InOrder(inbox)[k] = [entry_id |-> id, kind |-> kind[Nth(inbox, k)]]
        BY <2>1
      <3> HIDE DEF id
      <3>2. InOrder(inbox)[k].entry_id = id
        BY <3>1
      <3> QED
        BY <3>2 DEF id
    <2> QED
      BY <2>2, LaneFits
  <1>2. /\ InputMessage \in Messages
        /\ AsStored(InputMessage) = InputMessage
        /\ InputMessage.is = "UserMessage"
    BY LaneRecordsAssumption DEF InputMessage, Messages, UserMessages, AsStored
  <1>3. /\ DecodeMessage(EncodeMessage(InputMessage)) = InputMessage
        /\ EncodeMessage(InputMessage) # Null
    BY <1>2, MessageRoundTrip, EncodedIsObject
  <1>4. \A k \in 1..Cardinality(inbox) :
            Payloads[InOrder(inbox)[k].entry_id] = EncodeMessage(InputMessage)
    <2>1. ASSUME NEW i \in inbox, i \in Int
          PROVE  Payloads[-i] = EncodeMessage(InputMessage)
      <3>1. i \in Inputs /\ i \in pending /\ -(-i) = i
        BY <2>1 DEF TypeOK, QueueInv, InboxBackedByPayload
      <3> QED
        BY <3>1 DEF Payloads
    <2> QED
      BY <1>1, <2>1
  <1>5. ~Unreadable(EncodeMessage(InputMessage))
    BY <1>2, <1>3 DEF Unreadable
  <1> HIDE DEF InputMessage, Payloads
  <1> QED
    BY <1>1, <1>3, <1>4, <1>5 DEF ReadQueue

(* The records written for an open run are ones the codec keeps, and the    *)
(* state fits the intent.                                                  *)
LEMMA RunFits ==
    ASSUME Json, Ops \subseteq Scalars, ControlInv, ShapeInv, current # None,
           NEW waiting \in Waitings
    PROVE  /\ MetaOf \in Metas
           /\ StateOf(waiting) \in OperationStates
           /\ Storable(StateOf(waiting))
           /\ StateMatchesIntent(MetaOf.intent, StateOf(waiting))
  <1> DEFINE details == DetailsOf(waiting)
  <1>1. /\ current \in Ops /\ current \in Scalars
        /\ op \in OpStates /\ op.at # "none" /\ tip \in Nat
        /\ op.trigger \in Nat /\ op.attempt \in Nat /\ op.calls \in Nat
    BY DEF ControlInv, Control, TypeOK, OpStates
  <1>2. /\ \A n \in Nat : n \in Scalars /\ EntryId(n) \in Optional(Scalars)
        /\ \A n \in Nat \ {0} : EntryId(n) \in Scalars
        /\ Text \in Scalars /\ Null \notin Scalars
    BY LaneRecordsAssumption, DurableRecordsAssumption DEF Json, EntryId, Optional
  <1>3. MetaOf \in Metas
    BY <1>1, <1>2 DEF MetaOf, Metas, Intents, RunIntents, Texts, Optional
  <1>4. StoredConfiguration \in Configurations
    BY <1>2 DEF StoredConfiguration, Configurations, ThinkingLevels, Texts
  <1>5. ContinuationOf \in Continuations
    BY <1>1 DEF ContinuationOf, Continuations, OpStates
  <1>6. GenerationContextOf \in GenerationContexts
    BY <1>1, <1>2, <1>4, RunLaneAssumption
       DEF GenerationContextOf, GenerationContexts, RetryPolicies, OpStates
  <1>7. op.at = "summary" => TaskOf \in SummaryTasks
    BY <1>1, <1>2, <1>5 DEF ShapeInv, TaskOf, SummaryTasks, Reasons, Optional
  <1>8. ContinuationOf # Null
    BY DEF Json, IsObject, ContinuationOf
  <1>9. OneBoundary(TaskOf)
    BY <1>1, <1>2, <1>8 DEF TaskOf, OneBoundary
  <1>10. op.at = "tools" => BatchOf(waiting) \in Batches
    <2>1. ASSUME NEW c \in 1..op.calls
          PROVE  CallStateOf(c, waiting) \in CallStates
      <3>1. c - 1 \in Nat
        BY <1>1, <2>1
      <3> QED
        BY <1>2, <3>1 DEF CallStateOf, CallStates
    <2>2. [c \in 1..op.calls |-> CallStateOf(c, waiting)] \in Seq(CallStates)
      BY <1>1, <2>1
    <2>3. op.at = "tools" =>
              [c \in 1..op.calls |-> CallStateOf(c, waiting)] # <<>>
      BY <1>1 DEF ShapeInv
    <2>4. op.at = "tools" => EntryId(tip) \in Scalars
      BY <1>1, <1>2 DEF ShapeInv
    <2> QED
      BY <1>2, <1>4, <2>2, <2>3, <2>4 DEF BatchOf, Batches
  <1>11. details \in StateDetails
    <2>1. CASE op.at = "starting"
      BY <2>1 DEF DetailsOf, StateDetails
    <2>2. CASE op.at = "checkpoint"
      BY <1>1, <1>2, <1>5, <2>2 DEF DetailsOf, StateDetails
    <2>3. CASE op.at = "tools"
      BY <1>10, <2>3 DEF DetailsOf, StateDetails
    <2>4. CASE op.at = "summary"
      BY <1>7, <2>4 DEF DetailsOf, StateDetails
    <2>5. CASE op.at = "ready"
      BY <1>1, <1>2, <1>6, <2>5 DEF DetailsOf, StateDetails
    <2>6. CASE op.at = "effectPending"
      BY <1>1, <1>2, <1>6, <2>6 DEF DetailsOf, StateDetails
    <2>7. CASE op.at = "retryWait"
      BY <1>1, <1>2, <1>6, <2>7 DEF DetailsOf, StateDetails
    <2> QED
      BY <1>1, <2>1, <2>2, <2>3, <2>4, <2>5, <2>6, <2>7 DEF OpStates
  <1>12. SettingsOf \in RunSettings
    BY <1>1, <1>2, RunLaneAssumption
       DEF SettingsOf, RunSettings, CompactionSettings, QueueingModes, QueueModes,
       ToolExecutions, OpStates
  <1>13. StateOf(waiting) \in OperationStates
    BY <1>1, <1>2, <1>11, <1>12 DEF StateOf, OperationStates, Controls
  <1>14. /\ details.at # "navigation.ready_to_commit"
         /\ details.at \in SummaryAts => details.task = TaskOf
    BY DEF DetailsOf, SummaryAts
  <1>15. Storable(StateOf(waiting))
    BY <1>9, <1>14 DEF Storable, StateOf
  <1>16. StateMatchesIntent(MetaOf.intent, StateOf(waiting))
    BY <1>8, <1>14 DEF StateMatchesIntent, IsSummary, StateOf, MetaOf, TaskOf
  <1> QED
    BY <1>3, <1>13, <1>15, <1>16

(* What was streamed so far is read back.                                   *)
LEMMA FramesRead ==
    Each(DecodeFrame, Each(EncodeFrame, FramesOf)) = FramesOf
  <1> DEFINE list == FramesOf
             encoded == [i \in DOMAIN list |-> EncodeFrame(list[i])]
  <1>1. /\ FrameOf \in Frames
        /\ FrameAsStored(FrameOf) = FrameOf
    BY LaneRecordsAssumption
       DEF FrameOf, Frames, DeltaFrames, Deltas, FrameAsStored
  <1>2. list \in Seq(Frames) /\ \A i \in DOMAIN list : list[i] = FrameOf
    BY <1>1 DEF FramesOf
  <1> HIDE DEF list
  <1>3. \A i \in DOMAIN list : DecodeFrame(EncodeFrame(list[i])) = list[i]
    BY <1>1, <1>2, FrameRoundTrip
  <1>4. list = [i \in DOMAIN list |-> list[i]]
    BY <1>2
  <1>5. [i \in DOMAIN encoded |-> DecodeFrame(encoded[i])] = list
    BY <1>3, <1>4
  <1> QED
    BY <1>5 DEF Each, list

(* A call that was started and not placed is seen with what is stored of it. *)
LEMMA ToolsRead ==
    ASSUME Json, ControlInv, NEW waiting \in Waitings
    PROVE  RunningTools(DetailsOf(waiting), StoredOf(waiting))
               = WatchedRun(waiting).running_tools
  <1>1. CASE op.at # "tools"
    <2>1. DetailsOf(waiting).at # "tools"
      BY <1>1 DEF DetailsOf
    <2> QED
      BY <1>1, <2>1 DEF RunningTools, WatchedRun
  <1>2. CASE op.at = "tools"
    <2> DEFINE calls == [c \in 1..op.calls |-> CallStateOf(c, waiting)]
               stored == StoredOf(waiting)
               started == IF waiting # "planned" THEN 1..op.calls ELSE {}
    <2>1. /\ DetailsOf(waiting).at = "tools"
          /\ DetailsOf(waiting).batch.calls = calls
      BY <1>2 DEF DetailsOf, BatchOf
    <2>2. waiting \in {"planned", "pending", "ready"}
      BY DEF Waitings
    <2>3. {j \in DOMAIN calls : calls[j].is \in {"EffectPendingToolCall",
                                                "OutcomeReadyToolCall"}} = started
      BY <2>2 DEF CallStateOf
    <2>4. /\ Text \in Scalars /\ Text # Null
      BY LaneRecordsAssumption, DurableRecordsAssumption
    <2>5. /\ StagedOf \in Messages
          /\ AsStored(StagedOf) = StagedOf
      BY <2>4 DEF StagedOf, Messages, ToolResultMessages, AsStored, Optional
    <2>6. /\ DecodeMessage(EncodeMessage(StagedOf)) = StagedOf
          /\ EncodeMessage(StagedOf) # Null
      BY <2>5, MessageRoundTrip, EncodedIsObject
    <2>7. ASSUME NEW c \in 1..op.calls, waiting = "pending"
          PROVE  RunningTool(calls[c], stored[c])
                    = [tool_call_id |-> Text, args |-> Text, result |-> Null]
      BY <2>4, <2>7 DEF RunningTool, CallStateOf, StoredOf, CallOf
    <2>8. ASSUME NEW c \in 1..op.calls, waiting = "ready"
          PROVE  RunningTool(calls[c], stored[c])
                    = [tool_call_id |-> Text, args |-> Text, is_error |-> FALSE,
                       result |-> [content |-> <<>>, details |-> Null,
                                   usage |-> Null, terminate |-> c = 1]]
      <3> DEFINE last == c = 1
      <3>1. /\ calls[c].is = "OutcomeReadyToolCall"
            /\ calls[c].terminate = last
        BY <2>8 DEF CallStateOf
      <3>2. /\ stored[c].source.is = "ToolCall"
            /\ stored[c].source.id = Text /\ stored[c].source.arguments = Text
            /\ stored[c].args = Null
            /\ stored[c].staged = EncodeMessage(StagedOf)
        BY <2>8 DEF StoredOf, CallOf
      <3> HIDE DEF calls, stored, last
      <3>3. RunningTool(calls[c], stored[c])
              = [tool_call_id |-> Text, args |-> Text,
                 result |-> [content |-> StagedOf.content,
                             details |-> StagedOf.details,
                             usage |-> StagedOf.usage,
                             terminate |-> calls[c].terminate],
                 is_error |-> StagedOf.is_error]
        <4>1. StagedOf.is = "ToolResultMessage"
          BY DEF StagedOf
        <4> QED
          BY <2>6, <3>1, <3>2, <4>1 DEF RunningTool
      <3> QED
        BY <3>1, <3>3 DEF StagedOf, last
    <2> HIDE DEF calls, stored
    <2>9. RunningTools(DetailsOf(waiting), stored)
            = [c \in started |-> RunningTool(calls[c], stored[c])]
      BY <2>1, <2>3 DEF RunningTools
    <2>10. \A c \in started :
              RunningTool(calls[c], stored[c]) =
                IF waiting = "pending"
                THEN [tool_call_id |-> Text, args |-> Text, result |-> Null]
                ELSE [tool_call_id |-> Text, args |-> Text, is_error |-> FALSE,
                      result |-> [content |-> <<>>, details |-> Null,
                                  usage |-> Null, terminate |-> c = 1]]
      BY <2>2, <2>7, <2>8
    <2> QED
      BY <1>2, <2>9, <2>10 DEF WatchedRun, stored
  <1> QED
    BY <1>1, <1>2

(* Wherever a process is lost, the next one finds the run and goes on with  *)
(* it, and inspect_execution and a watcher see the same: the queue with     *)
(* every payload, the tools under way, the response as far as it came, the  *)
(* wait for a retry, the abort and the last result.                         *)
THEOREM LaneRestoreResumes ==
    ASSUME Json, Ops \subseteq Scalars
    PROVE  Spec => []RestoreResumes
  <1>1. ASSUME ControlInv, QueueInv, ShapeInv PROVE RestoreResumes
    <2> SUFFICES ASSUME NEW last \in LastOnes
                 PROVE
        LET lane == LaneStateOf(last)
            Execution(info) == [current |-> info, last_operation_id |-> last,
                                tip_id |-> EntryId(tip)]
        IN  /\ DecodeLaneState(EncodeLaneState(lane)) = lane
            /\ IF current = None
               THEN /\ Reopened(last, Null, Null) = Null
                    /\ Inspected(last, Null, Null) = Execution(Null)
                    /\ Watched(last, Null, Null, "planned") = WatchedLane(last, Null)
               ELSE \A waiting \in Waitings :
                    LET meta == EncodeMeta(MetaOf)
                        state == EncodeOperationState(StateOf(waiting))
                        run == [operation_id |-> current, kind |-> "run",
                                started_at |-> Text,
                                at |-> DetailsOf(waiting).at]
                    IN  /\ DecodeOperationState(state) = StateOf(waiting)
                        /\ Reopened(last, meta, state) = run
                        /\ Inspected(last, meta, state) = Execution(run)
                        /\ Watched(last, meta, state, waiting)
                            = WatchedLane(last, WatchedRun(waiting))
      BY DEF RestoreResumes
    <2>1. TypeOK
      BY <1>1 DEF ControlInv
    <2>2. /\ LaneStateOf(last) \in LaneStates
          /\ LaneStateOf(last).last_operation_id = last
          /\ LaneStateOf(last).current_operation_id
                = IF current = None THEN Null ELSE current
      BY <1>1, <2>1, LaneFits DEF LaneStateOf
    <2>3. DecodeLaneState(EncodeLaneState(LaneStateOf(last))) = LaneStateOf(last)
      BY <2>2, LaneStateRoundTrip
    <2>4. StoredConfiguration \in Configurations
      BY LaneRecordsAssumption
         DEF StoredConfiguration, Configurations, ThinkingLevels, Texts
    <2>5. DecodeConfiguration(EncodeConfiguration(StoredConfiguration))
            = StoredConfiguration
      BY <2>4, ConfigurationRoundTrip
    <2>6. /\ EncodeLaneState(LaneStateOf(last)) # Null
          /\ EncodeConfiguration(StoredConfiguration) # Null
          /\ [value |-> EntryId(tip)] # Null
      BY EncodedIsObject
    <2>7. current # None => current \in Ops /\ current # Null
      BY <2>1, DurableRecordsAssumption DEF TypeOK
    <2>8. last # Null =>
            /\ last \in Ended
            /\ EncodeOperationResult(ResultOf(last)) # Null
            /\ DecodeOperationResult(EncodeOperationResult(ResultOf(last)))
                 = ResultOf(last)
      <3>1. last # Null => last \in Ended /\ last \in Ops
        BY DEF LastOnes, Ended
      <3>2. last # Null => result[last] \in ResultStatuses
        BY <2>1, <3>1 DEF TypeOK, Ended, Statuses, ResultStatuses
      <3>3. last # Null =>
              DecodeOperationResult(EncodeOperationResult(ResultOf(last)))
                = ResultOf(last)
        BY <3>2 DEF DecodeOperationResult, EncodeOperationResult, ResultOf,
           OperationKinds
      <3> QED
        BY <3>1, <3>3, EncodedIsObject
    (* What a watcher sees, given what it sees of the run.                 *)
    <2>9. ASSUME NEW meta, NEW state, NEW waiting, NEW run,
                 current = None => run = Null,
                 current # None =>
                    /\ meta # Null /\ state # Null
                    /\ run = OperationSnapshot(current, DecodeMeta(meta),
                                DecodeOperationState(state),
                                Each(EncodeFrame, FramesOf), StoredOf(waiting))
          PROVE  Watched(last, meta, state, waiting) = WatchedLane(last, run)
      <3> DEFINE lane == LaneStateOf(last)
                 encoded == EncodeLaneState(lane)
                 metas == [o \in Ops |-> meta]
                 states == [o \in Ops |-> state]
                 results == [o \in Ops |-> IF o \in Ended
                                THEN EncodeOperationResult(ResultOf(o)) ELSE Null]
                 frames1 == Each(EncodeFrame, FramesOf)
                 place1 == [value |-> EntryId(tip)]
                 configuration == EncodeConfiguration(StoredConfiguration)
                 queue == [k \in 1..Cardinality(inbox) |->
                    [entry_id |-> InOrder(inbox)[k].entry_id,
                     kind |-> InOrder(inbox)[k].kind, message |-> InputMessage]]
      <3>1. current # None => metas[current] = meta /\ states[current] = state
        BY <2>7
      <3>2. last # Null => results[last] = EncodeOperationResult(ResultOf(last))
        BY <2>8 DEF Ended
      <3>3. ReadQueue(lane.inbox, Payloads) = queue
        BY <1>1, <2>1, QueueRead
      <3>4. /\ DecodeLaneState(encoded) = lane
            /\ DecodeConfiguration(configuration) = StoredConfiguration
            /\ encoded # Null /\ configuration # Null /\ place1 # Null
            /\ lane.last_operation_id = last
            /\ lane.current_operation_id = IF current = None THEN Null ELSE current
        BY <2>2, <2>3, <2>5, <2>6
      <3>5. place1.value = EntryId(tip)
        OBVIOUS
      <3>6. Watched(last, meta, state, waiting)
              = CaptureSnapshot(place1, configuration, encoded, metas, states,
                                results, Payloads, frames1, StoredOf(waiting))
        BY DEF Watched
      <3>7. WatchedLane(last, run)
              = [tip_id |-> EntryId(tip),
                 last_result |-> IF last = Null THEN Null ELSE ResultOf(last),
                 configuration |-> StoredConfiguration, operation |-> run,
                 queues |-> queue]
        BY DEF WatchedLane
      <3>8. Null \notin {encoded, place1, configuration}
        BY <3>4
      <3> HIDE DEF lane, encoded, metas, states, results, frames1, place1,
          configuration, queue
      <3>9. CASE current = None
        <4>1. run = Null /\ lane.current_operation_id = Null
          BY <2>9, <3>4, <3>9
        <4> QED
          BY <2>8, <3>2, <3>3, <3>4, <3>5, <3>6, <3>7, <3>8, <4>1
             DEF CaptureSnapshot
      <3>10. CASE current # None
        <4>1. /\ lane.current_operation_id = current /\ current # Null
              /\ metas[current] # Null /\ states[current] # Null
              /\ run = OperationSnapshot(current, DecodeMeta(metas[current]),
                         DecodeOperationState(states[current]), frames1,
                         StoredOf(waiting))
          BY <2>7, <2>9, <3>1, <3>4, <3>10 DEF frames1
        <4> QED
          BY <2>8, <3>2, <3>3, <3>4, <3>5, <3>6, <3>7, <3>8, <4>1
             DEF CaptureSnapshot
      <3> QED
        BY <3>9, <3>10
    <2>10. CASE current = None
      <3>1. Reopened(last, Null, Null) = Null
        BY <2>2, <2>4, <2>10, RestoreIdle DEF Reopened
      <3>2. Inspected(last, Null, Null)
              = [current |-> Null, last_operation_id |-> last,
                 tip_id |-> EntryId(tip)]
        BY <2>2, <2>3, <2>6, <2>10 DEF Inspected, ReadExecution
      <3>3. Watched(last, Null, Null, "planned") = WatchedLane(last, Null)
        BY <2>9, <2>10
      <3> QED
        BY <2>3, <2>10, <3>1, <3>2, <3>3
    <2>11. ASSUME current # None, NEW waiting \in Waitings
           PROVE  LET meta == EncodeMeta(MetaOf)
                      state == EncodeOperationState(StateOf(waiting))
                      run == [operation_id |-> current, kind |-> "run",
                              started_at |-> Text,
                              at |-> DetailsOf(waiting).at]
                  IN  /\ DecodeOperationState(state) = StateOf(waiting)
                      /\ Reopened(last, meta, state) = run
                      /\ Inspected(last, meta, state)
                            = [current |-> run, last_operation_id |-> last,
                               tip_id |-> EntryId(tip)]
                      /\ Watched(last, meta, state, waiting)
                            = WatchedLane(last, WatchedRun(waiting))
      <3> DEFINE m == MetaOf
                 s == StateOf(waiting)
                 meta == EncodeMeta(m)
                 state == EncodeOperationState(s)
                 metas == [o \in Ops |-> meta]
                 states == [o \in Ops |-> state]
                 run == [operation_id |-> current, kind |-> "run",
                         started_at |-> Text, at |-> DetailsOf(waiting).at]
      <3>1. /\ m \in Metas /\ s \in OperationStates /\ Storable(s)
            /\ StateMatchesIntent(m.intent, s)
        BY <1>1, <2>11, RunFits
      <3>2. /\ m.lane = Text /\ m.operation_id = current
            /\ m.started_at = Text /\ m.source_tip_id = Null
            /\ m.intent.is = "RunIntent"
            /\ s.details = DetailsOf(waiting)
        BY DEF MetaOf, StateOf
      <3>3. KindOf(m.intent) = "run"
        BY <3>2 DEF KindOf
      <3>4. /\ DecodeOperationState(state) = s /\ DecodeMeta(meta) = m
            /\ state # Null /\ meta # Null
        BY <3>1, StatesReadBack, MetaRoundTrip, EncodedIsObject
      <3>5. metas[current] = meta /\ states[current] = state
        BY <2>7, <2>11
      <3>6. /\ Reopened(last, meta, state)
                 = Restore(Text, [value |-> EntryId(tip)],
                           EncodeConfiguration(StoredConfiguration),
                           EncodeLaneState(LaneStateOf(last)), metas, states)
            /\ Inspected(last, meta, state)
                 = ReadExecution([value |-> EntryId(tip)],
                           EncodeLaneState(LaneStateOf(last)), metas, states)
        BY DEF Reopened, Inspected
      <3>7. s.control.is = "CancelRequestedControl" <=> op.control # "running"
        BY DEF StateOf
      <3> HIDE DEF m, s, metas, states
      <3>8. Restore(Text, [value |-> EntryId(tip)],
                    EncodeConfiguration(StoredConfiguration),
                    EncodeLaneState(LaneStateOf(last)), metas, states)
              = [operation_id |-> m.operation_id, kind |-> KindOf(m.intent),
                 started_at |-> m.started_at, at |-> s.details.at]
        <4>1. /\ metas[m.operation_id] = EncodeMeta(m)
              /\ states[m.operation_id] = EncodeOperationState(s)
              /\ m.operation_id = LaneStateOf(last).current_operation_id
          BY <2>2, <2>11, <3>2, <3>5
        <4> QED
          BY <2>2, <2>4, <3>1, <3>2, <4>1, RestoreFinds
      <3>9. Reopened(last, meta, state) = run
        BY <3>2, <3>3, <3>6, <3>8
      <3>10. Inspected(last, meta, state)
               = [current |-> run, last_operation_id |-> last,
                  tip_id |-> EntryId(tip)]
        BY <2>2, <2>3, <2>6, <2>7, <2>11, <3>2, <3>3, <3>4, <3>5, <3>6
           DEF ReadExecution
      <3>11. OperationSnapshot(current, m, s, Each(EncodeFrame, FramesOf),
                               StoredOf(waiting)) = WatchedRun(waiting)
        <4>1. RunningTools(s.details, StoredOf(waiting))
                = WatchedRun(waiting).running_tools
          BY <1>1, <3>2, ToolsRead
        <4>2. RetryOf(s.details) = WatchedRun(waiting).retry
          BY <1>1, <2>11, <3>2 DEF RetryOf, DetailsOf, GenerationContextOf,
             WatchedRun, ControlInv, Control, TypeOK, OpStates
        <4>3. s.details.at = "assistant.effect_pending" <=> op.at = "effectPending"
          BY <3>2 DEF DetailsOf
        <4>4. WatchedRun(waiting)
                = [id |-> current, kind |-> "run", started_at |-> Text,
                   from_tip_id |-> Null,
                   status |-> IF op.control = "running" THEN "open"
                              ELSE "aborting",
                   running_tools |-> WatchedRun(waiting).running_tools,
                   retry |-> WatchedRun(waiting).retry,
                   streaming |-> IF op.at = "effectPending" THEN FramesOf
                                 ELSE Null]
          BY DEF WatchedRun
        <4> QED
          BY <3>2, <3>3, <3>7, <4>1, <4>2, <4>3, <4>4, FramesRead
             DEF OperationSnapshot
      <3>12. Watched(last, meta, state, waiting)
               = WatchedLane(last, WatchedRun(waiting))
        <4> HIDE DEF meta, state
        <4> QED
          BY <2>9, <2>11, <3>4, <3>11
      <3> QED
        BY <3>4, <3>9, <3>10, <3>12 DEF m, s
    <2> QED
      BY <2>3, <2>10, <2>11
  <1> QED
    BY <1>1, ControlAlways, QueueAlways, ShapeAlways, PTL

=============================================================================

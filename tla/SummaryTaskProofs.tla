------------------------- MODULE SummaryTaskProofs -------------------------
(***************************************************************************)
(* Proofs about SummaryTask, for every set of operations and every number  *)
(* of attempts and crashes, and about Compaction, for every conversation   *)
(* and every setting.                                                      *)
(***************************************************************************)
EXTENDS SummaryRecords, Compaction, DurableRecordsProofs, WellFoundedInduction

-----------------------------------------------------------------------------
(* The inductive invariant                                                 *)

(* The durable records of an operation: there is a state exactly while the *)
(* operation is open, its preparation is there exactly for a summary, and  *)
(* until it ends the tip stays where it was accepted.                      *)
RecordsInv ==
    /\ current = None <=> op.at = "none"
    /\ current = None => op.control = "running"
    /\ PreparationOwned
    /\ current # None =>
        /\ result[current] = "none"
        /\ meta[current].source = tip
        /\ meta[current].requests >= 1
        /\ op.at = "navigate" => meta[current].kind = "navigation"

Requesting == {"request", "requestHook", "intent", "admit", "stream",
               "answered"}

(* Where the drive stands determines the state it works on: other callers  *)
(* only set the marker.                                                    *)
PointInv ==
    /\ pc = "idle" <=> driving = None
    /\ pc \notin {"idle", "check"} => current = driving
    /\ pc \in {"hook", "decided"} => op.at = "deciding"
    /\ pc = "prepare" => op.at = "ready"
    /\ pc \in Requesting \union {"recover"} => op.at = "effectPending"
    /\ pc = "wait" => op.at = "retryWait"
    /\ pc = "navigate" => op.at = "navigate"
    /\ pc = "publish" => op.at \in SummaryStates

(* What the drive holds is the stored state but for the marker.            *)
HeldInv ==
    pc \in Requesting \union {"hook", "prepare", "recover", "publish", "wait",
                              "navigate"} =>
        /\ held.at = op.at
        /\ held.attempt = op.attempt
        /\ held.request = op.request
        /\ held.answers = op.answers

(* The requests of the attempt under way, and what its end may be.         *)
RequestInv ==
    /\ op.at \in {"deciding", "navigate"} => issued = {}
    /\ op.at \in {"ready", "effectPending", "retryWait"} =>
        /\ op.attempt >= 1
        /\ \A r \in issued : r[1] <= op.attempt
    /\ op.at \in {"ready", "retryWait"} => \A r \in issued : r[1] < op.attempt
    /\ RequestsAccounted
    /\ op.at = "effectPending" =>
        /\ op.request \in {0, op.answers + 1}
        /\ op.answers <= meta[current].requests
    /\ pc \in Requesting => op.answers < meta[current].requests
    /\ pc \in {"request", "requestHook", "intent"} => op.request = 0
    /\ pc \in {"admit", "stream", "answered"} => op.request = op.answers + 1
    /\ pc = "answered" => outcome \in {"summary", "retry", "failed"}
    /\ pc = "publish" =>
        /\ outcome = "summary" => op.answers = meta[current].requests
        /\ outcome = "retry" =>
            op.at = "effectPending" /\ op.attempt < MaxAttempts

(* The entry a completed summary reports is in the history.                *)
ResultInv ==
    \A o \in Ops :
        /\ result[o] \in Statuses \ {"completed"} => resultTip[o] = meta[o].source
        /\ result[o] = "completed" =>
            \/ meta[o].kind = "navigation" /\ resultTip[o] = meta[o].target
            \/ /\ resultTip[o] \in DOMAIN history
               /\ history[resultTip[o]].type # "message"
               /\ history[resultTip[o]].parent =
                    IF meta[o].kind = "navigation" THEN meta[o].target
                    ELSE meta[o].source
               /\ history[resultTip[o]].fromHook
                    \/ history[resultTip[o]].usages = meta[o].requests

IInv == TypeOK /\ RecordsInv /\ PointInv /\ HeldInv /\ RequestInv /\ ResultInv

LEMMA InitInv == Init => IInv
  <1> SUFFICES ASSUME Init PROVE IInv
    OBVIOUS
  <1>1. /\ Len(Forked) = 3
        /\ Forked \in Seq([parent : 0..3, fromHook : BOOLEAN,
                           type : {"message", "compaction", "branchSummary"},
                           usages : 0..2])
        /\ \A e \in DOMAIN Forked : Forked[e].parent < e
    BY DEF Forked
  <1>2. /\ history \in Seq([parent : 0..Len(history), fromHook : BOOLEAN,
                            type : {"message", "compaction", "branchSummary"},
                            usages : 0..2])
        /\ \A e \in DOMAIN history : history[e].parent < e
        /\ Len(history) = 3
    BY <1>1 DEF Init
  <1>3. NoState \in OpStates
    BY SummaryTaskAssumption DEF NoState, OpStates
  <1>8. preparation \in BOOLEAN /\ due \in BOOLEAN /\ faulted \in BOOLEAN
    BY Zenon DEF Init
  <1>4. /\ issued \subseteq (1..MaxAttempts) \X (1..2)
        /\ settled \subseteq issued
        /\ crashes \in 0..MaxCrashes
    BY SummaryTaskAssumption DEF Init
  <1>5. /\ meta \in [Ops -> [kind : {"none", "compaction", "navigation"},
                            source : 0..3, target : 0..3, requests : 0..2]]
        /\ result \in [Ops -> Statuses \union {"none"}]
        /\ resultTip \in [Ops -> 0..3]
        /\ tip \in 0..3
    BY DEF Init, NoMeta
  <1>6. /\ current \in Ops \union {None} /\ driving \in Ops \union {None}
        /\ op \in OpStates /\ held \in OpStates
        /\ pc = "idle" /\ outcome = "none" /\ abort = "none"
    BY <1>3 DEF Init
  <1>7. TypeOK
    BY <1>2, <1>4, <1>5, <1>6, <1>8 DEF TypeOK
  <1> QED
    BY <1>7, SummaryTaskAssumption DEF Init, IInv, RecordsInv, PointInv, HeldInv,
       RequestInv, ResultInv, PreparationOwned, RequestsAccounted, NoState,
       SummaryStates, Requesting, Statuses

-----------------------------------------------------------------------------
(* Steps that write no record                                              *)

(* A step that leaves the records alone keeps what is said of them only.   *)
LEMMA RecordsUntouched ==
    ASSUME IInv, UNCHANGED <<durableVars, issued, settled>>
    PROVE  /\ RecordsInv'
           /\ ResultInv'
           /\ RequestsAccounted'
  <1>1. RecordsInv'
    BY DEF IInv, RecordsInv, PreparationOwned, durableVars
  <1>2. ResultInv'
    BY DEF IInv, ResultInv, durableVars
  <1>3. RequestsAccounted'
    BY DEF IInv, RequestInv, RequestsAccounted, durableVars
  <1> QED
    BY <1>1, <1>2, <1>3

(* The moves of the drive, of its callers and of the clock.                *)
LEMMA MoveStep ==
    ASSUME IInv,
           \/ SealDrive \/ SignalDrive \/ Drive \/ CheckAbort \/ ReturnResult
           \/ Read \/ Interrupted \/ ModelUnavailable \/ AdmitRequest
           \/ RequestHookReturns \/ RecoverGeneration \/ TimePasses
           \/ AwaitRetry \/ AbortSettles \/ Crash
           \/ \E decision \in {"none", "declined", "hookSummary"} :
                    HookDecides(decision)
           \/ \E response \in {"summary", "retry", "failed"} : Answer(response)
    PROVE  IInv'
  <1>1. UNCHANGED <<durableVars, issued, settled>>
    BY DEF SealDrive, SignalDrive, Drive, CheckAbort, ReturnResult, Read,
       Interrupted, ModelUnavailable, AdmitRequest, RequestHookReturns,
       RecoverGeneration, TimePasses, AwaitRetry, AbortSettles, Crash,
       HookDecides, Answer, Move, Decide, durableVars, countVars
  <1>2. /\ current' = current /\ meta' = meta /\ op' = op
        /\ preparation' = preparation /\ result' = result
        /\ resultTip' = resultTip /\ history' = history /\ tip' = tip
        /\ issued' = issued /\ settled' = settled
    BY <1>1 DEF durableVars
  <1>3. TypeOK /\ PointInv /\ HeldInv /\ RequestInv /\ RecordsInv
    BY DEF IInv
  (* How the drive moves.                                                  *)
  <1>4. \/ pc' = pc /\ held' = held /\ outcome' = outcome
        \/ pc' \in {"idle", "check", "act", "await", "reconcile"}
        \/ pc = "act" /\ pc' = StepOf[op.at]
        \/ pc = "hook" /\ pc' = "decided"
        \/ /\ pc' = "publish" /\ held' = held
           /\ \/ pc \in {"hook", "prepare"} /\ outcome' \notin {"summary", "retry"}
              \/ pc = "recover" /\ outcome' = Recovered
        \/ pc = "request" /\ pc' = "requestHook"
        \/ pc = "requestHook" /\ pc' = "intent"
        \/ pc = "admit" /\ pc' = "stream"
        \/ pc = "stream" /\ pc' = "answered"
                /\ outcome' \in {"summary", "retry", "failed"}
    BY DEF SealDrive, SignalDrive, Drive, CheckAbort,
       ReturnResult, Read, Interrupted, ModelUnavailable, AdmitRequest,
       RequestHookReturns, RecoverGeneration, TimePasses, AwaitRetry,
       AbortSettles, Crash, HookDecides, Answer, Move, Decide, StepEnds
  <1>6. pc = "act" => op.at \in SummaryStates \union {"navigate"}
    BY <1>3, SummaryTaskAssumption DEF TypeOK, OpStates, RecordsInv, PointInv
  <1>5. /\ pc' = "idle" <=> driving' = None
        /\ pc' \notin {"idle", "check"} => current' = driving'
        /\ driving' \in Ops \union {None}
    <2>1. /\ driving \in Ops \union {None} /\ current \in Ops \union {None}
          /\ pc = "idle" <=> driving = None
          /\ pc \notin {"idle", "check"} => current = driving
          /\ None \notin Ops
      BY <1>3, SummaryTaskAssumption DEF TypeOK, PointInv
    <2>2. pc = "act" => StepOf[op.at] \notin {"idle", "check"}
      BY <1>6 DEF StepOf, SummaryStates
    <2> QED
      BY <1>2, <2>1, <2>2 DEF
       SealDrive, SignalDrive, Drive, CheckAbort,
       ReturnResult, Read, Interrupted, ModelUnavailable, AdmitRequest,
       RequestHookReturns, RecoverGeneration, TimePasses, AwaitRetry,
       AbortSettles, Crash, HookDecides, Answer, Move, Decide, StepOf
  <1>7. TypeOK'
    <2>1. NoState \in OpStates
      BY SummaryTaskAssumption DEF NoState, OpStates
    <2>2. /\ held' \in OpStates
          /\ outcome' \in {"none", "summary", "hookSummary", "declined", "retry",
                          "failed"}
      BY <1>3, <2>1 DEF TypeOK, SealDrive, SignalDrive, Drive, CheckAbort,
         ReturnResult, Read, Interrupted, ModelUnavailable, AdmitRequest,
         RequestHookReturns, RecoverGeneration, TimePasses, AwaitRetry,
         AbortSettles, Crash, HookDecides, Answer, Move, Decide, StepEnds,
         Recovered
    <2>3. abort' \in {"none", "sealed", "marked", "done"}
      BY <1>3, SummaryTaskAssumption DEF TypeOK, SealDrive, SignalDrive, Drive,
         CheckAbort, ReturnResult, Read, Interrupted, ModelUnavailable,
         AdmitRequest, RequestHookReturns, RecoverGeneration, TimePasses,
         AwaitRetry, AbortSettles, Crash, HookDecides, Answer, Move, Decide,
         countVars
    <2>5. /\ due' = due \/ due' = TRUE
          /\ faulted' = faulted \/ faulted' = FALSE
      BY DEF SealDrive, SignalDrive, Drive,
         CheckAbort, ReturnResult, Read, Interrupted, ModelUnavailable,
         AdmitRequest, RequestHookReturns, RecoverGeneration, TimePasses,
         AwaitRetry, AbortSettles, Crash, HookDecides, Answer, Move, Decide,
         countVars
    <2>6. crashes' = crashes \/ (crashes < MaxCrashes /\ crashes' = crashes + 1)
      BY DEF SealDrive, SignalDrive, Drive,
         CheckAbort, ReturnResult, Read, Interrupted, ModelUnavailable,
         AdmitRequest, RequestHookReturns, RecoverGeneration, TimePasses,
         AwaitRetry, AbortSettles, Crash, HookDecides, Answer, Move, Decide,
         countVars
    <2>7. due' \in BOOLEAN /\ faulted' \in BOOLEAN
      BY <1>3, <2>5, Zenon DEF TypeOK
    <2>8. crashes' \in 0..MaxCrashes
      BY <1>3, <2>6, SummaryTaskAssumption DEF TypeOK
    <2>4. pc' \in {"idle", "check", "act", "hook", "decided", "prepare",
                   "request", "requestHook", "intent", "admit", "stream",
                   "answered", "publish", "wait", "recover", "navigate",
                   "await", "reconcile"}
      BY <1>3, <1>4, <1>6 DEF TypeOK, StepOf, SummaryStates
    <2> QED
      BY <1>2, <1>3, <1>5, <2>2, <2>3, <2>4, <2>7, <2>8 DEF TypeOK
  <1>8. PointInv'
    BY <1>2, <1>3, <1>4, <1>5, <1>6 DEF PointInv, StepOf, SummaryStates,
       Requesting
  <1>9. HeldInv'
    BY <1>2, <1>3 DEF HeldInv, PointInv,
       SealDrive, SignalDrive, Drive, CheckAbort,
       ReturnResult, Read, Interrupted, ModelUnavailable, AdmitRequest,
       RequestHookReturns, RecoverGeneration, TimePasses, AwaitRetry,
       AbortSettles, Crash, HookDecides, Answer, Move, Decide, StepEnds,
       Requesting
  <1>10. RequestInv'
    <2>1. RequestsAccounted'
      BY <1>1, RecordsUntouched
    <2>2. /\ pc' \in Requesting =>
                pc \in Requesting /\ op.answers < meta[current].requests
          /\ pc' \in {"request", "requestHook", "intent"} => op.request = 0
          /\ pc' \in {"admit", "stream", "answered"} =>
                op.request = op.answers + 1
          /\ pc' = "answered" => outcome' \in {"summary", "retry", "failed"}
      BY <1>3, <1>4, <1>6 DEF RequestInv, StepOf, SummaryStates, Requesting
    <2>3. pc' = "publish" =>
            /\ outcome' = "summary" => op.answers = meta[current].requests
            /\ outcome' = "retry" =>
                    op.at = "effectPending" /\ op.attempt < MaxAttempts
      <3>1. CASE pc = "recover" /\ outcome' = Recovered
        BY <1>3, <3>1, SummaryTaskAssumption DEF PointInv, HeldInv, TypeOK,
           OpStates, Recovered, Requesting
      <3>2. CASE ~(pc = "recover" /\ outcome' = Recovered)
        BY <1>3, <1>4, <1>6, <3>2 DEF RequestInv, StepOf, SummaryStates
      <3> QED
        BY <3>1, <3>2
    <2> QED
      BY <1>2, <1>3, <2>1, <2>2, <2>3 DEF RequestInv
  <1> QED
    BY <1>1, <1>7, <1>8, <1>9, <1>10, RecordsUntouched DEF IInv

-----------------------------------------------------------------------------
(* Acceptance and the marker                                               *)

LEMMA AcceptStep ==
    ASSUME IInv, NEW o \in Ops,
           \/ \E requests \in 1..2 : AcceptCompaction(o, requests)
           \/ \E target \in 0..Len(history), summarize \in BOOLEAN :
                    AcceptNavigation(o, target, summarize)
    PROVE  IInv'
  <1>1. TypeOK /\ RecordsInv /\ PointInv /\ HeldInv /\ RequestInv /\ ResultInv
    BY DEF IInv
  <1>2. Accepts(o)
    BY DEF AcceptCompaction, AcceptNavigation
  <1>3. /\ current = None /\ result[o] = "none" /\ current' = o
        /\ issued' = {} /\ settled' = {}
        /\ UNCHANGED <<result, resultTip, history, tip, driving, pc, held,
                       outcome, abort, due, faulted, crashes>>
    BY <1>2 DEF Accepts
  <1>4. PICK m \in [kind : {"compaction", "navigation"}, source : {tip},
                    target : 0..Len(history), requests : 1..2] :
            /\ meta' = [meta EXCEPT ![o] = m]
            /\ \/ op' = [NoState EXCEPT !.at = "deciding"] /\ preparation' = TRUE
               \/ /\ op' = [NoState EXCEPT !.at = "navigate"]
                  /\ preparation' = FALSE
                  /\ m.kind = "navigation"
    <2>1. 0 \in 0..Len(history)
      BY <1>1 DEF TypeOK
    <2>2. ASSUME NEW requests \in 1..2, AcceptCompaction(o, requests)
          PROVE  \E m \in [kind : {"compaction", "navigation"}, source : {tip},
                            target : 0..Len(history), requests : 1..2] :
                    /\ meta' = [meta EXCEPT ![o] = m]
                    /\ op' = [NoState EXCEPT !.at = "deciding"]
                    /\ preparation' = TRUE
      BY <2>1, <2>2 DEF AcceptCompaction
    <2>3. ASSUME NEW target \in 0..Len(history), NEW summarize \in BOOLEAN,
                 AcceptNavigation(o, target, summarize)
          PROVE  \E m \in [kind : {"compaction", "navigation"}, source : {tip},
                            target : 0..Len(history), requests : 1..2] :
                    /\ meta' = [meta EXCEPT ![o] = m]
                    /\ \/ /\ op' = [NoState EXCEPT !.at = "deciding"]
                          /\ preparation' = TRUE
                       \/ /\ op' = [NoState EXCEPT !.at = "navigate"]
                          /\ preparation' = FALSE
                          /\ m.kind = "navigation"
      <3> DEFINE n == [kind |-> "navigation", source |-> tip,
                       target |-> target, requests |-> 1]
      <3>1. n \in [kind : {"compaction", "navigation"}, source : {tip},
                   target : 0..Len(history), requests : 1..2]
              /\ n.kind = "navigation"
        BY <2>3
      <3>2. /\ meta' = [meta EXCEPT ![o] = n]
            /\ op' = [NoState EXCEPT !.at = IF summarize THEN "deciding"
                                            ELSE "navigate"]
            /\ preparation' = summarize
        BY <2>3 DEF AcceptNavigation
      <3>3. \/ op' = [NoState EXCEPT !.at = "deciding"] /\ preparation' = TRUE
            \/ op' = [NoState EXCEPT !.at = "navigate"] /\ preparation' = FALSE
        <4>1. CASE summarize = TRUE
          BY <3>2, <4>1
        <4>2. CASE summarize = FALSE
          BY <3>2, <4>2
        <4> QED
          BY <4>1, <4>2
      <3> HIDE DEF n
      <3> QED
        BY <3>1, <3>2, <3>3
    <2> QED
      BY <2>2, <2>3
  <1>5. /\ op' \in OpStates
        /\ op'.at \in {"deciding", "navigate"}
        /\ op'.control = "running"
    BY <1>4, SummaryTaskAssumption DEF NoState, OpStates, SummaryStates
  <1>6. pc \in {"idle", "check"}
    BY <1>1, <1>3 DEF PointInv
  <1>7. /\ meta' \in [Ops -> [kind : {"none", "compaction", "navigation"},
                             source : 0..Len(history), target : 0..Len(history),
                             requests : 0..2]]
        /\ meta'[o] = m
        /\ \A p \in Ops : p # o => meta'[p] = meta[p]
    BY <1>1, <1>4 DEF TypeOK
  <1>8. TypeOK'
    <2>1. preparation' \in BOOLEAN
      BY <1>4, Zenon
    <2> QED
      BY <1>1, <1>3, <1>5, <1>7, <2>1 DEF TypeOK
  <1>9. RecordsInv'
    BY <1>3, <1>4, <1>5, <1>7, SummaryTaskAssumption DEF RecordsInv,
       PreparationOwned, SummaryStates, NoState
  <1>10. PointInv' /\ HeldInv'
    BY <1>1, <1>3, <1>6 DEF PointInv, HeldInv, Requesting
  <1>11. RequestInv'
    BY <1>3, <1>5, <1>6 DEF RequestInv, RequestsAccounted, Requesting
  <1>12. ResultInv'
    BY <1>1, <1>3, <1>7 DEF ResultInv, Statuses
  <1> QED
    BY <1>8, <1>9, <1>10, <1>11, <1>12 DEF IInv

(* The marker changes nothing else.                                        *)
LEMMA MarkStep ==
    ASSUME IInv, RequestAbort \/ MarkSealed
    PROVE  IInv'
  <1>1. TypeOK /\ RecordsInv /\ PointInv /\ HeldInv /\ RequestInv /\ ResultInv
    BY DEF IInv
  <1>2. /\ current # None
        /\ op' = [op EXCEPT !.control = "cancel"]
        /\ UNCHANGED <<current, meta, preparation, result, resultTip, history,
                       tip, driving, pc, held, outcome, due, faulted, countVars>>
    BY DEF RequestAbort, MarkSealed, Mark
  <1>3. abort' \in {"none", "sealed", "marked", "done"}
    BY <1>1 DEF RequestAbort, MarkSealed, TypeOK
  <1>4. /\ op' \in OpStates
        /\ op'.at = op.at /\ op'.attempt = op.attempt
        /\ op'.request = op.request /\ op'.answers = op.answers
    BY <1>1, <1>2 DEF TypeOK, OpStates
  <1>5. /\ current' = current /\ meta' = meta /\ preparation' = preparation
        /\ result' = result /\ resultTip' = resultTip /\ history' = history
        /\ tip' = tip /\ driving' = driving /\ pc' = pc /\ held' = held
        /\ outcome' = outcome /\ due' = due /\ faulted' = faulted
        /\ issued' = issued /\ settled' = settled /\ crashes' = crashes
    BY <1>2 DEF countVars
  <1>6. TypeOK'
    BY <1>1, <1>3, <1>4, <1>5 DEF TypeOK
  <1>7. RecordsInv'
    BY <1>1, <1>2, <1>4, <1>5 DEF RecordsInv, PreparationOwned
  <1>8. PointInv' /\ HeldInv'
    BY <1>1, <1>4, <1>5 DEF PointInv, HeldInv
  <1>9. RequestInv'
    BY <1>1, <1>4, <1>5 DEF RequestInv, RequestsAccounted
  <1>10. ResultInv'
    BY <1>1, <1>5 DEF ResultInv
  <1> QED
    BY <1>6, <1>7, <1>8, <1>9, <1>10 DEF IInv

-----------------------------------------------------------------------------
(* Publications that keep the operation open                               *)

(* What they leave alone.                                                  *)
LEMMA OpenStep ==
    ASSUME IInv, current # None, op' \in OpStates, op'.at \in SummaryStates,
           op.at \in SummaryStates,
           UNCHANGED <<current, meta, preparation, result, resultTip, history,
                       tip>>
    PROVE  RecordsInv' /\ ResultInv'
  <1>1. RecordsInv'
    BY DEF IInv, RecordsInv, PreparationOwned, SummaryStates
  <1>2. ResultInv'
    BY DEF IInv, ResultInv
  <1> QED
    BY <1>1, <1>2

(* The updates of an operation's state keep its type.                      *)
LEMMA UpdateOne ==
    ASSUME NEW s \in OpStates
    PROVE  /\ \A a \in SummaryStates : [s EXCEPT !.at = a] \in OpStates
           /\ \A n \in 0..MaxAttempts : [s EXCEPT !.attempt = n] \in OpStates
           /\ \A n \in 0..2 : [s EXCEPT !.request = n] \in OpStates
           /\ \A n \in 0..2 : [s EXCEPT !.answers = n] \in OpStates
  BY DEF OpStates

LEMMA UpdateType ==
    ASSUME NEW s \in OpStates
    PROVE  /\ [s EXCEPT !.at = "ready", !.attempt = 1] \in OpStates
           /\ [s EXCEPT !.at = "effectPending", !.request = 0, !.answers = 0]
                    \in OpStates
           /\ s.attempt < MaxAttempts =>
                [s EXCEPT !.at = "retryWait", !.attempt = s.attempt + 1,
                          !.request = 0, !.answers = 0] \in OpStates
           /\ s.answers < 2 =>
                [s EXCEPT !.request = 0, !.answers = s.answers + 1] \in OpStates
  <1>1. /\ {"ready", "effectPending", "retryWait"} \subseteq SummaryStates
        /\ 0 \in 0..2 /\ 1 \in 0..MaxAttempts
        /\ s.attempt < MaxAttempts => s.attempt + 1 \in 0..MaxAttempts
        /\ s.answers < 2 => s.answers + 1 \in 0..2
    BY SummaryTaskAssumption DEF SummaryStates, OpStates
  <1>2. [s EXCEPT !.at = "ready", !.attempt = 1] \in OpStates
    <2>1. [s EXCEPT !.at = "ready"] \in OpStates
      BY <1>1, UpdateOne
    <2> QED
      BY <1>1, <2>1, UpdateOne
  <1>3. [s EXCEPT !.at = "effectPending", !.request = 0, !.answers = 0]
            \in OpStates
    <2>1. [s EXCEPT !.at = "effectPending"] \in OpStates
      BY <1>1, UpdateOne
    <2>2. [s EXCEPT !.at = "effectPending", !.request = 0] \in OpStates
      BY <1>1, <2>1, UpdateOne
    <2> QED
      BY <1>1, <2>2, UpdateOne
  <1>4. ASSUME s.attempt < MaxAttempts
        PROVE  [s EXCEPT !.at = "retryWait", !.attempt = s.attempt + 1,
                         !.request = 0, !.answers = 0] \in OpStates
    <2>1. [s EXCEPT !.at = "retryWait"] \in OpStates
      BY <1>1, UpdateOne
    <2>2. [s EXCEPT !.at = "retryWait", !.attempt = s.attempt + 1] \in OpStates
      BY <1>1, <1>4, <2>1, UpdateOne
    <2>3. [s EXCEPT !.at = "retryWait", !.attempt = s.attempt + 1,
                    !.request = 0] \in OpStates
      BY <1>1, <2>2, UpdateOne
    <2> QED
      BY <1>1, <2>3, UpdateOne
  <1>5. ASSUME s.answers < 2
        PROVE  [s EXCEPT !.request = 0, !.answers = s.answers + 1] \in OpStates
    <2>1. [s EXCEPT !.request = 0] \in OpStates
      BY <1>1, UpdateOne
    <2> QED
      BY <1>1, <1>5, <2>1, UpdateOne
  <1> QED
    BY <1>2, <1>3, <1>4, <1>5

LEMMA ReadyStep ==
    ASSUME IInv, PublishReady
    PROVE  IInv'
  <1>1. TypeOK /\ RecordsInv /\ PointInv /\ HeldInv /\ RequestInv /\ ResultInv
    BY DEF IInv
  <1>2. op.at = "deciding" /\ current = driving /\ driving # None /\ current # None
    BY <1>1 DEF PublishReady, PointInv
  <1>3. /\ op' = [op EXCEPT !.at = "ready", !.attempt = 1]
        /\ pc' = "check" /\ held' = NoState /\ outcome' = "none"
        /\ current' = current /\ meta' = meta /\ preparation' = preparation
        /\ result' = result /\ resultTip' = resultTip /\ history' = history
        /\ tip' = tip /\ driving' = driving /\ abort' = abort /\ due' = due
        /\ faulted' = faulted
        /\ issued' = issued /\ settled' = settled /\ crashes' = crashes
    BY DEF PublishReady, StepEnds, countVars
  <1>4. op' \in OpStates /\ op'.at = "ready" /\ op'.attempt = 1 /\ NoState \in OpStates
    <2>1. op \in OpStates
      BY <1>1 DEF TypeOK
    <2>2. op' \in OpStates
      BY <1>3, <2>1, UpdateType
    <2>3. NoState \in OpStates
      BY SummaryTaskAssumption DEF OpStates, NoState
    <2> QED
      BY <1>3, <2>1, <2>2, <2>3 DEF OpStates
  <1>5. TypeOK'
    BY <1>1, <1>3, <1>4 DEF TypeOK
  <1>6. RecordsInv' /\ ResultInv'
    BY <1>2, <1>3, <1>4, OpenStep DEF SummaryStates
  <1>7. PointInv' /\ HeldInv'
    BY <1>2, <1>3 DEF PointInv, HeldInv, Requesting
  <1>8. RequestInv'
    BY <1>1, <1>2, <1>3, <1>4 DEF RequestInv, RequestsAccounted, Requesting
  <1> QED
    BY <1>5, <1>6, <1>7, <1>8 DEF IInv

LEMMA EffectIntentStep ==
    ASSUME IInv, PublishEffectIntent
    PROVE  IInv'
  <1>1. TypeOK /\ RecordsInv /\ PointInv /\ HeldInv /\ RequestInv /\ ResultInv
    BY DEF IInv
  <1>2. op.at = "ready" /\ current = driving /\ driving # None /\ current # None
    BY <1>1 DEF PublishEffectIntent, PointInv
  <1>3. /\ op' = [op EXCEPT !.at = "effectPending", !.request = 0, !.answers = 0]
        /\ held' = op' /\ pc' = "request" /\ outcome' = outcome
        /\ current' = current /\ meta' = meta /\ preparation' = preparation
        /\ result' = result /\ resultTip' = resultTip /\ history' = history
        /\ tip' = tip /\ driving' = driving /\ abort' = abort /\ due' = due
        /\ faulted' = faulted
        /\ issued' = issued /\ settled' = settled /\ crashes' = crashes
    BY DEF PublishEffectIntent, countVars
  <1>4. /\ op' \in OpStates /\ op'.at = "effectPending"
        /\ op'.attempt = op.attempt /\ op'.request = 0 /\ op'.answers = 0
    <2>1. op \in OpStates
      BY <1>1 DEF TypeOK
    <2>2. op' \in OpStates
      BY <1>3, <2>1, UpdateType
    <2> QED
      BY <1>3, <2>1, <2>2 DEF OpStates
  <1>5. TypeOK'
    BY <1>1, <1>3, <1>4 DEF TypeOK
  <1>6. RecordsInv' /\ ResultInv'
    BY <1>2, <1>3, <1>4, OpenStep DEF SummaryStates
  <1>7. PointInv' /\ HeldInv'
    BY <1>2, <1>3, <1>4 DEF PointInv, HeldInv, Requesting
  <1>8. RequestInv'
    <2>1. op.attempt \in Int /\ \A i \in 1..2 : <<op.attempt, i>> \notin issued
      BY <1>1, <1>2 DEF RequestInv, TypeOK, OpStates
    <2>2. RequestsAccounted'
      <3>1. settled \subseteq issued
        BY <1>1 DEF TypeOK
      <3> QED
        BY <1>3, <1>4, <2>1, <3>1 DEF RequestsAccounted
    <2>3. meta[current].requests >= 1 /\ meta[current].requests \in Nat
      <3>1. current \in Ops
        BY <1>1, <1>2 DEF TypeOK
      <3>2. meta[current].requests \in 0..2
        BY <1>1, <3>1 DEF TypeOK
      <3> QED
        BY <1>1, <1>2, <3>2 DEF RecordsInv
    <2>4. op.attempt >= 1 /\ \A r \in issued : r[1] <= op.attempt
      BY <1>1, <1>2 DEF RequestInv
    <2> QED
      BY <1>3, <1>4, <2>2, <2>3, <2>4 DEF RequestInv, Requesting
  <1> QED
    BY <1>5, <1>6, <1>7, <1>8 DEF IInv

(* A publication that raises leaves the records alone and ends the drive.  *)
LEMMA FaultStep ==
    ASSUME IInv, Fault, abort' = abort, due' = due, crashes' = crashes,
           UNCHANGED <<current, meta, preparation, result, resultTip, history,
                       tip>>
    PROVE  IInv'
  <1>1. TypeOK /\ RecordsInv /\ PointInv /\ HeldInv /\ RequestInv /\ ResultInv
    BY DEF IInv
  <1>2. /\ op' = op /\ pc' = "idle" /\ held' = NoState /\ outcome' = "none"
        /\ current' = current /\ meta' = meta /\ preparation' = preparation
        /\ result' = result /\ resultTip' = resultTip /\ history' = history
        /\ tip' = tip /\ driving' = None /\ abort' = abort /\ due' = due
        /\ faulted' = TRUE
        /\ issued' = issued /\ settled' = settled /\ crashes' = crashes
    BY DEF Fault, StepEnds
  <1>3. NoState \in OpStates
    BY SummaryTaskAssumption DEF OpStates, NoState
  <1>4. TypeOK'
    BY <1>1, <1>2, <1>3 DEF TypeOK
  <1>5. RecordsInv' /\ ResultInv' /\ RequestsAccounted'
    BY <1>2, RecordsUntouched DEF durableVars
  <1>6. PointInv' /\ HeldInv'
    BY <1>1, <1>2 DEF PointInv, HeldInv, Requesting
  <1>7. RequestInv'
    BY <1>1, <1>2, <1>5 DEF RequestInv, Requesting
  <1> QED
    BY <1>4, <1>5, <1>6, <1>7 DEF IInv

LEMMA RequestIntentStep ==
    ASSUME IInv, PublishRequestIntent
    PROVE  IInv'
  <1>1. TypeOK /\ RecordsInv /\ PointInv /\ HeldInv /\ RequestInv /\ ResultInv
    BY DEF IInv
  <1>2. /\ op.at = "effectPending" /\ current = driving /\ driving # None
        /\ current # None /\ op.request = 0 /\ pc = "intent"
        /\ op.answers < meta[current].requests
    BY <1>1 DEF PublishRequestIntent, PointInv, RequestInv, Requesting
  <1>3. /\ op \in OpStates /\ op.answers \in 0..2 /\ op.attempt \in 1..MaxAttempts
        /\ meta[current].requests \in 0..2
        /\ issued \subseteq (1..MaxAttempts) \X (1..2) /\ settled \subseteq issued
    <2>1. current \in Ops /\ op \in OpStates
      BY <1>1, <1>2 DEF TypeOK
    <2>2. meta[current].requests \in 0..2
      BY <1>1, <2>1 DEF TypeOK
    <2>3. op.attempt >= 1
      BY <1>1, <1>2 DEF RequestInv
    <2> QED
      BY <1>1, <2>1, <2>2, <2>3, SummaryTaskAssumption DEF TypeOK, OpStates
  <1>4. CASE ~Owned(held)
    BY <1>4, FaultStep DEF PublishRequestIntent
  <1>5. CASE Owned(held)
    <2>1. /\ op' = [op EXCEPT !.request = op.answers + 1]
          /\ held' = op' /\ pc' = "admit" /\ outcome' = outcome
          /\ current' = current /\ meta' = meta /\ preparation' = preparation
          /\ result' = result /\ resultTip' = resultTip /\ history' = history
          /\ tip' = tip /\ driving' = driving /\ abort' = abort /\ due' = due
          /\ faulted' = faulted /\ settled' = settled /\ crashes' = crashes
          /\ issued' = issued \union {<<op.attempt, op.answers + 1>>}
      BY <1>5 DEF PublishRequestIntent
    <2>2. /\ op' \in OpStates /\ op'.at = "effectPending"
          /\ op'.attempt = op.attempt /\ op'.answers = op.answers
          /\ op'.request = op.answers + 1
      BY <1>2, <1>3, <2>1 DEF OpStates
    <2>3. issued' \subseteq (1..MaxAttempts) \X (1..2) /\ settled' \subseteq issued'
      BY <1>2, <1>3, <2>1
    <2>4. TypeOK'
      BY <1>1, <2>1, <2>2, <2>3 DEF TypeOK
    <2>5. RecordsInv' /\ ResultInv'
      BY <1>2, <2>1, <2>2, OpenStep DEF SummaryStates
    <2>6. PointInv' /\ HeldInv'
      BY <1>2, <2>1, <2>2 DEF PointInv, HeldInv, Requesting
    <2>7. RequestsAccounted'
      BY <1>1, <1>2, <1>3, <2>1, <2>2 DEF RequestInv, RequestsAccounted
    <2>8. op'.attempt >= 1 /\ \A r \in issued' : r[1] <= op'.attempt
      BY <1>1, <1>2, <1>3, <2>1, <2>2 DEF RequestInv
    <2> QED
      <3>1. RequestInv'
        BY <1>2, <1>3, <2>1, <2>2, <2>7, <2>8 DEF RequestInv, Requesting
      <3> QED
        BY <2>4, <2>5, <2>6, <3>1 DEF IInv
  <1> QED
    BY <1>4, <1>5

LEMMA RequestOutcomeStep ==
    ASSUME IInv, PublishRequestOutcome
    PROVE  IInv'
  <1>1. TypeOK /\ RecordsInv /\ PointInv /\ HeldInv /\ RequestInv /\ ResultInv
    BY DEF IInv
  <1>2. /\ op.at = "effectPending" /\ current = driving /\ driving # None
        /\ current # None /\ op.request = op.answers + 1 /\ pc = "answered"
        /\ op.answers < meta[current].requests
        /\ outcome \in {"summary", "retry", "failed"}
    BY <1>1 DEF PublishRequestOutcome, PointInv, RequestInv, Requesting
  <1>3. /\ op \in OpStates /\ op.answers \in 0..1 /\ op.attempt \in 1..MaxAttempts
        /\ meta[current].requests \in 0..2 /\ MaxAttempts \in Nat
        /\ issued \subseteq (1..MaxAttempts) \X (1..2) /\ settled \subseteq issued
    <2>1. current \in Ops /\ op \in OpStates
      BY <1>1, <1>2 DEF TypeOK
    <2>2. meta[current].requests \in 0..2
      BY <1>1, <2>1 DEF TypeOK
    <2>3. op.attempt >= 1
      BY <1>1, <1>2 DEF RequestInv
    <2> QED
      BY <1>1, <1>2, <2>1, <2>2, <2>3, SummaryTaskAssumption DEF TypeOK, OpStates
  <1>4. CASE ~Owned(held)
    BY <1>4, FaultStep DEF PublishRequestOutcome
  <1>5. CASE Owned(held)
    <2>1. /\ op' = [op EXCEPT !.request = 0, !.answers = op.answers + 1]
          /\ held' = op'
          /\ current' = current /\ meta' = meta /\ preparation' = preparation
          /\ result' = result /\ resultTip' = resultTip /\ history' = history
          /\ tip' = tip /\ driving' = driving /\ abort' = abort /\ due' = due
          /\ faulted' = faulted /\ issued' = issued /\ crashes' = crashes
          /\ settled' = settled \union {<<op.attempt, op.request>>}
      BY <1>5 DEF PublishRequestOutcome, RequestSettled
    <2>2. /\ outcome' = IF outcome = "retry" /\ op.attempt >= MaxAttempts
                       THEN "failed" ELSE outcome
          /\ \/ /\ pc' = "request"
                /\ op.answers + 1 < meta[current].requests
             \/ /\ pc' = "publish"
                /\ outcome = "summary" =>
                        ~(op.answers + 1 < meta[current].requests)
      BY <1>5 DEF PublishRequestOutcome
    <2>3. /\ op' \in OpStates /\ op'.at = "effectPending"
          /\ op'.attempt = op.attempt /\ op'.request = 0
          /\ op'.answers = op.answers + 1
      <3>1. op \in OpStates /\ op.answers < 2
        BY <1>3
      <3>2. [op EXCEPT !.request = 0, !.answers = op.answers + 1] \in OpStates
        BY <3>1, UpdateType
      <3>3. op' \in OpStates
        BY <2>1, <3>2
      <3> QED
        BY <1>2, <1>3, <2>1, <3>3 DEF OpStates
    <2>4. <<op.attempt, op.request>> \in issued
      BY <1>1, <1>2, <1>3 DEF RequestInv, RequestsAccounted
    <2>5. settled' \subseteq issued'
      BY <1>3, <2>1, <2>4
    <2>6. TypeOK'
      <3>1. outcome' \in {"summary", "retry", "failed"}
        BY <1>2, <2>2
      <3>2. pc' \in {"request", "publish"}
        BY <2>2
      <3> QED
        BY <1>1, <2>1, <2>3, <2>5, <3>1, <3>2 DEF TypeOK
    <2>7. RecordsInv' /\ ResultInv'
      BY <1>2, <2>1, <2>3, OpenStep DEF SummaryStates
    <2>8. PointInv' /\ HeldInv'
      BY <1>2, <2>1, <2>2, <2>3 DEF PointInv, HeldInv, Requesting, SummaryStates
    <2>9. RequestsAccounted'
      BY <1>1, <1>2, <1>3, <2>1, <2>3 DEF RequestInv, RequestsAccounted
    <2>10. op'.attempt >= 1 /\ \A r \in issued' : r[1] <= op'.attempt
      BY <1>1, <1>2, <1>3, <2>1, <2>3 DEF RequestInv
    <2> QED
      <3>1. /\ pc' = "request" => op'.answers < meta[current].requests
            /\ op'.answers <= meta[current].requests
        <4>1. op.answers \in Int /\ meta[current].requests \in Int
          BY <1>3
        <4> QED
          BY <1>2, <2>2, <2>3, <4>1
      <3>2. pc' = "publish" =>
                /\ outcome' = "summary" => op'.answers = meta[current].requests
                /\ outcome' = "retry" => op'.attempt < MaxAttempts
        BY <1>2, <1>3, <2>2, <2>3
      <3>3. pc' \in {"request", "publish"}
        BY <2>2
      <3>4. RequestInv'
        BY <2>1, <2>3, <2>9, <2>10, <3>1, <3>2, <3>3 DEF RequestInv, Requesting
      <3> QED
        BY <2>6, <2>7, <2>8, <3>4 DEF IInv
  <1> QED
    BY <1>4, <1>5

LEMMA RetryAgainStep ==
    ASSUME IInv, RetryAgain
    PROVE  IInv'
  <1>1. TypeOK /\ RecordsInv /\ PointInv /\ HeldInv /\ RequestInv /\ ResultInv
    BY DEF IInv
  <1>2. /\ op.at = "retryWait" /\ current = driving /\ driving # None
        /\ current # None /\ op \in OpStates
    BY <1>1 DEF RetryAgain, PointInv, TypeOK
  <1>3. /\ pc' = "check" /\ held' = NoState /\ outcome' = "none"
        /\ current' = current /\ meta' = meta /\ preparation' = preparation
        /\ result' = result /\ resultTip' = resultTip /\ history' = history
        /\ tip' = tip /\ driving' = driving /\ abort' = abort
        /\ faulted' = faulted
        /\ issued' = issued /\ settled' = settled /\ crashes' = crashes
        /\ due' = due \/ due' = FALSE
        /\ op' = op \/ op' = [op EXCEPT !.at = "ready"]
    BY DEF RetryAgain, StepEnds, countVars
  <1>4. /\ op' \in OpStates /\ op'.at \in {"ready", "retryWait"}
        /\ op'.attempt = op.attempt /\ NoState \in OpStates
    BY <1>2, <1>3, SummaryTaskAssumption DEF OpStates, NoState, SummaryStates
  <1>5. due' \in BOOLEAN
    BY <1>1, <1>3, Zenon DEF TypeOK
  <1>6. TypeOK'
    BY <1>1, <1>3, <1>4, <1>5 DEF TypeOK
  <1>7. RecordsInv' /\ ResultInv'
    BY <1>2, <1>3, <1>4, OpenStep DEF SummaryStates
  <1>8. PointInv' /\ HeldInv'
    BY <1>2, <1>3 DEF PointInv, HeldInv, Requesting
  <1>9. RequestInv'
    BY <1>1, <1>2, <1>3, <1>4 DEF RequestInv, RequestsAccounted, Requesting
  <1> QED
    BY <1>6, <1>7, <1>8, <1>9 DEF IInv

-----------------------------------------------------------------------------
(* Steps that end the operation                                            *)

(* A terminal transaction with a tip in the history it leaves.             *)
LEMMA EndStep ==
    ASSUME IInv, NEW status \in Statuses, NEW newTip, current \in Ops,
           Terminal(status, newTip), preparation' = FALSE,
           newTip \in 0..Len(history'), tip' \in 0..Len(history'),
           Len(history') >= Len(history),
           history' \in Seq([parent : 0..Len(history'), fromHook : BOOLEAN,
                            type : {"message", "compaction", "branchSummary"},
                            usages : 0..2]),
           \A e \in DOMAIN history' : history'[e].parent < e,
           \A e \in DOMAIN history : history'[e] = history[e],
           status # "completed" => newTip = meta[current].source,
           status = "completed" =>
              \/ meta[current].kind = "navigation" /\ newTip = meta[current].target
              \/ /\ newTip \in DOMAIN history'
                 /\ history'[newTip].type # "message"
                 /\ history'[newTip].parent =
                      IF meta[current].kind = "navigation"
                      THEN meta[current].target ELSE meta[current].source
                 /\ history'[newTip].fromHook
                      \/ history'[newTip].usages = meta[current].requests,
           \/ pc' = "check" /\ driving' = driving /\ pc # "idle"
           \/ pc' = "idle" /\ driving' = None,
           held' \in OpStates,
           outcome' \in {"none", "summary", "hookSummary", "declined", "retry",
                        "failed"},
           UNCHANGED <<meta, due, faulted, countVars>>
    PROVE  IInv'
  <1>1. TypeOK /\ RecordsInv /\ PointInv /\ ResultInv
    BY DEF IInv
  <1>2. /\ result' = [result EXCEPT ![current] = status]
        /\ resultTip' = [resultTip EXCEPT ![current] = newTip]
        /\ op' = NoState /\ current' = None /\ abort' = "none"
        /\ meta' = meta /\ due' = due /\ faulted' = faulted
        /\ issued' = issued /\ settled' = settled /\ crashes' = crashes
    BY DEF Terminal, countVars
  <1>3. /\ NoState \in OpStates /\ NoState.at = "none"
        /\ NoState.control = "running"
    BY SummaryTaskAssumption DEF OpStates, NoState
  <1>4. Len(history) \in Nat /\ Len(history') \in Nat
    BY <1>1 DEF TypeOK
  <1>5. /\ meta' \in [Ops -> [kind : {"none", "compaction", "navigation"},
                             source : 0..Len(history'),
                             target : 0..Len(history'), requests : 0..2]]
        /\ resultTip' \in [Ops -> 0..Len(history')]
    <2>1. 0..Len(history) \subseteq 0..Len(history')
      BY <1>4
    <2>2. \A o \in Ops : meta[o] \in [kind : {"none", "compaction", "navigation"},
                                    source : 0..Len(history),
                                    target : 0..Len(history), requests : 0..2]
      BY <1>1 DEF TypeOK
    <2>3. \A o \in Ops : meta[o] \in [kind : {"none", "compaction", "navigation"},
                                    source : 0..Len(history'),
                                    target : 0..Len(history'), requests : 0..2]
      BY <2>1, <2>2
    <2>4. meta' = [o \in Ops |-> meta[o]]
      BY <1>1, <1>2 DEF TypeOK
    <2>5. resultTip' \in [Ops -> 0..Len(history')]
      BY <1>1, <1>2, <2>1 DEF TypeOK
    <2> QED
      BY <2>3, <2>4, <2>5
  <1>6. result' \in [Ops -> Statuses \union {"none"}]
    BY <1>1, <1>2 DEF TypeOK
  <1>7. /\ pc' = "check" \/ pc' = "idle"
        /\ driving' \in Ops \union {None}
        /\ pc' = "idle" <=> driving' = None
    BY <1>1 DEF TypeOK, PointInv
  <1>8. TypeOK'
    BY <1>1, <1>2, <1>3, <1>5, <1>6, <1>7 DEF TypeOK
  <1>9. RecordsInv'
    BY <1>2, <1>3 DEF RecordsInv, PreparationOwned, SummaryStates
  <1>10. PointInv' /\ HeldInv'
    BY <1>7 DEF PointInv, HeldInv, Requesting
  <1>11. RequestInv'
    BY <1>2, <1>3, <1>7 DEF RequestInv, RequestsAccounted, Requesting
  <1>12. ResultInv'
    <2>1. ASSUME NEW o \in Ops, o = current
          PROVE  /\ result'[o] \in Statuses \ {"completed"} =>
                        resultTip'[o] = meta'[o].source
                 /\ result'[o] = "completed" =>
                    \/ meta'[o].kind = "navigation"
                            /\ resultTip'[o] = meta'[o].target
                    \/ /\ resultTip'[o] \in DOMAIN history'
                       /\ history'[resultTip'[o]].type # "message"
                       /\ history'[resultTip'[o]].parent =
                            IF meta'[o].kind = "navigation"
                            THEN meta'[o].target ELSE meta'[o].source
                       /\ history'[resultTip'[o]].fromHook
                            \/ history'[resultTip'[o]].usages = meta'[o].requests
      BY <1>1, <1>2, <2>1 DEF TypeOK
    <2>2. ASSUME NEW o \in Ops, o # current
          PROVE  result'[o] = result[o] /\ resultTip'[o] = resultTip[o]
      BY <1>1, <1>2, <2>2 DEF TypeOK
    <2>3. \A e \in DOMAIN history : e \in DOMAIN history'
      BY <1>1, <1>4 DEF TypeOK
    <2>4. ASSUME NEW o \in Ops, o # current
          PROVE  /\ result'[o] \in Statuses \ {"completed"} =>
                        resultTip'[o] = meta'[o].source
                 /\ result'[o] = "completed" =>
                    \/ meta'[o].kind = "navigation"
                            /\ resultTip'[o] = meta'[o].target
                    \/ /\ resultTip'[o] \in DOMAIN history'
                       /\ history'[resultTip'[o]].type # "message"
                       /\ history'[resultTip'[o]].parent =
                            IF meta'[o].kind = "navigation"
                            THEN meta'[o].target ELSE meta'[o].source
                       /\ history'[resultTip'[o]].fromHook
                            \/ history'[resultTip'[o]].usages = meta'[o].requests
      BY <1>1, <1>2, <2>2, <2>3, <2>4 DEF ResultInv
    <2> QED
      BY <2>1, <2>4 DEF ResultInv
  <1> QED
    BY <1>8, <1>9, <1>10, <1>11, <1>12 DEF IInv

LEMMA SeqMonotone ==
    ASSUME NEW S, NEW T, S \subseteq T, NEW s \in Seq(S)
    PROVE  s \in Seq(T)
  OBVIOUS

LEMMA PublishStep ==
    ASSUME IInv, Publish
    PROVE  IInv'
  <1>1. TypeOK /\ RecordsInv /\ PointInv /\ HeldInv /\ RequestInv /\ ResultInv
    BY DEF IInv
  <1>2. /\ pc = "publish" /\ op.at \in SummaryStates /\ current = driving
        /\ driving # None /\ current # None /\ current \in Ops /\ op \in OpStates
        /\ meta[current].source = tip
    BY <1>1 DEF Publish, PointInv, RecordsInv, TypeOK
  <1>3. /\ pc' = "check" /\ held' = NoState /\ outcome' = "none"
        /\ UNCHANGED <<meta, driving, faulted, countVars>>
    BY DEF Publish, StepEnds
  <1>n. NoState \in OpStates
    BY SummaryTaskAssumption DEF OpStates, NoState
  <1>l. /\ Len(history) \in Nat /\ tip \in 0..Len(history)
        /\ history \in Seq([parent : 0..Len(history), fromHook : BOOLEAN,
                            type : {"message", "compaction", "branchSummary"},
                            usages : 0..2])
        /\ \A e \in DOMAIN history : history[e].parent < e
    BY <1>1 DEF TypeOK
  <1>4. ASSUME ~Owned(held)
        PROVE  IInv'
    <2>1. /\ op' = op /\ due' = due /\ abort' = abort
          /\ current' = current /\ meta' = meta /\ preparation' = preparation
          /\ result' = result /\ resultTip' = resultTip /\ history' = history
          /\ tip' = tip /\ driving' = driving /\ faulted' = faulted
          /\ issued' = issued /\ settled' = settled /\ crashes' = crashes
      BY <1>3, <1>4 DEF Publish, countVars
    <2>2. TypeOK'
      BY <1>1, <1>3, <1>n, <2>1 DEF TypeOK
    <2>3. RecordsInv' /\ ResultInv'
      BY <1>2, <2>1, OpenStep
    <2>4. PointInv' /\ HeldInv'
      BY <1>2, <1>3, <2>1 DEF PointInv, HeldInv, Requesting
    <2>5. RequestInv'
      BY <1>1, <1>3, <2>1 DEF RequestInv, RequestsAccounted, Requesting
    <2> QED
      BY <2>2, <2>3, <2>4, <2>5 DEF IInv
  <1>5. ASSUME NEW fromHook \in BOOLEAN, PublishSummary(fromHook),
               fromHook \/ op.answers = meta[current].requests
        PROVE  IInv'
    <2> DEFINE entry ==
            [parent |-> Parent, fromHook |-> fromHook, usages |-> op.answers,
             type |-> IF meta[current].kind = "navigation"
                      THEN "branchSummary" ELSE "compaction"]
    <2>1. /\ history' = Append(history, entry) /\ tip' = Len(history) + 1
          /\ preparation' = FALSE /\ due' = due
          /\ Terminal("completed", Len(history) + 1)
      BY <1>5 DEF PublishSummary
    <2>2. /\ meta[current].target \in 0..Len(history)
      BY <1>1, <1>2 DEF TypeOK
    <2>3. /\ entry.parent \in 0..Len(history)
          /\ entry.parent = IF meta[current].kind = "navigation"
                            THEN meta[current].target ELSE meta[current].source
          /\ entry.type \in {"compaction", "branchSummary"}
          /\ entry.fromHook = fromHook
          /\ entry.usages = op.answers /\ op.answers \in 0..2
          /\ entry \in [parent : 0..Len(history), fromHook : BOOLEAN,
                        type : {"message", "compaction", "branchSummary"},
                        usages : 0..2]
      BY <1>2, <1>l, <2>2 DEF Parent, OpStates
    <2> HIDE DEF entry
    <2>4. /\ Len(history') = Len(history) + 1
          /\ history'[Len(history) + 1] = entry
          /\ \A e \in DOMAIN history : history'[e] = history[e]
          /\ DOMAIN history' = 1..(Len(history) + 1)
          /\ DOMAIN history = 1..Len(history)
      BY <1>l, <2>1
    <2>5. \A e \in DOMAIN history' : history'[e].parent < e
      BY <1>l, <2>3, <2>4
    <2>6. history' \in Seq([parent : 0..Len(history'), fromHook : BOOLEAN,
                           type : {"message", "compaction", "branchSummary"},
                           usages : 0..2])
      <3>1. 0..Len(history) \subseteq 0..(Len(history) + 1)
        BY <1>l
      <3>2. ASSUME NEW r \in [parent : 0..Len(history), fromHook : BOOLEAN,
                             type : {"message", "compaction", "branchSummary"},
                             usages : 0..2]
            PROVE  r \in [parent : 0..Len(history'), fromHook : BOOLEAN,
                         type : {"message", "compaction", "branchSummary"},
                         usages : 0..2]
        BY <2>4, <3>1, <3>2
      <3>3. history \in Seq([parent : 0..Len(history'), fromHook : BOOLEAN,
                            type : {"message", "compaction", "branchSummary"},
                            usages : 0..2])
        <4> DEFINE S == [parent : 0..Len(history), fromHook : BOOLEAN,
                         type : {"message", "compaction", "branchSummary"},
                         usages : 0..2]
                   T == [parent : 0..Len(history'), fromHook : BOOLEAN,
                         type : {"message", "compaction", "branchSummary"},
                         usages : 0..2]
        <4>1. S \subseteq T
          BY <3>2
        <4>2. history \in Seq(S)
          BY <1>l
        <4> HIDE DEF S, T
        <4>3. history \in Seq(T)
          BY <4>1, <4>2, SeqMonotone
        <4> QED
          BY <4>3 DEF T
      <3> QED
        BY <2>1, <2>3, <3>2, <3>3
    <2>7. /\ Len(history) + 1 \in DOMAIN history'
          /\ history'[Len(history) + 1].type # "message"
          /\ history'[Len(history) + 1].parent =
                IF meta[current].kind = "navigation" THEN meta[current].target
                ELSE meta[current].source
          /\ history'[Len(history) + 1].fromHook
                \/ history'[Len(history) + 1].usages = meta[current].requests
      BY <1>l, <1>5, <2>3, <2>4
    <2>8. /\ Len(history) + 1 \in 0..Len(history') /\ Len(history') >= Len(history)
          /\ tip' \in 0..Len(history')
      BY <1>l, <2>1, <2>4
    <2> QED
      BY <1>2, <1>3, <1>n, <2>1, <2>4, <2>5, <2>6, <2>7, <2>8, EndStep DEF Statuses
  <1>6. ASSUME NEW status \in {"declined", "failed"}, PublishEnd(status)
        PROVE  IInv'
    <2>1. /\ history' = history /\ tip' = tip /\ due' = due
          /\ preparation' = FALSE /\ Terminal(status, tip)
      BY <1>6 DEF PublishEnd
    <2>2. status \in Statuses /\ status # "completed"
      BY DEF Statuses
    <2>3. /\ Len(history') >= Len(history) /\ tip \in 0..Len(history')
          /\ tip' \in 0..Len(history')
          /\ history' \in Seq([parent : 0..Len(history'), fromHook : BOOLEAN,
                               type : {"message", "compaction", "branchSummary"},
                               usages : 0..2])
          /\ \A e \in DOMAIN history' : history'[e].parent < e
          /\ \A e \in DOMAIN history : history'[e] = history[e]
      BY <1>l, <2>1
    <2> QED
      BY <1>2, <1>3, <1>n, <2>1, <2>2, <2>3, EndStep
  <1>7. ASSUME ScheduleRetry, Owned(held), outcome = "retry"
        PROVE  IInv'
    <2>1. /\ op.at = "effectPending" /\ op.attempt < MaxAttempts
          /\ op.attempt >= 1 /\ op.attempt \in Int
      BY <1>1, <1>2, <1>7 DEF RequestInv, OpStates
    <2>2. /\ op' = [op EXCEPT !.at = "retryWait", !.attempt = op.attempt + 1,
                             !.request = 0, !.answers = 0]
          /\ due' = FALSE /\ abort' = abort
          /\ current' = current /\ meta' = meta /\ preparation' = preparation
          /\ result' = result /\ resultTip' = resultTip /\ history' = history
          /\ tip' = tip /\ driving' = driving /\ faulted' = faulted
          /\ issued' = issued /\ settled' = settled /\ crashes' = crashes
      BY <1>3, <1>7 DEF ScheduleRetry, countVars
    <2>3. /\ op' \in OpStates /\ op'.at = "retryWait"
          /\ op'.attempt = op.attempt + 1
      <3>1. op \in OpStates /\ op.attempt < MaxAttempts
        BY <1>2, <2>1
      <3>2. [op EXCEPT !.at = "retryWait", !.attempt = op.attempt + 1,
                       !.request = 0, !.answers = 0] \in OpStates
        BY <3>1, UpdateType
      <3>3. op' \in OpStates
        BY <2>2, <3>2
      <3> QED
        BY <1>2, <2>2, <3>3 DEF OpStates
    <2>4. TypeOK'
      BY <1>1, <1>3, <1>n, <2>2, <2>3 DEF TypeOK
    <2>5. RecordsInv' /\ ResultInv'
      BY <1>2, <2>2, <2>3, OpenStep DEF SummaryStates
    <2>6. PointInv' /\ HeldInv'
      BY <1>2, <1>3, <2>2 DEF PointInv, HeldInv, Requesting
    <2>7. \A r \in issued : r[1] < op'.attempt
      <3>1. \A r \in issued : r[1] <= op.attempt /\ r[1] \in Int
        BY <1>1, <2>1, SummaryTaskAssumption DEF RequestInv, TypeOK
      <3> QED
        BY <2>1, <2>3, <3>1
    <2>8. \A r \in issued : r[1] <= op'.attempt
      <3>1. \A r \in issued : r[1] <= op.attempt /\ r[1] \in Int
        BY <1>1, <2>1, SummaryTaskAssumption DEF RequestInv, TypeOK
      <3> QED
        BY <2>1, <2>3, <3>1
    <2>9. RequestInv'
      BY <1>3, <2>1, <2>2, <2>3, <2>7, <2>8 DEF RequestInv, RequestsAccounted,
         Requesting
    <2> QED
      BY <2>4, <2>5, <2>6, <2>9 DEF IInv
  <1>8. ASSUME Owned(held)
        PROVE  \/ outcome = "summary" /\ PublishSummary(FALSE)
               \/ outcome = "hookSummary" /\ PublishSummary(TRUE)
               \/ outcome \in {"declined", "failed"} /\ PublishEnd(outcome)
               \/ outcome = "retry" /\ ScheduleRetry
    BY <1>8 DEF Publish
  <1>9. outcome = "summary" => op.answers = meta[current].requests
    BY <1>1, <1>2 DEF RequestInv
  <1> QED
    BY <1>4, <1>5, <1>6, <1>7, <1>8, <1>9

LEMMA NavigationStep ==
    ASSUME IInv, CommitNavigation
    PROVE  IInv'
  <1>1. TypeOK /\ RecordsInv /\ PointInv /\ HeldInv /\ RequestInv /\ ResultInv
    BY DEF IInv
  <1>2. /\ pc = "navigate" /\ op.at = "navigate" /\ current = driving
        /\ driving # None /\ current # None /\ current \in Ops
        /\ meta[current].kind = "navigation"
    BY <1>1 DEF CommitNavigation, PointInv, RecordsInv, TypeOK
  <1>3. /\ pc' = "check" /\ held' = NoState /\ outcome' = "none"
        /\ meta' = meta /\ preparation' = preparation /\ history' = history
        /\ driving' = driving /\ due' = due /\ faulted' = faulted
        /\ issued' = issued /\ settled' = settled /\ crashes' = crashes
        /\ UNCHANGED countVars
    BY DEF CommitNavigation, StepEnds, countVars
  <1>4. NoState \in OpStates
    BY SummaryTaskAssumption DEF OpStates, NoState
  <1>5. CASE ~Owned(held)
    <2>1. /\ current' = current /\ op' = op /\ result' = result
          /\ resultTip' = resultTip /\ tip' = tip /\ abort' = abort
      BY <1>5 DEF CommitNavigation
    <2>2. TypeOK'
      BY <1>1, <1>3, <1>4, <2>1 DEF TypeOK
    <2>3. RecordsInv' /\ ResultInv' /\ RequestsAccounted'
      BY <1>3, <2>1, RecordsUntouched DEF durableVars
    <2>4. PointInv' /\ HeldInv'
      BY <1>2, <1>3, <2>1 DEF PointInv, HeldInv, Requesting
    <2>5. RequestInv'
      BY <1>1, <1>3, <2>1, <2>3 DEF RequestInv, Requesting
    <2> QED
      BY <2>2, <2>3, <2>4, <2>5 DEF IInv
  <1>6. CASE Owned(held)
    <2>1. /\ tip' = meta[current].target
          /\ Terminal("completed", meta[current].target)
      BY <1>6 DEF CommitNavigation
    <2>2. /\ meta[current].target \in 0..Len(history) /\ Len(history) \in Nat
          /\ history \in Seq([parent : 0..Len(history), fromHook : BOOLEAN,
                              type : {"message", "compaction", "branchSummary"},
                              usages : 0..2])
          /\ \A e \in DOMAIN history : history[e].parent < e
      BY <1>1, <1>2 DEF TypeOK
    <2>3. preparation' = FALSE
      BY <1>1, <1>2, <1>3, Zenon DEF RecordsInv, PreparationOwned, SummaryStates,
         TypeOK
    <2>4. "completed" \in Statuses
      BY DEF Statuses
    <2>5. /\ Len(history') >= Len(history)
          /\ meta[current].target \in 0..Len(history')
          /\ tip' \in 0..Len(history')
          /\ history' \in Seq([parent : 0..Len(history'), fromHook : BOOLEAN,
                               type : {"message", "compaction", "branchSummary"},
                               usages : 0..2])
          /\ \A e \in DOMAIN history' : history'[e].parent < e
          /\ \A e \in DOMAIN history : history'[e] = history[e]
      BY <1>3, <2>1, <2>2
    <2> QED
      BY <1>2, <1>3, <1>4, <2>1, <2>3, <2>4, <2>5, EndStep
  <1> QED
    BY <1>5, <1>6

LEMMA ReconcileStep ==
    ASSUME IInv, ReconcileAbort
    PROVE  IInv'
  <1>1. TypeOK /\ RecordsInv /\ PointInv
    BY DEF IInv
  <1>2. current # None /\ current \in Ops /\ meta[current].source = tip
    BY <1>1 DEF ReconcileAbort, PointInv, RecordsInv, TypeOK
  <1>3. /\ Terminal("aborted", tip)
        /\ pc' = "idle" /\ driving' = None
        /\ meta' = meta /\ history' = history /\ tip' = tip /\ held' = held
        /\ outcome' = outcome /\ due' = due /\ faulted' = faulted
        /\ UNCHANGED countVars
    BY DEF ReconcileAbort
  <1>4. preparation' = FALSE
    BY <1>1, Zenon DEF ReconcileAbort, Removes, RecordsInv, PreparationOwned,
       TypeOK
  <1>5. /\ Len(history') >= Len(history) /\ tip \in 0..Len(history')
        /\ tip' \in 0..Len(history')
        /\ history' \in Seq([parent : 0..Len(history'), fromHook : BOOLEAN,
                             type : {"message", "compaction", "branchSummary"},
                             usages : 0..2])
        /\ \A e \in DOMAIN history' : history'[e].parent < e
        /\ \A e \in DOMAIN history : history'[e] = history[e]
    BY <1>1, <1>3 DEF TypeOK
  <1>6. held' \in OpStates /\ outcome' \in {"none", "summary", "hookSummary",
                                         "declined", "retry", "failed"}
    BY <1>1, <1>3 DEF TypeOK
  <1>7. "aborted" \in Statuses
    BY DEF Statuses
  <1> QED
    BY <1>2, <1>3, <1>4, <1>5, <1>6, <1>7, EndStep

-----------------------------------------------------------------------------
(* The theorems                                                            *)

LEMMA InvStep == IInv /\ [Next]_vars => IInv'
  <1> SUFFICES ASSUME IInv, [Next]_vars PROVE IInv'
    OBVIOUS
  <1>1. ASSUME NEW o \in Ops,
               \/ \E requests \in 1..2 : AcceptCompaction(o, requests)
               \/ \E target \in 0..Len(history), summarize \in BOOLEAN :
                        AcceptNavigation(o, target, summarize)
        PROVE  IInv'
    BY <1>1, AcceptStep
  <1>2. CASE RequestAbort \/ MarkSealed
    BY <1>2, MarkStep
  <1>3. CASE \/ SealDrive \/ SignalDrive \/ Drive \/ CheckAbort \/ ReturnResult
             \/ Read \/ Interrupted \/ ModelUnavailable \/ AdmitRequest
             \/ RequestHookReturns \/ RecoverGeneration \/ TimePasses
             \/ AwaitRetry \/ AbortSettles \/ Crash
             \/ \E decision \in {"none", "declined", "hookSummary"} :
                    HookDecides(decision)
             \/ \E response \in {"summary", "retry", "failed"} : Answer(response)
    BY <1>3, MoveStep
  <1>4. CASE Publish
    BY <1>4, PublishStep
  <1>5. CASE PublishReady
    BY <1>5, ReadyStep
  <1>6. CASE PublishEffectIntent
    BY <1>6, EffectIntentStep
  <1>7. CASE PublishRequestIntent
    BY <1>7, RequestIntentStep
  <1>8. CASE PublishRequestOutcome
    BY <1>8, RequestOutcomeStep
  <1>9. CASE RetryAgain
    BY <1>9, RetryAgainStep
  <1>10. CASE CommitNavigation
    BY <1>10, NavigationStep
  <1>11. CASE ReconcileAbort
    BY <1>11, ReconcileStep
  <1>12. CASE UNCHANGED vars
    BY <1>12 DEF IInv, TypeOK, RecordsInv, PointInv, HeldInv, RequestInv,
       ResultInv, PreparationOwned, RequestsAccounted, vars, durableVars,
       countVars
  <1> QED
    BY <1>1, <1>2, <1>3, <1>4, <1>5, <1>6, <1>7, <1>8, <1>9, <1>10, <1>11,
       <1>12 DEF Next, DriveStep

LEMMA InvAlways == Spec => []IInv
  BY InitInv, InvStep, PTL DEF Spec

(* Every reachable state is well typed, whatever the number of attempts:   *)
(* no attempt and no request counts beyond its bound.                      *)
THEOREM SummaryTypeCorrect == Spec => []TypeOK
  <1>1. IInv => TypeOK
    BY DEF IInv
  <1> QED
    BY <1>1, InvAlways, PTL

(* A preparation is stored exactly while its summary is under way.         *)
THEOREM PreparationKept == Spec => []PreparationOwned
  <1>1. IInv => PreparationOwned
    BY DEF IInv, RecordsInv
  <1> QED
    BY <1>1, InvAlways, PTL

(* Each request of an attempt is settled once or is the pending one.       *)
THEOREM RequestsCounted == Spec => []RequestsAccounted
  <1>1. IInv => RequestsAccounted
    BY DEF IInv, RequestInv
  <1> QED
    BY <1>1, InvAlways, PTL

(* A result names the entry its operation promised: the source tip unless  *)
(* it completed, else the target or the summary below the right parent     *)
(* with all its usages.                                                    *)
THEOREM ResultAgrees == Spec => []ResultMatchesHistory
  <1>1. IInv => ResultMatchesHistory
    BY DEF IInv, ResultInv, ResultMatchesHistory
  <1> QED
    BY <1>1, InvAlways, PTL

(* What may end or replace the lane's operation.                           *)
LEMMA LaneSteps ==
    ASSUME IInv, [Next]_vars, current' # current
    PROVE  \/ \E o \in Ops : Accepts(o)
           \/ Publish /\ Owned(held)
           \/ CommitNavigation /\ Owned(held)
           \/ ReconcileAbort
  <1>1. CASE \/ RequestAbort \/ MarkSealed \/ SealDrive \/ SignalDrive \/ Drive
             \/ CheckAbort \/ ReturnResult \/ Read \/ Interrupted
             \/ ModelUnavailable \/ AdmitRequest \/ RequestHookReturns
             \/ RecoverGeneration \/ TimePasses \/ AwaitRetry \/ AbortSettles
             \/ Crash \/ PublishReady \/ PublishEffectIntent
             \/ PublishRequestIntent \/ PublishRequestOutcome \/ RetryAgain
             \/ \E decision \in {"none", "declined", "hookSummary"} :
                    HookDecides(decision)
             \/ \E response \in {"summary", "retry", "failed"} : Answer(response)
             \/ UNCHANGED vars
    BY <1>1 DEF RequestAbort, MarkSealed, Mark, SealDrive, SignalDrive, Drive,
       CheckAbort, ReturnResult, Read, Interrupted, ModelUnavailable,
       AdmitRequest, RequestHookReturns, RecoverGeneration, TimePasses,
       AwaitRetry, AbortSettles, Crash, PublishReady, PublishEffectIntent,
       PublishRequestIntent, PublishRequestOutcome, RetryAgain, HookDecides,
       Answer, Move, Decide, vars, durableVars
  <1>2. CASE Publish
    BY <1>2 DEF Publish
  <1>3. CASE CommitNavigation
    BY <1>3 DEF CommitNavigation
  <1>4. ASSUME NEW o \in Ops,
               \/ \E requests \in 1..2 : AcceptCompaction(o, requests)
               \/ \E target \in 0..Len(history), summarize \in BOOLEAN :
                        AcceptNavigation(o, target, summarize)
        PROVE  Accepts(o)
    BY <1>4 DEF AcceptCompaction, AcceptNavigation
  <1> QED
    BY <1>1, <1>2, <1>3, <1>4 DEF Next, DriveStep

(* A drive that decided before the marker was committed does not end the   *)
(* operation otherwise than aborted.                                       *)
THEOREM MarkerPrevails == Spec => MarkerWins
  <1>1. ASSUME IInv, [Next]_vars, op.control = "cancel",
               held.control = "running", current' # current
        PROVE  result'[current] = "aborted"
    <2>1. ~Owned(held)
      BY <1>1 DEF Owned
    <2>2. ASSUME NEW o \in Ops, Accepts(o) PROVE FALSE
      BY <1>1, <2>2 DEF IInv, RecordsInv, Accepts
    <2>3. ReconcileAbort
      BY <1>1, <2>1, <2>2, LaneSteps
    <2>4. current \in Ops /\ result \in [Ops -> Statuses \union {"none"}]
      BY <2>3, <1>1 DEF IInv, TypeOK, PointInv, RecordsInv, ReconcileAbort
    <2> QED
      BY <2>3, <2>4 DEF ReconcileAbort, Terminal
  <1> QED
    BY <1>1, InvAlways, PTL DEF Spec, MarkerWins

-----------------------------------------------------------------------------
(* Refinement                                                              *)

LEMMA TerminalSettles ==
    ASSUME NEW status \in Statuses, NEW newTip, IInv, current # None,
           Terminal(status, newTip),
           status = "aborted" => op.control = "cancel"
    PROVE  [Operation!Next]_(Operation!opVars)
  <1>1. /\ result' = [result EXCEPT ![current] = status]
        /\ current' = None /\ op'.control = "running"
    BY DEF Terminal, NoState
  <1>2. Operation!Settle(status)
    BY <1>1 DEF Operation!Settle
  <1> QED
    BY <1>2 DEF Operation!Next, Statuses, Operation!Statuses

LEMMA StepRefines == IInv /\ [Next]_vars => [Operation!Next]_(Operation!opVars)
  <1> SUFFICES ASSUME IInv, [Next]_vars
               PROVE  [Operation!Next]_(Operation!opVars)
    OBVIOUS
  <1>1. /\ op \in OpStates /\ TypeOK /\ RecordsInv /\ PointInv
        /\ "completed" \in Statuses /\ "aborted" \in Statuses
        /\ "declined" \in Statuses /\ "failed" \in Statuses
    BY DEF IInv, TypeOK, Statuses
  <1>2. ASSUME current' = current, result' = result, op'.control = op.control
        PROVE  [Operation!Next]_(Operation!opVars)
    BY <1>2 DEF Operation!opVars
  <1>3. ASSUME NEW o \in Ops,
               \/ \E requests \in 1..2 : AcceptCompaction(o, requests)
               \/ \E target \in 0..Len(history), summarize \in BOOLEAN :
                        AcceptNavigation(o, target, summarize)
        PROVE  [Operation!Next]_(Operation!opVars)
    <2>1. Accepts(o)
      BY <1>3 DEF AcceptCompaction, AcceptNavigation
    <2>2. op'.control = "running"
      BY <1>3 DEF AcceptCompaction, AcceptNavigation, NoState
    <2>3. op.control = "running"
      BY <1>1, <2>1 DEF RecordsInv, Accepts
    <2>4. Operation!Accept(o)
      BY <2>1, <2>2, <2>3 DEF Operation!Accept, Accepts
    <2> QED
      BY <2>4 DEF Operation!Next
  <1>4. CASE RequestAbort \/ MarkSealed
    <2>1. Mark
      BY <1>4 DEF RequestAbort, MarkSealed
    <2>2. op'.control = "cancel"
      BY <1>1, <2>1 DEF Mark, OpStates
    <2>3. Operation!RequestAbort
      BY <2>1, <2>2 DEF Mark, Operation!RequestAbort
    <2> QED
      BY <2>3 DEF Operation!Next
  <1>5. CASE \/ SealDrive \/ SignalDrive \/ Drive \/ CheckAbort \/ ReturnResult
             \/ Read \/ Interrupted \/ ModelUnavailable \/ AdmitRequest
             \/ RequestHookReturns \/ RecoverGeneration \/ TimePasses
             \/ AwaitRetry \/ AbortSettles \/ Crash
             \/ \E decision \in {"none", "declined", "hookSummary"} :
                    HookDecides(decision)
             \/ \E response \in {"summary", "retry", "failed"} : Answer(response)
             \/ UNCHANGED vars
    <2>1. current' = current /\ result' = result /\ op' = op
      BY <1>5 DEF SealDrive, SignalDrive, Drive, CheckAbort, ReturnResult, Read,
         Interrupted, ModelUnavailable, AdmitRequest, RequestHookReturns,
         RecoverGeneration, TimePasses, AwaitRetry, AbortSettles, Crash,
         HookDecides, Answer, Move, Decide, vars, durableVars
    <2> QED
      BY <1>2, <2>1
  <1>6. CASE \/ PublishReady \/ PublishEffectIntent \/ PublishRequestIntent
             \/ PublishRequestOutcome \/ RetryAgain
    <2>1. current' = current /\ result' = result
      BY <1>6 DEF PublishReady, PublishEffectIntent, PublishRequestIntent,
         PublishRequestOutcome, RetryAgain
    <2>2. op'.control = op.control
      BY <1>1, <1>6 DEF PublishReady, PublishEffectIntent, PublishRequestIntent,
         PublishRequestOutcome, RetryAgain, RequestSettled, Fault, OpStates
    <2> QED
      BY <1>2, <2>1, <2>2
  <1>7. CASE Publish
    <2>1. current # None
      BY <1>1, <1>7 DEF Publish, PointInv
    <2>2. ASSUME NEW fromHook \in BOOLEAN, PublishSummary(fromHook)
          PROVE  [Operation!Next]_(Operation!opVars)
      <3>1. Terminal("completed", Len(history) + 1)
        BY <2>2 DEF PublishSummary
      <3> QED
        BY <1>1, <2>1, <3>1, TerminalSettles
    <2>3. ASSUME NEW status \in {"declined", "failed"}, PublishEnd(status)
          PROVE  [Operation!Next]_(Operation!opVars)
      <3>1. Terminal(status, tip)
        BY <2>3 DEF PublishEnd
      <3> QED
        BY <1>1, <2>1, <3>1, TerminalSettles
    <2>4. CASE ScheduleRetry
      <3>1. /\ current' = current /\ result' = result
            /\ op'.control = op.control
        BY <1>1, <2>4 DEF ScheduleRetry, OpStates
      <3> QED
        BY <1>2, <3>1
    <2>5. CASE UNCHANGED <<current, op, preparation, result, resultTip, history,
                           tip, abort, due>>
      BY <1>2, <2>5
    <2> QED
      BY <1>7, <2>2, <2>3, <2>4, <2>5 DEF Publish
  <1>8. CASE CommitNavigation
    <2>1. current # None
      BY <1>1, <1>8 DEF CommitNavigation, PointInv
    <2>2. CASE Owned(held)
      <3>1. Terminal("completed", meta[current].target)
        BY <1>8, <2>2 DEF CommitNavigation
      <3> QED
        BY <1>1, <2>1, <3>1, TerminalSettles
    <2>3. CASE ~Owned(held)
      BY <1>2, <1>8, <2>3 DEF CommitNavigation
    <2> QED
      BY <2>2, <2>3
  <1>9. CASE ReconcileAbort
    <2>1. current # None /\ op.control = "cancel" /\ Terminal("aborted", tip)
      BY <1>1, <1>9 DEF ReconcileAbort, PointInv
    <2> QED
      BY <1>1, <2>1, TerminalSettles
  <1> QED
    BY <1>3, <1>4, <1>5, <1>6, <1>7, <1>8, <1>9 DEF Next, DriveStep

(* Compaction and navigation implement DurableOperation: one operation at  *)
(* a time, a marker that stays, one result that nothing revises.           *)
THEOREM SummaryImplements == Spec => ImplementsOperation
  <1>1. Init => Operation!Init
    BY DEF Init, Operation!Init, NoState
  <1> QED
    BY <1>1, StepRefines, InvAlways, PTL DEF Spec, ImplementsOperation,
       Operation!Spec

(* What the run checks of a summary's records, on histories of any length   *)
(* and for any number of attempts.                                          *)
THEOREM SummaryStaysAccounted == Spec => []SummaryAccounted
  BY SummaryTypeCorrect, PreparationKept, RequestsCounted, ResultAgrees, PTL
     DEF SummaryAccounted

-----------------------------------------------------------------------------
(* What is stored of the operation                                         *)

(* Every open operation has the intent it was accepted with.                *)
KindInv == current # None => meta[current].kind \in {"compaction", "navigation"}

LEMMA KindStep == IInv /\ KindInv /\ [Next]_vars => KindInv'
  <1> SUFFICES ASSUME IInv, KindInv, [Next]_vars PROVE KindInv'
    OBVIOUS
  <1>1. CASE \/ RequestAbort \/ MarkSealed \/ SealDrive \/ SignalDrive \/ Drive
             \/ CheckAbort \/ ReturnResult \/ Read \/ Interrupted
             \/ ModelUnavailable \/ AdmitRequest \/ RequestHookReturns
             \/ RecoverGeneration \/ TimePasses \/ AwaitRetry \/ AbortSettles
             \/ Crash \/ PublishReady \/ PublishEffectIntent
             \/ PublishRequestIntent \/ PublishRequestOutcome \/ RetryAgain
             \/ \E decision \in {"none", "declined", "hookSummary"} :
                    HookDecides(decision)
             \/ \E response \in {"summary", "retry", "failed"} : Answer(response)
             \/ UNCHANGED vars
    <2>1. UNCHANGED <<current, meta>>
      BY <1>1 DEF RequestAbort, MarkSealed, Mark, SealDrive, SignalDrive, Drive,
         CheckAbort, ReturnResult, Read, Interrupted, ModelUnavailable,
         AdmitRequest, RequestHookReturns, RecoverGeneration, TimePasses,
         AwaitRetry, AbortSettles, Crash, PublishReady, PublishEffectIntent,
         PublishRequestIntent, PublishRequestOutcome, RetryAgain, HookDecides,
         Answer, Move, Decide, vars, durableVars
    <2> QED
      BY <2>1 DEF KindInv
  <1>2. CASE Publish \/ CommitNavigation \/ ReconcileAbort
    <2>1. UNCHANGED meta /\ current' \in {current, None}
      BY <1>2 DEF Publish, PublishSummary, PublishEnd, ScheduleRetry,
         CommitNavigation, ReconcileAbort, Terminal
    <2> QED
      BY <2>1 DEF KindInv
  <1>3. ASSUME NEW o \in Ops, NEW requests \in 1..2,
               AcceptCompaction(o, requests)
        PROVE  KindInv'
    BY <1>3 DEF AcceptCompaction, Accepts, KindInv, IInv, TypeOK
  <1>4. ASSUME NEW o \in Ops, NEW target \in 0..Len(history),
               NEW summarize \in BOOLEAN, AcceptNavigation(o, target, summarize)
        PROVE  KindInv'
    BY <1>4 DEF AcceptNavigation, Accepts, KindInv, IInv, TypeOK
  <1> QED
    BY <1>1, <1>2, <1>3, <1>4 DEF Next, DriveStep

LEMMA KindAlways == Spec => [](IInv /\ KindInv)
  <1>1. Init => KindInv
    BY DEF Init, KindInv
  <1> QED
    BY <1>1, KindStep, InvAlways, PTL DEF Spec

(* The records written for an open operation are ones the codec keeps, and  *)
(* the state fits the intent.                                              *)
LEMMA StoredFits ==
    ASSUME Json, Ops \subseteq Scalars, IInv, KindInv, current # None,
           NEW label \in {Null, Text}, NEW instructions \in {Null, Text},
           label = Null \/ meta[current].target # 0
    PROVE  /\ MetaOf(label, instructions) \in Metas
           /\ StateOf(label, instructions) \in OperationStates
           /\ Storable(StateOf(label, instructions))
           /\ StateMatchesIntent(MetaOf(label, instructions).intent,
                                 StateOf(label, instructions))
  <1> DEFINE m == meta[current]
             task == TaskOf(label, instructions)
             details == DetailsOf(label, instructions)
             intent == IntentOf(label, instructions)
  <1>1. /\ current \in Ops
        /\ op.at \in SummaryStates \union {"navigate"}
        /\ op \in OpStates
        /\ m.source \in Nat /\ m.target \in Nat
        /\ m.kind \in {"compaction", "navigation"}
        /\ op.at = "navigate" => m.kind = "navigation"
        /\ preparation \in BOOLEAN
        /\ preparation <=> op.at \in SummaryStates
    BY DEF IInv, TypeOK, RecordsInv, KindInv, PreparationOwned, OpStates
  <1>2. /\ \A n \in Nat : EntryId(n) \in Optional(Scalars)
        /\ EntryId(0) = Null
        /\ \A n \in Nat \ {0} : EntryId(n) # Null
    BY DurableRecordsAssumption DEF Json, EntryId, Optional
  <1>3. /\ Text \in Scalars /\ current \in Scalars
        /\ {label, instructions} \subseteq Optional(Scalars)
        /\ \A n \in Nat : n \in Scalars
    BY <1>1, SummaryRecordsAssumption DEF Json, Optional
  <1>4. intent \in Intents
    <2>1. CASE m.kind = "compaction"
      BY <1>3, <2>1 DEF IntentOf, Intents, CompactionIntents
    <2>2. CASE m.kind = "navigation"
      BY <1>1, <1>2, <1>3, <2>2 DEF IntentOf, Intents, NavigationIntents
    <2> QED
      BY <1>1, <2>1, <2>2
  <1>5. MetaOf(label, instructions) \in Metas
    BY <1>1, <1>2, <1>3, <1>4 DEF MetaOf, Metas
  <1>6. task \in SummaryTasks
    BY <1>1, <1>2, <1>3 DEF TaskOf, SummaryTasks, Optional, Reasons
  <1>7. OneBoundary(task)
    BY <1>1, <1>2 DEF TaskOf, OneBoundary
  <1>8. StoredConfiguration \in Configurations
    BY <1>3 DEF StoredConfiguration, Configurations, ThinkingLevels, Texts
  <1>9. SummaryContextOf \in SummaryContexts
    BY <1>3, <1>8, SummaryTaskAssumption
       DEF SummaryContextOf, SummaryContexts, RetryPolicies
  <1>10. details \in StateDetails
    <2>1. CASE op.at = "navigate"
      BY <1>1, <1>2, <1>3, <2>1 DEF DetailsOf, StateDetails
    <2>2. CASE op.at = "deciding"
      BY <1>6, <2>2 DEF DetailsOf, StateDetails
    <2>3. CASE op.at = "ready"
      BY <1>1, <1>3, <1>6, <1>9, <2>3 DEF DetailsOf, StateDetails, OpStates
    <2>4. CASE op.at = "effectPending"
      <3>1. op.answers \in Nat /\ op.request \in Nat /\ op.attempt \in Nat
        BY <1>1 DEF OpStates
      <3>2. [a \in 1..op.answers |-> a] \in Texts
        BY <1>3, <3>1 DEF Texts
      <3>3. (IF op.request = 0 THEN Null
             ELSE [index |-> op.request, usage_id |-> Text]) \in Optional(RequestStates)
        BY <1>3, <3>1 DEF Optional, RequestStates
      <3> QED
        BY <1>3, <1>6, <1>9, <2>4, <3>1, <3>2, <3>3 DEF DetailsOf, StateDetails
    <2>5. CASE op.at = "retryWait"
      BY <1>1, <1>3, <1>6, <1>9, <2>5 DEF DetailsOf, StateDetails, OpStates
    <2> QED
      BY <1>1, <2>1, <2>2, <2>3, <2>4, <2>5 DEF SummaryStates
  <1>11. StoredSettings \in RunSettings
    BY <1>3 DEF StoredSettings, RunSettings, CompactionSettings, QueueingModes,
       ToolExecutions
  <1>12. StateOf(label, instructions) \in OperationStates
    BY <1>3, <1>10, <1>11 DEF StateOf, OperationStates, Controls, Optional
  <1>13. /\ op.at = "navigate" =>
                /\ details.at = "navigation.ready_to_commit"
                /\ details.target_id = EntryId(m.target)
                /\ details.label = label
         /\ op.at # "navigate" => details.at \in SummaryAts /\ details.task = task
    BY <1>1 DEF DetailsOf, SummaryAts, SummaryStates
  <1>14. Storable(StateOf(label, instructions))
    BY <1>1, <1>7, <1>13 DEF Storable, StateOf, SummaryAts
  <1>15. StateMatchesIntent(intent, StateOf(label, instructions))
    <2>1. CASE m.kind = "compaction"
      <3>1. op.at # "navigate"
        BY <1>1, <2>1
      <3> QED
        BY <1>13, <2>1, <3>1 DEF StateMatchesIntent, IsSummary, StateOf, IntentOf, TaskOf
    <2>2. CASE m.kind = "navigation" /\ op.at = "navigate"
      BY <1>1, <1>13, <2>2 DEF StateMatchesIntent, StateOf, IntentOf, SummaryStates
    <2>3. CASE m.kind = "navigation" /\ op.at # "navigate"
      <3>1. preparation /\ details.at # "navigation.ready_to_commit"
        BY <1>1, <1>13, <2>3 DEF SummaryAts
      <3> QED
        BY <1>13, <2>3, <3>1 DEF StateMatchesIntent, IsSummary, StateOf, IntentOf, TaskOf
    <2> QED
      BY <1>1, <2>1, <2>2, <2>3
  <1> QED
    BY <1>5, <1>12, <1>14, <1>15 DEF MetaOf

(* Wherever a process is lost, the next one finds the operation and goes on *)
(* with it at the state it was left in, and a watcher sees the same.        *)
THEOREM SummaryRestoreResumes ==
    ASSUME Json, Ops \subseteq Scalars
    PROVE  Spec => []RestoreResumes
  <1>1. ASSUME IInv, KindInv PROVE RestoreResumes
    <2>1. LaneStateOf \in LaneStates
      <3>1. current # None => current \in Scalars
        BY <1>1 DEF IInv, TypeOK
      <3> QED
        BY <3>1 DEF LaneStateOf, LaneStates, Optional
    <2>2. StoredConfiguration \in Configurations
      BY SummaryRecordsAssumption
         DEF StoredConfiguration, Configurations, ThinkingLevels, Texts
    <2>3. CASE current = None
      <3>1. LaneStateOf.current_operation_id = Null
        BY <2>3 DEF LaneStateOf
      <3>2. Reopened(Null, Null) = Null
        BY <2>1, <2>2, <3>1, RestoreIdle DEF Reopened
      <3> QED
        BY <2>3, <3>2 DEF RestoreResumes
    <2>4. ASSUME current # None,
                 NEW label \in {Null, Text}, NEW instructions \in {Null, Text},
                 label = Null \/ meta[current].target # 0
          PROVE  LET meta1 == EncodeMeta(MetaOf(label, instructions))
                     state1 == EncodeOperationState(StateOf(label, instructions))
                     read == DecodeOperationState(state1)
                 IN  /\ read = StateOf(label, instructions)
                     /\ Reopened(meta1, state1) = Execution(label, instructions)
                     /\ OperationSnapshot(current, DecodeMeta(meta1), read, <<>>, <<>>)
                         = WatchedOperation
      <3> DEFINE m == MetaOf(label, instructions)
                 s == StateOf(label, instructions)
      <3>1. /\ m \in Metas /\ s \in OperationStates /\ Storable(s)
            /\ StateMatchesIntent(m.intent, s)
        BY <1>1, <2>4, StoredFits
      <3>2. /\ m.lane = Text /\ m.operation_id = current
            /\ m.started_at = Text /\ m.source_tip_id = EntryId(meta[current].source)
            /\ s.details = DetailsOf(label, instructions)
        BY DEF MetaOf, StateOf
      <3>3. KindOf(m.intent) = meta[current].kind
        BY <1>1, <2>4 DEF KindInv, MetaOf, IntentOf, KindOf
      <3>4. current \in Ops /\ m.operation_id = LaneStateOf.current_operation_id
        BY <1>1, <2>4, <3>2 DEF IInv, TypeOK, LaneStateOf
      <3>5. /\ [o \in Ops |-> EncodeMeta(m)][m.operation_id] = EncodeMeta(m)
            /\ [o \in Ops |-> EncodeOperationState(s)][m.operation_id]
                = EncodeOperationState(s)
        BY <3>2, <3>4
      <3> HIDE DEF m, s
      <3>6. Reopened(EncodeMeta(m), EncodeOperationState(s))
              = Execution(label, instructions)
        <4>1. Reopened(EncodeMeta(m), EncodeOperationState(s))
                = [operation_id |-> m.operation_id, kind |-> KindOf(m.intent),
                   started_at |-> m.started_at, at |-> s.details.at]
          <5> DEFINE metas == [o \in Ops |-> EncodeMeta(m)]
                     states == [o \in Ops |-> EncodeOperationState(s)]
          <5>1. /\ metas[m.operation_id] = EncodeMeta(m)
                /\ states[m.operation_id] = EncodeOperationState(s)
            BY <3>5
          <5>2. Reopened(EncodeMeta(m), EncodeOperationState(s))
                  = Restore(Text, [value |-> EntryId(tip)],
                            EncodeConfiguration(StoredConfiguration),
                            EncodeLaneState(LaneStateOf), metas, states)
            BY DEF Reopened
          <5> HIDE DEF metas, states
          <5>3. Restore(Text, [value |-> EntryId(tip)],
                        EncodeConfiguration(StoredConfiguration),
                        EncodeLaneState(LaneStateOf), metas, states)
                  = [operation_id |-> m.operation_id, kind |-> KindOf(m.intent),
                     started_at |-> m.started_at, at |-> s.details.at]
            BY <2>1, <2>2, <3>1, <3>2, <3>4, <5>1, RestoreFinds
          <5> QED
            BY <5>2, <5>3
        <4> QED
          BY <3>2, <3>3, <4>1 DEF Execution
      <3>7. /\ DecodeOperationState(EncodeOperationState(s)) = s
            /\ DecodeMeta(EncodeMeta(m)) = m
        BY <3>1, StatesReadBack, MetaRoundTrip
      <3>8. OperationSnapshot(current, m, s, <<>>, <<>>) = WatchedOperation
        <4>1. s.control.is = "CancelRequestedControl" <=> op.control # "running"
          BY DEF s, StateOf
        <4>2. RunningTools(s.details, <<>>) = [c \in {} |-> Null]
          BY <3>2 DEF RunningTools, DetailsOf
        <4>3. RetryOf(s.details) =
                IF op.at = "retryWait"
                THEN [attempt |-> op.attempt, max_attempts |-> MaxAttempts,
                      next_attempt_at |-> Text]
                ELSE Null
          BY <1>1, <2>4, <3>2 DEF RetryOf, DetailsOf, SummaryContextOf, IInv,
             TypeOK, OpStates, RecordsInv, SummaryStates
        <4>4. s.details.at # "assistant.effect_pending"
          BY <3>2 DEF DetailsOf
        <4> QED
          BY <3>2, <3>3, <4>1, <4>2, <4>3, <4>4 DEF OperationSnapshot, WatchedOperation
      <3> QED
        BY <3>6, <3>7, <3>8 DEF m, s
    <2> QED
      BY <2>3, <2>4 DEF RestoreResumes
  <1> QED
    BY <1>1, KindAlways, PTL

-----------------------------------------------------------------------------
(* Compaction: a message is in exactly one part, a retained result keeps    *)
(* its call, and what the summary and the tail remember together.           *)

(* The least and the greatest of a set of places                           *)

LEMMA LeastExists ==
    ASSUME NEW S \in SUBSET Nat, S # {}
    PROVE  Min(S) \in S /\ \A y \in S : Min(S) <= y
<1>1. PICK x \in S : \A y \in S : ~(<<y, x>> \in OpToRel(<, Nat))
  BY NatLessThanWellFounded, WFMin
<1>2. \A y \in S : x <= y
  <2>1. \A y \in S : <<y, x>> \in Nat \X Nat
    OBVIOUS
  <2>2. \A y \in S : ~(y < x)
    BY <1>1, <2>1 DEF OpToRel
  <2> QED
    BY <2>2
<1> QED
  BY <1>2 DEF Min

LEMMA GreatestExists ==
    ASSUME NEW n \in Nat, NEW S \in SUBSET (0..n), S # {}
    PROVE  Max(S) \in S /\ \A y \in S : y <= Max(S)
<1> DEFINE T == {n - x : x \in S}
<1>1. T \in SUBSET Nat /\ T # {}
  <2>1. \A x \in S : n - x \in Nat
    OBVIOUS
  <2>2. PICK x \in S : TRUE
    OBVIOUS
  <2>3. n - x \in T
    BY <2>2
  <2> QED
    BY <2>1, <2>3
<1>2. Min(T) \in T /\ \A y \in T : Min(T) <= y
  BY <1>1, LeastExists
<1>3. PICK x \in S : Min(T) = n - x
  BY <1>2
<1>4. \A y \in S : n - x <= n - y
  BY <1>2, <1>3
<1>5. \A y \in S : x >= y
  BY <1>4
<1> QED
  BY <1>5 DEF Max

-----------------------------------------------------------------------------
(* The cut of a lane                                                       *)

LEMMA FirstPointIsPoint ==
    ASSUME NEW E, NEW s \in Seq(E), NEW keep, CutPoints(s) # {}
    PROVE  FirstPoint(s, keep) \in CutPoints(s)
<1>1. CutPoints(s) \in SUBSET Nat /\ CutPoints(s) \in SUBSET (0..Len(s))
  BY DEF CutPoints
<1>2. Enough(s, keep) \in SUBSET (0..Len(s))
  BY DEF Enough
<1>3. Min(CutPoints(s)) \in CutPoints(s)
  BY <1>1, LeastExists
<1>4. Max(CutPoints(s)) \in CutPoints(s)
  BY <1>1, GreatestExists
<1>5. ASSUME NEW i \in 0..Len(s)
      PROVE  NextPoint(s, i) \in CutPoints(s)
  <2> DEFINE later == {p \in CutPoints(s) : p >= i}
  <2>1. CASE later = {}
    BY <2>1, <1>4 DEF NextPoint
  <2>2. CASE later # {}
    <3>1. Min(later) \in later
      BY <2>2, <1>1, LeastExists
    <3> QED
      BY <3>1, <2>2 DEF NextPoint
  <2> QED
    BY <2>1, <2>2
<1>6. CASE Enough(s, keep) = {}
  BY <1>6, <1>3 DEF FirstPoint
<1>7. CASE Enough(s, keep) # {}
  <2>1. Len(s) \in Nat
    OBVIOUS
  <2>2. Max(Enough(s, keep)) \in Enough(s, keep)
    BY <1>7, <1>2, <2>1, GreatestExists
  <2>3. Max(Enough(s, keep)) \in 0..Len(s)
    BY <2>2, <1>2
  <2> QED
    BY <1>5, <1>7, <2>3 DEF FirstPoint
<1> QED
  BY <1>6, <1>7

(* The cut is at the first point that is kept or before it, and nothing     *)
(* between the two is a message.                                           *)
LEMMA CutBeforePoint ==
    ASSUME NEW E, NEW s \in Seq(E), NEW keep, CutPoints(s) # {}
    PROVE  /\ FirstPoint(s, keep) \in 1..Len(s)
           /\ Cut(s, keep) \in 1..FirstPoint(s, keep)
           /\ \A k \in Cut(s, keep)..(FirstPoint(s, keep) - 1) : ~IsMessage(s[k])
<1> DEFINE c == FirstPoint(s, keep)
<1>1. c \in 1..Len(s)
  BY FirstPointIsPoint DEF CutPoints
<1>2. c \in PulledBack(s, c)
  BY <1>1 DEF PulledBack
<1>3. PulledBack(s, c) \in SUBSET Nat
  BY <1>1 DEF PulledBack
<1>4. Min(PulledBack(s, c)) \in PulledBack(s, c)
  BY <1>2, <1>3, LeastExists
<1> QED
  BY <1>1, <1>4 DEF Cut, PulledBack

LEMMA TurnStartIsPlace ==
    ASSUME NEW E, NEW s \in Seq(E), NEW c \in 1..Len(s)
    PROVE  TurnStart(s, c) \in 0..c
<1> DEFINE starts == {k \in 1..c : s[k].kind \in {"user", "branch"}}
<1>1. CASE starts = {}
  BY <1>1 DEF TurnStart
<1>2. CASE starts # {}
  <2>1. c \in Nat /\ starts \in SUBSET (0..c)
    OBVIOUS
  <2>2. Max(starts) \in starts
    BY <1>2, <2>1, GreatestExists
  <2> QED
    BY <1>2, <2>2 DEF TurnStart
<1> QED
  BY <1>1, <1>2

(* Every message of the conversation is in exactly one of the history, the *)
(* prefix of the cut turn and the retained tail, and the three stand in    *)
(* that order.                                                             *)
THEOREM PartsCover ==
    ASSUME NEW E, NEW s \in Seq(E), NEW keep, CutPoints(s) # {}
    PROVE  /\ History(s, keep) \union Prefix(s, keep) \union Retained(s, keep)
                = Places(s)
           /\ \A i \in History(s, keep), j \in Prefix(s, keep) : i < j
           /\ \A i \in History(s, keep) \union Prefix(s, keep),
                 j \in Retained(s, keep) : i < j
<1> DEFINE c == Cut(s, keep)
           t == TurnStart(s, c)
<1>1. c \in 1..Len(s)
  BY CutBeforePoint
<1>2. t \in 0..c
  BY <1>1, TurnStartIsPlace
<1>3. CASE Split(s, keep)
  <2>1. t \in 1..c
    BY <1>2, <1>3 DEF Split
  <2>2. History(s, keep) = {i \in 1..(t - 1) : HasMessage(s[i])}
    BY <1>3 DEF History, HistoryEnd
  <2>3. Prefix(s, keep) = {i \in t..(c - 1) : HasMessage(s[i])}
    BY <1>3 DEF Prefix
  <2> QED
    BY <1>1, <2>1, <2>2, <2>3 DEF Retained, Places
<1>4. CASE ~Split(s, keep)
  <2>1. History(s, keep) = {i \in 1..(c - 1) : HasMessage(s[i])}
    BY <1>4 DEF History, HistoryEnd
  <2>2. Prefix(s, keep) = {}
    BY <1>4 DEF Prefix
  <2> QED
    BY <1>1, <2>1, <2>2 DEF Retained, Places
<1> QED
  BY <1>3, <1>4

(* A tool result that is retained keeps the call it answers: what the      *)
(* model sees after a compaction has no result without its call.           *)
THEOREM RetainedResultsKeepCalls ==
    ASSUME NEW E, NEW s \in Seq(E), NEW keep, Paired(s),
           NEW i \in Retained(s, keep), s[i].kind = "result"
    PROVE  \E j \in Retained(s, keep) :
              /\ j < i /\ s[j].kind = "assistant"
              /\ \A k \in (j + 1)..(i - 1) : s[k].kind \in {"result", "other"}
<1> DEFINE c == Cut(s, keep)
           p == FirstPoint(s, keep)
<1>1. i \in 1..Len(s) /\ i \in DOMAIN s
  <2>1. CASE CutPoints(s) = {}
    BY <2>1 DEF Retained, Cut
  <2>2. CASE CutPoints(s) # {}
    BY <2>2, CutBeforePoint DEF Retained
  <2> QED
    BY <2>1, <2>2
<1>2. PICK j \in 1..(i - 1) :
         /\ s[j].kind = "assistant"
         /\ \A k \in (j + 1)..(i - 1) : s[k].kind \in {"result", "other"}
  BY <1>1 DEF Paired
<1>3. j \in CutPoints(s)
  BY <1>1, <1>2 DEF CutPoints, HasMessage, IsMessage, MessageKinds
<1>4. /\ p \in 1..Len(s) /\ c \in 1..p
      /\ \A k \in c..(p - 1) : ~IsMessage(s[k])
  BY <1>3, CutBeforePoint
<1>5. i >= c
  BY <1>1, <1>4 DEF Retained
<1>6. p \in CutPoints(s)
  BY <1>3, FirstPointIsPoint
<1>7. HasMessage(s[p]) /\ s[p].kind # "result" /\ s[p].kind # "other"
  BY <1>6 DEF CutPoints, HasMessage, IsMessage, MessageKinds
<1>8. IsMessage(s[i])
  BY DEF IsMessage, MessageKinds
<1>9. i > p
  BY <1>1, <1>4, <1>5, <1>7, <1>8
<1>10. j >= p
  BY <1>1, <1>2, <1>4, <1>7, <1>9
<1>11. j \in Retained(s, keep)
  BY <1>1, <1>2, <1>3, <1>4, <1>10 DEF Retained, CutPoints
<1>12. j < i
  BY <1>1, <1>2
<1> QED
  BY <1>2, <1>11, <1>12, Zenon

(* What a compaction of a lane remembers: with its tail everything there    *)
(* was, except that a cut inside the first turn of the conversation forgets *)
(* what the previous summary told.                                         *)
THEOREM LaneRemembers ==
    ASSUME NEW E, NEW s \in Seq(E), NEW keep, NEW previous, CutPoints(s) # {}
    PROVE  Covered(previous, s, keep) \union Ids(s, Retained(s, keep))
              = IF Prefix(s, keep) # {} /\ History(s, keep) = {}
                THEN Ids(s, Places(s)) ELSE Remembered(previous, s)
<1> DEFINE h == History(s, keep)
           x == Prefix(s, keep)
           r == Retained(s, keep)
<1>1. h \union x \union r = Places(s)
  BY PartsCover
<1>2. Ids(s, h) \union Ids(s, x) \union Ids(s, r) = Ids(s, Places(s))
  <2>1. \A a, b : Ids(s, a \union b) = Ids(s, a) \union Ids(s, b)
    BY DEF Ids
  <2>2. Ids(s, (h \union x) \union r) = Ids(s, h \union x) \union Ids(s, r)
    BY <2>1, Zenon
  <2>3. Ids(s, h \union x) = Ids(s, h) \union Ids(s, x)
    BY <2>1, Zenon
  <2> QED
    BY <1>1, <2>2, <2>3, Zenon
<1>3. h = {} <=> Ids(s, h) = {}
  BY DEF Ids
<1>4. x = {} <=> Ids(s, x) = {}
  BY DEF Ids
<1>5. CASE x # {} /\ h = {}
  <2>1. Covered(previous, s, keep) = Ids(s, x)
    BY <1>3, <1>4, <1>5 DEF Covered
  <2> QED
    BY <1>2, <1>3, <1>5, <2>1
<1>6. CASE ~(x # {} /\ h = {})
  <2>1. Covered(previous, s, keep)
           = previous.covers \union Ids(s, h) \union Ids(s, x)
    BY <1>3, <1>4, <1>6 DEF Covered
  <2> QED
    BY <1>2, <1>6, <2>1 DEF Remembered
<1> QED
  BY <1>5, <1>6

-----------------------------------------------------------------------------
(* The in-process agent                                                    *)

LEMMA AgentCutIsPoint ==
    ASSUME NEW E, NEW s \in Seq(E), NEW keep, AgentPoints(s) # {}
    PROVE  AgentCut(s, keep) \in AgentPoints(s)
<1> DEFINE enough == {i \in DOMAIN s : Weight(s, i) >= keep}
           later == {p \in AgentPoints(s) : p >= Max(enough)}
<1>1. Len(s) \in Nat /\ AgentPoints(s) \in SUBSET (0..Len(s))
  BY DEF AgentPoints
<1>2. AgentPoints(s) \in SUBSET Nat
  BY <1>1
<1>3. Min(AgentPoints(s)) \in AgentPoints(s)
  BY <1>2, LeastExists
<1>4. Max(AgentPoints(s)) \in AgentPoints(s)
  BY <1>1, GreatestExists
<1>5. later # {} => Min(later) \in later
  BY <1>2, LeastExists
<1>6. AgentCut(s, keep) = IF enough = {} THEN Min(AgentPoints(s))
                         ELSE IF later = {} THEN Max(AgentPoints(s)) ELSE Min(later)
  BY DEF AgentCut
<1> QED
  BY <1>3, <1>4, <1>5, <1>6

LEMMA AgentTurnStartIsPlace ==
    ASSUME NEW E, NEW s \in Seq(E), NEW c \in 1..Len(s)
    PROVE  AgentTurnStart(s, c) \in 0..c
<1> DEFINE starts == {k \in 1..c : Opens(s[k])}
<1>1. CASE starts = {}
  BY <1>1 DEF AgentTurnStart
<1>2. CASE starts # {}
  <2>1. c \in Nat /\ starts \in SUBSET (0..c)
    OBVIOUS
  <2>2. Max(starts) \in starts
    BY <1>2, <2>1, GreatestExists
  <2> QED
    BY <1>2, <2>2 DEF AgentTurnStart
<1> QED
  BY <1>1, <1>2

(* A compaction of the agent forgets nothing: what the previous summary     *)
(* told and every message is in the new summary or in the tail.            *)
THEOREM AgentRemembers ==
    ASSUME NEW E, NEW s \in Seq(E), NEW keep, NEW previous, AgentPoints(s) # {}
    PROVE  AgentCovered(previous, s, keep)
              \union Ids(s, AgentCut(s, keep)..Len(s))
                  = previous.covers \union Ids(s, DOMAIN s)
<1> DEFINE c == AgentCut(s, keep)
           t == AgentTurnStart(s, c)
           summarized == AgentHistory(s, keep) \union AgentPrefix(s, keep)
<1>1. c \in 1..Len(s)
  BY AgentCutIsPoint DEF AgentPoints
<1>2. t \in 0..c
  BY <1>1, AgentTurnStartIsPlace
<1>3. summarized = 1..(c - 1)
  <2>1. CASE AgentSplit(s, keep)
    <3>1. t \in 1..c
      BY <1>2, <2>1 DEF AgentSplit
    <3>2. AgentHistory(s, keep) = 1..(t - 1) /\ AgentPrefix(s, keep) = t..(c - 1)
      BY <2>1 DEF AgentHistory, AgentPrefix
    <3> QED
      BY <1>1, <3>1, <3>2
  <2>2. CASE ~AgentSplit(s, keep)
    BY <1>1, <2>2 DEF AgentHistory, AgentPrefix
  <2> QED
    BY <2>1, <2>2
<1>4. summarized \union (c..Len(s)) = DOMAIN s
  <2>1. (1..(c - 1)) \union (c..Len(s)) = 1..Len(s)
    BY <1>1
  <2>2. DOMAIN s = 1..Len(s)
    OBVIOUS
  <2> QED
    BY <1>3, <2>1, <2>2, Zenon
<1>5. \A a, b : Ids(s, a \union b) = Ids(s, a) \union Ids(s, b)
  BY DEF Ids
<1>6. Ids(s, summarized) \union Ids(s, c..Len(s)) = Ids(s, DOMAIN s)
  BY <1>4, <1>5
<1> QED
  BY <1>6 DEF AgentCovered

=============================================================================

---------------------------- MODULE AgentProofs ----------------------------
(***************************************************************************)
(* Proofs about the in-process Agent.                                      *)
(*                                                                         *)
(* AgentActivity, for any number of activities, accepted prompts and       *)
(* listeners: activities execute one at a time, accepted prompts start     *)
(* once and in order, and nobody who waits for the Agent is released       *)
(* before the prompts accepted meanwhile have had their run.               *)
(*                                                                         *)
(* AgentLoop, for any number of inputs, responses, calls, compactions and  *)
(* mishaps: every context the model is sent pairs calls and results, the   *)
(* requests without an answer are bounded, and an input enters the history *)
(* once and in order.                                                      *)
(***************************************************************************)
EXTENDS AgentActivity, AgentLoop, SequenceTheorems, FiniteSetTheorems,
        WellFoundedInduction, TLAPS

-----------------------------------------------------------------------------
(* The inductive invariant                                                 *)

RunType ==
    [kind : {"dialogue", "compaction", "custom"},
     at : {"wait", "run", "settling", "done"},
     task : Nat, previous : Nat, idle : Nat, callbacks : SUBSET Listeners,
     prompt : Nat, pending : Seq(Nat), inherited : SUBSET Nat,
     transferred : BOOLEAN, chainError : BOOLEAN, custom : Nat]

TypeInv ==
    /\ run \in Seq(RunType)
    /\ accepted \in Seq([run : Nat, by : SUBSET Listeners])
    /\ active \in {0, Len(run)}
    /\ closeRun \in 0..Len(run)
    /\ \A r \in Made :
           /\ run[r].task \in 1..r
           /\ run[r].idle \in 1..r
           /\ run[r].inherited \subseteq Made
           /\ run[r].prompt \in 0..Len(accepted)
           /\ Range(run[r].pending) \subseteq DOMAIN accepted
    /\ \A p \in DOMAIN accepted : accepted[p].run \in Made
    /\ taskDone \subseteq Made /\ taskFailed \subseteq taskDone
    /\ idleSet \subseteq Made
    /\ dropped \subseteq DOMAIN accepted
    /\ closing \in BOOLEAN /\ closed \in BOOLEAN /\ overtaken \in BOOLEAN
    /\ submitted \in Nat

(* The activities that are not over are the newest ones; only the oldest   *)
(* of them executes, and each of the others waits for the task of the one  *)
(* before it.                                                              *)
TurnInv ==
    /\ active = 0 <=> \A r \in Made : run[r].at = "done"
    /\ \A r \in Made :
           /\ run[r].at # "wait" => \A s \in 1..(r - 1) : run[s].at = "done"
           /\ run[r].at = "wait" =>
                  /\ run[r].kind = "compaction"
                  /\ run[r].task = r
                  /\ IF run[r].previous = 0
                     THEN \A s \in 1..(r - 1) : run[s].at = "done"
                     ELSE run[r].previous = r - 1
           /\ run[r].task \in taskDone => run[r].at = "done"
           /\ run[r].at = "done" => run[r].pending = <<>>
           /\ run[r].kind = "custom" =>
                  run[r].pending = <<>> /\ run[r].at # "settling"

(* close() waits for the newest activity; nothing begins after it.         *)
CloseInv ==
    /\ closing => IF closeRun = 0 THEN active = 0 ELSE closeRun = Len(run)
    /\ closed => closing /\ active = 0
    /\ dropped # {} => closing

(* An accepted prompt is in one place.                                     *)
PlaceInv ==
    \A p \in DOMAIN accepted :
        /\ Waiting(p) # {} \/ Started(p) # {} \/ p \in dropped
        /\ Waiting(p) # {} => Started(p) = {} /\ p \notin dropped
        /\ Started(p) # {} => p \notin dropped
        /\ \A r, s \in Waiting(p) : r = s
        /\ \A r, s \in Started(p) : r = s

(* The prompts accepted in one run wait together, from the end of that run *)
(* with one that took them over.                                           *)
OriginInv ==
    \A r \in Made : \A p \in Range(run[r].pending) :
        /\ accepted[p].run # r => run[accepted[p].run].at = "done"
        /\ \A s \in Made : \A q \in Range(run[s].pending) :
               accepted[p].run = accepted[q].run => r = s

(* What waits was accepted after what was started, and an older activity   *)
(* holds the newer prompts.                                                *)
OrderInv ==
    /\ \A r \in Made : \A j, k \in DOMAIN run[r].pending :
           j < k /\ Comparable(run[r].pending[j], run[r].pending[k]) =>
               run[r].pending[j] < run[r].pending[k]
    /\ \A p \in DOMAIN accepted : Started(p) # {} =>
           \A r \in Made : \A q \in Range(run[r].pending) :
               Comparable(p, q) => p < q
    /\ \A p, q \in DOMAIN accepted : p < q /\ Comparable(p, q) =>
           \A r \in Started(p), s \in Started(q) : r < s
    /\ ~overtaken => \A r, s \in Made : r < s =>
           /\ run[r].at = "wait" => run[r].pending = <<>>
           /\ \A p \in Range(run[s].pending), q \in Range(run[r].pending) : p < q

(* The idle futures that a run is to set when it ends.                     *)
Carried(r) == {run[i].idle : i \in {r} \union run[r].inherited}

(* They are its own, not set before, and those of the prompts it holds.    *)
IdleInv ==
    \A r \in Made :
        /\ \A p \in Range(run[r].pending) : run[accepted[p].run].idle \in Carried(r)
        /\ run[r].at # "done" =>
               /\ run[r].prompt # 0 =>
                      run[accepted[run[r].prompt].run].idle \in Carried(r)
               /\ Carried(r) \intersect idleSet = {}
               /\ \A s \in Made : run[s].at # "done" /\ r # s =>
                      Carried(r) \intersect Carried(s) = {}

IInv ==
    TypeInv /\ TurnInv /\ CloseInv /\ PlaceInv /\ OriginInv /\ OrderInv /\ IdleInv

-----------------------------------------------------------------------------
(* Facts about runs and their prompts                                      *)

LEMMA Types ==
  ASSUME TypeInv
  PROVE  /\ Len(run) \in Nat /\ Made = 1..Len(run)
         /\ Len(accepted) \in Nat /\ DOMAIN accepted = 1..Len(accepted)
         /\ active \in Nat
         /\ active # 0 => active = Len(run) /\ active \in Made
         /\ \A r \in Made :
                /\ run[r] \in RunType
                /\ run[r].pending \in Seq(Nat)
                /\ run[r].at \in {"wait", "run", "settling", "done"}
                /\ run[r].task \in 1..r /\ run[r].idle \in 1..r
                /\ run[r].prompt \in 0..Len(accepted)
                /\ run[r].inherited \subseteq Made
                /\ Range(run[r].pending) \subseteq DOMAIN accepted
<1>1. Len(run) \in Nat /\ Made = 1..Len(run)
  BY LenProperties DEF TypeInv, Made
<1>2. Len(accepted) \in Nat /\ DOMAIN accepted = 1..Len(accepted)
  BY LenProperties DEF TypeInv
<1>3. active \in Nat /\ (active # 0 => active = Len(run) /\ active \in Made)
  BY <1>1 DEF TypeInv
<1>4. \A r \in Made : run[r] \in RunType
  BY ElementOfSeq, <1>1 DEF TypeInv
<1>5. \A r \in Made : /\ run[r].pending \in Seq(Nat)
                      /\ run[r].at \in {"wait", "run", "settling", "done"}
  BY <1>4 DEF RunType
<1> QED
  BY <1>1, <1>2, <1>3, <1>4, <1>5 DEF TypeInv

(* The elements of a queue, of an empty one, and of two queues in a row.   *)
LEMMA RangeFacts ==
  ASSUME NEW S, NEW s \in Seq(S)
  PROVE  /\ DOMAIN s = 1..Len(s) /\ Len(s) \in Nat
         /\ \A x : x \in Range(s) <=> \E i \in 1..Len(s) : s[i] = x
         /\ s = <<>> <=> Range(s) = {}
  BY LenProperties, EmptySeq DEF Range

LEMMA RangeConcat ==
  ASSUME NEW S, NEW s \in Seq(S), NEW t \in Seq(S)
  PROVE  Range(s \o t) = Range(s) \union Range(t)
<1>1. s \o t \in Seq(S) /\ Len(s \o t) = Len(s) + Len(t)
  BY ConcatProperties
<1>2. \A i \in 1..(Len(s) + Len(t)) :
          (s \o t)[i] = IF i <= Len(s) THEN s[i] ELSE t[i - Len(s)]
  BY ConcatProperties
<1>3. ASSUME NEW x \in Range(s \o t)
      PROVE  x \in Range(s) \union Range(t)
  <2>1. PICK i \in 1..(Len(s) + Len(t)) : (s \o t)[i] = x
    BY <1>1, RangeFacts
  <2>2. CASE i <= Len(s)
    BY <1>2, <2>1, <2>2, RangeFacts
  <2>3. CASE i > Len(s)
    <3>1. i - Len(s) \in 1..Len(t) /\ t[i - Len(s)] = x
      BY <1>2, <2>1, <2>3, RangeFacts
    <3> QED
      BY <3>1, RangeFacts
  <2> QED
    BY <2>1, <2>2, <2>3, RangeFacts
<1>4. ASSUME NEW x \in Range(s)
      PROVE  x \in Range(s \o t)
  <2>1. PICK i \in 1..Len(s) : s[i] = x
    BY RangeFacts
  <2>2. i \in 1..(Len(s) + Len(t)) /\ (s \o t)[i] = x
    BY <1>2, <2>1, RangeFacts
  <2> QED
    BY <1>1, <2>2, RangeFacts
<1>5. ASSUME NEW x \in Range(t)
      PROVE  x \in Range(s \o t)
  <2>1. PICK i \in 1..Len(t) : t[i] = x
    BY RangeFacts
  <2>2. /\ i + Len(s) \in 1..(Len(s) + Len(t))
        /\ ~(i + Len(s) <= Len(s)) /\ (i + Len(s)) - Len(s) = i
    BY RangeFacts
  <2>3. (s \o t)[i + Len(s)] = x
    BY <1>2, <2>1, <2>2
  <2> QED
    BY <1>1, <2>2, <2>3, RangeFacts
<1> QED
  BY <1>3, <1>4, <1>5

(* The head of a queue without repetitions is not in its tail.             *)
LEMMA RangeTail ==
  ASSUME NEW S, NEW s \in Seq(S), s # <<>>
  PROVE  /\ Tail(s) \in Seq(S) /\ Len(Tail(s)) = Len(s) - 1
         /\ Head(s) = s[1] /\ Head(s) \in Range(s)
         /\ \A i \in 1..Len(Tail(s)) : Tail(s)[i] = s[i + 1]
         /\ Range(s) = {Head(s)} \union Range(Tail(s))
<1>1. Len(s) \in Nat /\ Len(s) >= 1 /\ 1 \in 1..Len(s)
  BY EmptySeq, LenProperties
<1>2. /\ Tail(s) \in Seq(S) /\ Len(Tail(s)) = Len(s) - 1
      /\ \A i \in 1..Len(Tail(s)) : Tail(s)[i] = s[i + 1]
  BY HeadTailProperties, <1>1
<1>3. Head(s) = s[1]
  BY <1>1, HeadTailProperties
<1>4. Head(s) \in Range(s)
  BY <1>1, <1>3, RangeFacts
<1>5. ASSUME NEW x \in Range(s)
      PROVE  x = Head(s) \/ x \in Range(Tail(s))
  <2>1. PICK i \in 1..Len(s) : s[i] = x
    BY RangeFacts
  <2>2. CASE i = 1
    BY <2>1, <2>2, <1>3
  <2>3. CASE i # 1
    <3>1. i - 1 \in 1..Len(Tail(s)) /\ Tail(s)[i - 1] = s[(i - 1) + 1]
      BY <1>1, <1>2, <2>3
    <3>2. (i - 1) + 1 = i
      OBVIOUS
    <3> QED
      BY <2>1, <3>1, <3>2, <1>2, RangeFacts
  <2> QED
    BY <2>2, <2>3
<1>6. ASSUME NEW x \in Range(Tail(s))
      PROVE  x \in Range(s)
  <2>1. PICK i \in 1..Len(Tail(s)) : Tail(s)[i] = x
    BY <1>2, RangeFacts
  <2>2. i + 1 \in 1..Len(s) /\ s[i + 1] = x
    BY <1>1, <1>2, <2>1
  <2> QED
    BY <2>2, RangeFacts
<1> QED
  BY <1>2, <1>3, <1>4, <1>5, <1>6

LEMMA InvInit == Init => IInv
<1> SUFFICES ASSUME Init PROVE IInv
  OBVIOUS
<1>1. run = <<>> /\ accepted = <<>> /\ Made = {} /\ DOMAIN accepted = {}
  BY DEF Init, Made
<1>2. TypeInv
  <2>1. Len(run) = 0 /\ Len(accepted) = 0 /\ <<>> \in Seq(RunType)
        /\ <<>> \in Seq([run : Nat, by : SUBSET Listeners])
    BY <1>1, EmptySeq
  <2>2. active \in {0, Len(run)} /\ closeRun \in 0..Len(run)
    BY <2>1 DEF Init
  <2> QED
    BY <1>1, <2>1, <2>2 DEF Init, TypeInv
<1>3. TurnInv /\ CloseInv /\ PlaceInv /\ OriginInv
  BY <1>1 DEF Init, TurnInv, CloseInv, PlaceInv, OriginInv
<1>4. OrderInv /\ IdleInv
  BY <1>1 DEF Init, OrderInv, IdleInv
<1> QED
  BY <1>2, <1>3, <1>4 DEF IInv

-----------------------------------------------------------------------------
(* Steps that move no prompt and end no run                                *)

(* A new run holds and starts none.                                        *)
LEMMA SamePrompts ==
  ASSUME TypeInv, TypeInv', PlaceInv, OriginInv, OrderInv,
         UNCHANGED promptVars,
         Made \subseteq Made',
         \A r \in Made : /\ run'[r].pending = run[r].pending
                         /\ run'[r].prompt = run[r].prompt
                         /\ run[r].at = "done" => run'[r].at = "done",
         \A r \in Made' : r \notin Made =>
             run'[r].pending = <<>> /\ run'[r].prompt = 0,
         overtaken => overtaken',
         ~overtaken' => \A r, s \in Made' :
             r < s /\ run'[r].at = "wait" => run'[r].pending = <<>>
  PROVE  PlaceInv' /\ OriginInv' /\ OrderInv'
<1>1. Range(<<>>) = {}
  BY DEF Range
<1>2. \A r \in Made' : /\ r \in Made => Range(run'[r].pending) = Range(run[r].pending)
                       /\ r \notin Made => Range(run'[r].pending) = {}
  BY <1>1
<1>3. \A r \in Made' : Range(run'[r].pending) # {} => r \in Made
  BY <1>2
<1>4. \A p \in DOMAIN accepted : p # 0
  BY Types
<1>5. \A p \in DOMAIN accepted : Waiting(p)' = Waiting(p) /\ Started(p)' = Started(p)
  <2> SUFFICES ASSUME NEW p \in DOMAIN accepted
               PROVE  Waiting(p)' = Waiting(p) /\ Started(p)' = Started(p)
    OBVIOUS
  <2>1. Waiting(p)' = {r \in Made' : p \in Range(run'[r].pending)}
    BY DEF Waiting
  <2>2. Started(p)' = {r \in Made' : run'[r].prompt = p}
    BY DEF Started
  <2>3. Waiting(p)' = Waiting(p)
    BY <1>2, <2>1 DEF Waiting
  <2>4. Started(p)' = Started(p)
    BY <1>4, <2>2 DEF Started
  <2> QED
    BY <2>3, <2>4
<1>6. accepted' = accepted /\ dropped' = dropped
  BY DEF promptVars
<1>7. PlaceInv'
  BY <1>5, <1>6 DEF PlaceInv
<1>8. \A p \in DOMAIN accepted : accepted[p].run \in Made
  BY DEF TypeInv
<1>9. \A r \in Made : Range(run[r].pending) \subseteq DOMAIN accepted
  BY DEF TypeInv
<1>10. OriginInv'
  BY <1>2, <1>3, <1>6, <1>8, <1>9 DEF OriginInv
<1>11. \A p, q : Comparable(p, q)' => Comparable(p, q)
  BY <1>6 DEF Comparable
<1>12. /\ \A r \in Made' : \A j, k \in DOMAIN run'[r].pending :
              j < k /\ Comparable(run[r].pending[j], run[r].pending[k])' =>
                  run'[r].pending[j] < run'[r].pending[k]
  <2> SUFFICES ASSUME NEW r \in Made', NEW j \in DOMAIN run'[r].pending,
                      NEW k \in DOMAIN run'[r].pending, j < k,
                      Comparable(run[r].pending[j], run[r].pending[k])'
               PROVE  run'[r].pending[j] < run'[r].pending[k]
    OBVIOUS
  <2>1. r \in Made
    <3>1. DOMAIN <<>> = {}
      OBVIOUS
    <3> QED
      BY <3>1
  <2>2. run'[r].pending = run[r].pending
    BY <2>1
  <2>3. Comparable(run[r].pending[j], run[r].pending[k])
    BY <1>6, <2>2 DEF Comparable
  <2> QED
    BY <2>1, <2>2, <2>3 DEF OrderInv
<1>13. \A p \in DOMAIN accepted' : Started(p)' # {} =>
           \A r \in Made' : \A q \in Range(run'[r].pending) :
               Comparable(p, q)' => p < q
  BY <1>2, <1>3, <1>5, <1>6, <1>11 DEF OrderInv
<1>14. \A p, q \in DOMAIN accepted' : p < q /\ Comparable(p, q)' =>
           \A r \in Started(p)', s \in Started(q)' : r < s
  BY <1>5, <1>6, <1>11 DEF OrderInv
<1>15. ~overtaken' => \A r, s \in Made' : r < s =>
           \A p \in Range(run'[s].pending), q \in Range(run'[r].pending) : p < q
  BY <1>2, <1>3 DEF OrderInv
<1> QED
  BY <1>7, <1>10, <1>12, <1>13, <1>14, <1>15 DEF OrderInv

(* A new run has an idle future of its own.                                *)
LEMMA SameIdle ==
  ASSUME TypeInv, TypeInv', IdleInv,
         UNCHANGED <<accepted, idleSet>>,
         Made \subseteq Made',
         \A r \in Made : /\ run'[r].pending = run[r].pending
                         /\ run'[r].prompt = run[r].prompt
                         /\ run'[r].idle = run[r].idle
                         /\ run'[r].inherited = run[r].inherited
                         /\ run[r].at = "done" => run'[r].at = "done",
         \A r \in Made' : r \notin Made =>
             /\ r = Len(run) + 1
             /\ run'[r].pending = <<>> /\ run'[r].prompt = 0
             /\ run'[r].idle = r /\ run'[r].inherited = {}
  PROVE  IdleInv'
<1>1. \A r \in Made' : Carried(r)' = {run'[i].idle : i \in {r} \union run'[r].inherited}
  BY DEF Carried
<1>2. \A r \in Made : Carried(r)' = Carried(r) /\ Carried(r) \subseteq Made
  <2> SUFFICES ASSUME NEW r \in Made
               PROVE  Carried(r)' = Carried(r) /\ Carried(r) \subseteq Made
    OBVIOUS
  <2>1. {r} \union run[r].inherited \subseteq Made
    BY Types
  <2>2. \A i \in Made : run[i].idle \in Made /\ run'[i].idle = run[i].idle
    BY Types
  <2>3. Carried(r)' = {run'[i].idle : i \in {r} \union run[r].inherited}
    BY <1>1
  <2> QED
    BY <2>1, <2>2, <2>3 DEF Carried
<1>3. \A r \in Made' : r \notin Made => Carried(r)' = {Len(run) + 1}
  BY <1>1
<1>4. Len(run) + 1 \notin Made
  BY Types
<1>5. idleSet \subseteq Made
  BY DEF TypeInv
<1>6. \A p \in DOMAIN accepted :
          accepted[p].run \in Made /\ run'[accepted[p].run].idle = run[accepted[p].run].idle
  BY DEF TypeInv
<1>7. Range(<<>>) = {}
  BY DEF Range
<1>8. \A r \in Made' : \A p \in Range(run'[r].pending) :
          run'[accepted'[p].run].idle \in Carried(r)'
  <2>1. \A r \in Made : Range(run[r].pending) \subseteq DOMAIN accepted
    BY Types
  <2> QED
    BY <1>2, <1>6, <1>7, <2>1 DEF IdleInv
<1>9. \A r \in Made' : run'[r].at # "done" =>
          /\ run'[r].prompt # 0 => run'[accepted'[run'[r].prompt].run].idle \in Carried(r)'
          /\ Carried(r)' \intersect idleSet' = {}
  <2>1. \A r \in Made : run[r].prompt # 0 => run[r].prompt \in DOMAIN accepted
    BY Types
  <2> QED
    BY <1>2, <1>3, <1>4, <1>5, <1>6, <2>1 DEF IdleInv
<1>10. \A r, s \in Made' : run'[r].at # "done" /\ run'[s].at # "done" /\ r # s =>
          Carried(r)' \intersect Carried(s)' = {}
  BY <1>2, <1>3, <1>4 DEF IdleInv
<1> QED
  BY <1>8, <1>9, <1>10 DEF IdleInv

(* A new activity is the newest; others wait with it, or none is left.     *)
LEMMA BeginKeeps ==
  ASSUME IInv, NEW kind \in {"dialogue", "compaction", "custom"},
         Begin(kind), ~closing,
         kind # "compaction" => active = 0,
         UNCHANGED <<doneVars, closeVars, promptVars>>,
         submitted' \in Nat,
         overtaken' \in BOOLEAN, overtaken \/ Overtakes => overtaken'
  PROVE  IInv'
<1> DEFINE n == Len(run) + 1
<1>1. TypeInv /\ TurnInv /\ CloseInv /\ PlaceInv /\ OriginInv /\ OrderInv /\ IdleInv
  BY DEF IInv
<1>2. PICK e : /\ e = [NoRun EXCEPT !.kind = kind,
                               !.at = IF kind = "compaction" THEN "wait" ELSE "run",
                               !.task = n, !.idle = n,
                               !.previous = active,
                               !.custom = IF kind = "custom" THEN 1 ELSE 0]
               /\ run' = Append(run, e) /\ active' = n
  BY DEF Begin
<1>3. /\ e.kind = kind /\ e.at = (IF kind = "compaction" THEN "wait" ELSE "run")
      /\ e.task = n /\ e.idle = n /\ e.previous = active
      /\ e.pending = <<>> /\ e.prompt = 0 /\ e.inherited = {}
  BY <1>2 DEF NoRun
<1>4. n \in Nat /\ active \in Nat /\ Len(run) \in Nat /\ Made = 1..Len(run)
  <2>1. active \in Nat /\ Len(run) \in Nat /\ Made = 1..Len(run)
    BY <1>1, Types
  <2> QED
    BY <2>1
<1>5. e \in RunType
  <2>1. <<>> \in Seq(Nat)
    BY EmptySeq
  <2> QED
    BY <1>2, <1>4, <2>1 DEF NoRun, RunType
<1>6. /\ run' \in Seq(RunType) /\ Len(run') = n /\ run'[n] = e
      /\ \A r \in Made : run'[r] = run[r]
  <2>1. run \in Seq(RunType)
    BY <1>1 DEF TypeInv
  <2> QED
    BY <1>2, <1>4, <1>5, <2>1, AppendProperties
<1>7. Made' = Made \union {n} /\ n \notin Made
  <2>1. Made' = 1..n
    BY <1>6, LenProperties DEF Made
  <2> QED
    BY <1>4, <2>1
<1> HIDE DEF n
<1>8. UNCHANGED <<accepted, dropped, idleSet, taskDone, taskFailed, closing,
                  closeRun, closed>>
  BY DEF doneVars, closeVars, promptVars
<1>9. Range(<<>>) = {}
  BY DEF Range
<1>10. TypeInv'
  <2>1. \A r \in Made' :
           /\ run'[r].task \in 1..r
           /\ run'[r].idle \in 1..r
           /\ run'[r].inherited \subseteq Made'
           /\ run'[r].prompt \in 0..Len(accepted')
           /\ Range(run'[r].pending) \subseteq DOMAIN accepted'
    <3> SUFFICES ASSUME NEW r \in Made'
                 PROVE  /\ run'[r].task \in 1..r
                        /\ run'[r].idle \in 1..r
                        /\ run'[r].inherited \subseteq Made'
                        /\ run'[r].prompt \in 0..Len(accepted')
                        /\ Range(run'[r].pending) \subseteq DOMAIN accepted'
      OBVIOUS
    <3>1. CASE r \in Made
      BY <1>1, <1>6, <1>7, <1>8, <3>1, Types
    <3>2. CASE r = n
      <4>1. n \in 1..n
        BY <1>4 DEF n
      <4>2. 0 \in 0..Len(accepted)
        BY <1>1, Types
      <4> QED
        BY <1>3, <1>6, <1>8, <1>9, <3>2, <4>1, <4>2
    <3> QED
      BY <1>7, <3>1, <3>2
  <2>2. closeRun' \in 0..Len(run')
    BY <1>1, <1>4, <1>6, <1>8 DEF TypeInv, n
  <2>3. active' \in {0, Len(run')}
    BY <1>2, <1>6 DEF n
  <2> QED
    BY <1>1, <1>6, <1>7, <1>8, <2>1, <2>2, <2>3 DEF TypeInv
<1>11. TurnInv'
  <2>1. (active' = 0) <=> \A r \in Made' : run'[r].at = "done"
    BY <1>2, <1>3, <1>4, <1>6, <1>7 DEF n
  <2>2. \A r \in Made : r \in 1..Len(run) /\ r < n /\ \A s \in 1..(r - 1) : s \in Made
    BY <1>4 DEF n
  <2>3. \A s \in 1..(n - 1) : s \in Made
    BY <1>4 DEF n
  <2>4. ASSUME NEW r \in Made'
        PROVE  /\ run'[r].at # "wait" => \A s \in 1..(r - 1) : run'[s].at = "done"
               /\ run'[r].at = "wait" =>
                      /\ run'[r].kind = "compaction"
                      /\ run'[r].task = r
                      /\ IF run'[r].previous = 0
                         THEN \A s \in 1..(r - 1) : run'[s].at = "done"
                         ELSE run'[r].previous = r - 1
               /\ run'[r].task \in taskDone' => run'[r].at = "done"
               /\ run'[r].at = "done" => run'[r].pending = <<>>
               /\ run'[r].kind = "custom" =>
                      run'[r].pending = <<>> /\ run'[r].at # "settling"
    <3>1. CASE r \in Made
      BY <1>1, <1>6, <1>8, <2>2, <3>1 DEF TurnInv
    <3>2. CASE r = n
      <4>1. active = 0 => \A s \in 1..(r - 1) : run'[s].at = "done"
        BY <1>1, <1>6, <2>3, <3>2 DEF TurnInv
      <4>2. active # 0 => active = r - 1
        BY <1>1, <1>4, <3>2, Types DEF n
      <4>3. n \notin taskDone
        BY <1>1, <1>7 DEF TypeInv
      <4> QED
        BY <1>3, <1>6, <1>8, <3>2, <4>1, <4>2, <4>3
    <3> QED
      BY <1>7, <3>1, <3>2
  <2> QED
    BY <2>1, <2>4 DEF TurnInv
<1>12. CloseInv'
  BY <1>1, <1>8 DEF CloseInv
<1>13. \A r \in Made : /\ run'[r].pending = run[r].pending
                       /\ run'[r].prompt = run[r].prompt
                       /\ run'[r].idle = run[r].idle
                       /\ run'[r].inherited = run[r].inherited
                       /\ run[r].at = "done" => run'[r].at = "done"
  BY <1>6
<1>14. \A r \in Made' : r \notin Made =>
             /\ r = Len(run) + 1
             /\ run'[r].pending = <<>> /\ run'[r].prompt = 0
             /\ run'[r].idle = r /\ run'[r].inherited = {}
  BY <1>3, <1>6, <1>7 DEF n
<1>15. ~overtaken' => \A r, s \in Made' :
             r < s /\ run'[r].at = "wait" => run'[r].pending = <<>>
  <2> SUFFICES ASSUME ~overtaken', NEW r \in Made', NEW s \in Made', r < s,
                      run'[r].at = "wait"
               PROVE  run'[r].pending = <<>>
    OBVIOUS
  <2>1. CASE r = n
    BY <1>3, <1>6, <2>1
  <2>2. CASE r \in Made /\ s \in Made
    BY <1>1, <1>6, <2>2 DEF OrderInv
  <2>3. CASE r \in Made /\ r # active
    <3>1. active # 0
      BY <1>1, <1>6, <2>3 DEF TurnInv
    <3>2. active \in Made /\ r < active
      BY <1>1, <1>4, <2>3, <3>1, Types
    <3> QED
      BY <1>1, <1>6, <2>3, <3>2 DEF OrderInv
  <2>4. CASE r \in Made /\ r = active
    <3>1. active # 0
      BY <1>4, <2>4
    <3> QED
      BY <1>6, <2>4, <3>1 DEF Overtakes
  <2> QED
    BY <1>7, <2>1, <2>2, <2>3, <2>4
<1>16. PlaceInv' /\ OriginInv' /\ OrderInv'
  BY <1>1, <1>7, <1>10, <1>13, <1>14, <1>15, SamePrompts
<1>17. IdleInv'
  BY <1>1, <1>7, <1>8, <1>10, <1>13, <1>14, SameIdle
<1> QED
  BY <1>10, <1>11, <1>12, <1>16, <1>17 DEF IInv

LEMMA OneChanged ==
  ASSUME TypeInv, NEW r \in Made, NEW e \in RunType,
         run' = [run EXCEPT ![r] = e]
  PROVE  /\ run' \in Seq(RunType) /\ Len(run') = Len(run) /\ Made' = Made
         /\ run'[r] = e
         /\ \A i \in Made : i # r => run'[i] = run[i]
<1>1. run \in Seq(RunType) /\ r \in 1..Len(run)
  BY Types DEF TypeInv
<1>2. run' \in Seq(RunType) /\ Len(run') = Len(run)
  BY <1>1, ExceptSeq
<1>3. Made' = Made
  BY <1>1, <1>2, LenProperties DEF Made
<1> QED
  BY <1>2, <1>3 DEF Made

(* A run goes on without any prompt, waiter or end.                        *)
LEMMA GoesOn ==
  ASSUME IInv, NEW r \in Made, NEW e \in RunType,
         run' = [run EXCEPT ![r] = e],
         UNCHANGED <<active, doneVars, closeVars, promptVars, overtaken>>,
         submitted' \in Nat,
         e.kind = run[r].kind, e.task = run[r].task, e.idle = run[r].idle,
         e.previous = run[r].previous, e.prompt = run[r].prompt,
         e.pending = run[r].pending, e.inherited = run[r].inherited,
         run[r].at = "done" <=> e.at = "done",
         e.at = "wait" => run[r].at = "wait",
         e.at # "wait" => \A s \in 1..(r - 1) : run[s].at = "done",
         e.kind = "custom" => e.at # "settling"
  PROVE  IInv'
<1>1. TypeInv /\ TurnInv /\ CloseInv /\ PlaceInv /\ OriginInv /\ OrderInv /\ IdleInv
  BY DEF IInv
<1>2. /\ run' \in Seq(RunType) /\ Len(run') = Len(run) /\ Made' = Made
      /\ run'[r] = e
      /\ \A i \in Made : i # r => run'[i] = run[i]
  BY <1>1, OneChanged
<1>3. \A i \in Made : /\ run'[i].kind = run[i].kind
                      /\ run'[i].task = run[i].task
                      /\ run'[i].idle = run[i].idle
                      /\ run'[i].previous = run[i].previous
                      /\ run'[i].prompt = run[i].prompt
                      /\ run'[i].pending = run[i].pending
                      /\ run'[i].inherited = run[i].inherited
                      /\ run[i].at = "done" <=> run'[i].at = "done"
                      /\ run'[i].at = "wait" => run[i].at = "wait"
  BY <1>2
<1>4. UNCHANGED <<accepted, dropped, idleSet, taskDone, taskFailed, closing,
                  closeRun, closed, active>>
  BY DEF doneVars, closeVars, promptVars
<1>5. TypeInv'
  BY <1>1, <1>2, <1>3, <1>4 DEF TypeInv
<1>6. TurnInv'
  <2>1. (active' = 0) <=> \A i \in Made' : run'[i].at = "done"
    BY <1>1, <1>2, <1>3, <1>4 DEF TurnInv
  <2>2. \A i \in Made : \A s \in 1..(i - 1) : s \in Made
    BY <1>1, Types
  <2>3. ASSUME NEW i \in Made
        PROVE  /\ run'[i].at # "wait" => \A s \in 1..(i - 1) : run'[s].at = "done"
               /\ run'[i].at = "wait" =>
                      /\ run'[i].kind = "compaction"
                      /\ run'[i].task = i
                      /\ IF run'[i].previous = 0
                         THEN \A s \in 1..(i - 1) : run'[s].at = "done"
                         ELSE run'[i].previous = i - 1
               /\ run'[i].task \in taskDone' => run'[i].at = "done"
               /\ run'[i].at = "done" => run'[i].pending = <<>>
               /\ run'[i].kind = "custom" =>
                      run'[i].pending = <<>> /\ run'[i].at # "settling"
    <3>1. CASE i = r
      BY <1>1, <1>2, <1>3, <1>4, <2>2, <3>1 DEF TurnInv
    <3>2. CASE i # r
      BY <1>1, <1>2, <1>3, <1>4, <2>2, <3>2 DEF TurnInv
    <3> QED
      BY <3>1, <3>2
  <2> QED
    BY <1>2, <2>1, <2>3 DEF TurnInv
<1>7. CloseInv'
  BY <1>1, <1>2, <1>4 DEF CloseInv
<1>8. ~overtaken' => \A i, s \in Made' :
             i < s /\ run'[i].at = "wait" => run'[i].pending = <<>>
  BY <1>1, <1>2, <1>3 DEF OrderInv
<1>9. \A i \in Made' : i \in Made
  BY <1>2
<1>10. PlaceInv' /\ OriginInv' /\ OrderInv'
  BY <1>1, <1>2, <1>3, <1>5, <1>8, <1>9, SamePrompts
<1>11. IdleInv'
  BY <1>1, <1>2, <1>3, <1>4, <1>5, <1>9, SameIdle
<1> QED
  BY <1>5, <1>6, <1>7, <1>10, <1>11 DEF IInv

LEMMA PromptKeeps == IInv /\ Prompt => IInv'
<1> SUFFICES ASSUME IInv, Prompt PROVE IInv'
  OBVIOUS
<1>1. overtaken \in BOOLEAN /\ submitted \in Nat /\ active = 0
  BY DEF IInv, TypeInv, Prompt
<1>2. /\ Begin("dialogue") /\ ~closing
      /\ UNCHANGED <<doneVars, closeVars, promptVars>>
      /\ submitted' = submitted /\ overtaken' = overtaken
  BY DEF Prompt, callVars
<1>3. ~Overtakes
  BY <1>1 DEF Overtakes
<1> QED
  BY <1>1, <1>2, <1>3, BeginKeeps

LEMMA CompactKeeps == IInv /\ Compact => IInv'
<1> SUFFICES ASSUME IInv, Compact PROVE IInv'
  OBVIOUS
<1>1. overtaken \in BOOLEAN /\ submitted \in Nat
  BY DEF IInv, TypeInv
<1>2. /\ Begin("compaction") /\ ~closing
      /\ UNCHANGED <<doneVars, closeVars, promptVars>>
      /\ submitted' = submitted /\ overtaken' = (overtaken \/ Overtakes)
  BY DEF Compact
<1>3. Overtakes \in BOOLEAN
  BY DEF Overtakes
<1>4. overtaken' \in BOOLEAN /\ (overtaken \/ Overtakes => overtaken')
  BY <1>1, <1>2, <1>3
<1>5. submitted' \in Nat
  BY <1>1, <1>2
<1> QED
  BY <1>2, <1>4, <1>5, BeginKeeps

LEMMA SubmitCustomKeeps == IInv /\ SubmitCustom => IInv'
<1> SUFFICES ASSUME IInv, SubmitCustom PROVE IInv'
  OBVIOUS
<1>1. overtaken \in BOOLEAN /\ submitted \in Nat
  BY DEF IInv, TypeInv
<1>2. /\ ~closing /\ UNCHANGED <<doneVars, closeVars, promptVars, overtaken>>
      /\ submitted' = submitted + 1
  BY DEF SubmitCustom
<1>3. submitted' \in Nat
  BY <1>1, <1>2
<1>4. CASE active = 0
  <2>1. Begin("custom")
    BY <1>4 DEF SubmitCustom
  <2>2. ~Overtakes
    BY <1>4 DEF Overtakes
  <2>3. overtaken' = overtaken
    BY <1>2
  <2> QED
    BY <1>1, <1>2, <1>3, <1>4, <2>1, <2>2, <2>3, BeginKeeps
<1>5. CASE active # 0
  <2>1. active \in Made /\ run[active] \in RunType
    BY <1>5, Types DEF IInv
  <2> DEFINE e == [run[active] EXCEPT !.custom = @ + 1]
  <2>2. run' = [run EXCEPT ![active] = e] /\ active' = active
        /\ run[active].kind # "compaction"
    BY <1>5 DEF SubmitCustom
  <2>3. /\ e \in RunType
        /\ e.kind = run[active].kind /\ e.task = run[active].task
        /\ e.idle = run[active].idle /\ e.previous = run[active].previous
        /\ e.prompt = run[active].prompt /\ e.pending = run[active].pending
        /\ e.inherited = run[active].inherited /\ e.at = run[active].at
    <3>1. PICK a \in RunType : a = run[active]
      BY <2>1
    <3>2. a.custom \in Nat /\ a.custom + 1 \in Nat
      BY DEF RunType
    <3>3. e = [a EXCEPT !.custom = a.custom + 1]
      BY <3>1
    <3>4. e \in RunType
      BY <3>2, <3>3 DEF RunType
    <3>5. /\ e.kind = a.kind /\ e.task = a.task /\ e.idle = a.idle
          /\ e.previous = a.previous /\ e.prompt = a.prompt
          /\ e.pending = a.pending /\ e.inherited = a.inherited /\ e.at = a.at
      BY <3>3 DEF RunType
    <3> QED
      BY <3>1, <3>4, <3>5
  <2> HIDE DEF e
  <2>4. /\ e.at # "wait"
        /\ \A s \in 1..(active - 1) : run[s].at = "done"
        /\ e.kind = "custom" => e.at # "settling"
    BY <2>1, <2>2, <2>3 DEF IInv, TurnInv
  <2> QED
    BY <1>2, <1>3, <2>1, <2>2, <2>3, <2>4, GoesOn
<1> QED
  BY <1>4, <1>5

LEMMA StartCompactionKeeps == IInv /\ StartCompaction => IInv'
<1> SUFFICES ASSUME IInv, StartCompaction PROVE IInv'
  OBVIOUS
<1>1. PICK c \in Made : /\ run[c].at = "wait" /\ PreviousDone(c)
                        /\ run' = [run EXCEPT ![c].at = "run"]
                        /\ UNCHANGED <<active, doneVars, closeVars, promptVars,
                                       callVars>>
  BY DEF StartCompaction
<1>2. TypeInv /\ TurnInv /\ run[c] \in RunType /\ submitted \in Nat
  BY Types DEF IInv, TypeInv
<1> DEFINE e == [run[c] EXCEPT !.at = "run"]
<1>3. run' = [run EXCEPT ![c] = e]
  BY <1>1
<1>4. /\ e \in RunType
      /\ e.kind = run[c].kind /\ e.task = run[c].task
      /\ e.idle = run[c].idle /\ e.previous = run[c].previous
      /\ e.prompt = run[c].prompt /\ e.pending = run[c].pending
      /\ e.inherited = run[c].inherited /\ e.at = "run"
  BY <1>2 DEF RunType
<1> HIDE DEF e
<1>5. \A s \in 1..(c - 1) : run[s].at = "done"
  <2>1. CASE run[c].previous = 0
    BY <1>1, <1>2, <2>1 DEF TurnInv
  <2>2. CASE run[c].previous # 0
    <3>1. run[c].previous = c - 1 /\ run[c - 1].task \in taskDone
      BY <1>1, <1>2, <2>2 DEF TurnInv, PreviousDone
    <3>2. c \in Nat /\ (c - 1) \in Nat /\ Made = 1..Len(run) /\ Len(run) \in Nat
      BY <1>2, Types
    <3>3. c - 1 \in Made
      BY <2>2, <3>1, <3>2
    <3>4. run[c - 1].at = "done"
      BY <1>2, <3>1, <3>3 DEF TurnInv
    <3>5. \A s \in 1..((c - 1) - 1) : run[s].at = "done"
      BY <1>2, <3>3, <3>4 DEF TurnInv
    <3> QED
      BY <3>2, <3>4, <3>5
  <2> QED
    BY <2>1, <2>2
<1>6. UNCHANGED <<active, doneVars, closeVars, promptVars, overtaken>>
      /\ submitted' \in Nat
  BY <1>1, <1>2 DEF callVars
<1> QED
  BY <1>1, <1>3, <1>4, <1>5, <1>6, GoesOn

LEMMA EndRunKeeps == IInv /\ EndRun => IInv'
<1> SUFFICES ASSUME IInv, EndRun PROVE IInv'
  OBVIOUS
<1>1. PICK r \in Made : /\ run[r].at = "run"
                        /\ run[r].kind \in {"dialogue", "compaction"}
                        /\ run' = [run EXCEPT ![r].at = "settling", ![r].custom = 0]
                        /\ UNCHANGED <<active, doneVars, closeVars, promptVars,
                                       callVars>>
  BY DEF EndRun
<1>2. TypeInv /\ TurnInv /\ run[r] \in RunType /\ submitted \in Nat
  BY Types DEF IInv, TypeInv
<1> DEFINE e == [run[r] EXCEPT !.at = "settling", !.custom = 0]
<1>3. run' = [run EXCEPT ![r] = e]
  BY <1>1
<1>4. /\ e \in RunType
      /\ e.kind = run[r].kind /\ e.task = run[r].task
      /\ e.idle = run[r].idle /\ e.previous = run[r].previous
      /\ e.prompt = run[r].prompt /\ e.pending = run[r].pending
      /\ e.inherited = run[r].inherited /\ e.at = "settling"
  BY <1>2 DEF RunType
<1> HIDE DEF e
<1>5. \A s \in 1..(r - 1) : run[s].at = "done"
  BY <1>1, <1>2 DEF TurnInv
<1>6. UNCHANGED <<active, doneVars, closeVars, promptVars, overtaken>>
      /\ submitted' \in Nat
  BY <1>1, <1>2 DEF callVars
<1> QED
  BY <1>1, <1>3, <1>4, <1>5, <1>6, GoesOn

(* close() begins to wait, or returns.                                     *)
LEMMA ClosingKeeps == IInv /\ (Close \/ CloseDone) => IInv'
<1> SUFFICES ASSUME IInv, Close \/ CloseDone PROVE IInv'
  OBVIOUS
<1>1. UNCHANGED <<run, active, doneVars, promptVars, callVars>>
  BY DEF Close, CloseDone
<1>2. UNCHANGED <<run, active, accepted, dropped, overtaken, submitted,
                  idleSet, taskDone, taskFailed>>
  BY <1>1 DEF doneVars, promptVars, callVars
<1>3. TypeInv /\ TurnInv /\ CloseInv /\ PlaceInv /\ OriginInv /\ OrderInv /\ IdleInv
  BY DEF IInv
<1>4. Made' = Made
  BY <1>2 DEF Made
<1>5. closing' \in BOOLEAN /\ closed' \in BOOLEAN /\ closeRun' \in 0..Len(run)
  <2>1. CASE Close
    BY <1>3, <2>1, Types DEF Close, TypeInv
  <2>2. CASE CloseDone
    BY <1>3, <2>2 DEF CloseDone, TypeInv
  <2> QED
    BY <2>1, <2>2
<1>6. TypeInv'
  BY <1>2, <1>3, <1>4, <1>5 DEF TypeInv
<1>7. TurnInv'
  BY <1>2, <1>3, <1>4 DEF TurnInv
<1>8. CloseInv'
  <2>1. CASE Close
    BY <1>2, <1>3, <2>1, Types DEF Close, CloseInv
  <2>2. CASE CloseDone
    <3>1. active = 0
      <4>1. CASE closeRun = 0
        BY <1>3, <2>2, <4>1 DEF CloseDone, CloseInv
      <4>2. CASE closeRun # 0
        <5>1. closeRun = Len(run) /\ closeRun \in Made
          BY <1>3, <2>2, <4>2, Types DEF CloseDone, CloseInv, TypeInv
        <5>2. run[closeRun].at = "done"
          BY <1>3, <2>2, <4>2, <5>1 DEF CloseDone, TurnInv
        <5>3. \A s \in 1..(closeRun - 1) : run[s].at = "done"
          BY <1>3, <5>1, <5>2 DEF TurnInv
        <5>4. \A s \in Made : run[s].at = "done"
          BY <1>3, <5>1, <5>2, <5>3, Types
        <5> QED
          BY <1>3, <5>4 DEF TurnInv
      <4> QED
        BY <4>1, <4>2
    <3> QED
      BY <1>2, <1>3, <2>2, <3>1 DEF CloseDone, CloseInv
  <2> QED
    BY <2>1, <2>2
<1>9. \A r \in Made' : r \in Made
  BY <1>4
<1>10. PlaceInv' /\ OriginInv' /\ OrderInv'
  <2>1. ~overtaken' => \A r, s \in Made' :
             r < s /\ run'[r].at = "wait" => run'[r].pending = <<>>
    BY <1>2, <1>3, <1>4 DEF OrderInv
  <2> QED
    BY <1>1, <1>2, <1>3, <1>4, <1>6, <1>9, <2>1, SamePrompts
<1>11. IdleInv'
  BY <1>2, <1>3, <1>4, <1>6, <1>9, SameIdle
<1> QED
  BY <1>6, <1>7, <1>8, <1>10, <1>11 DEF IInv

-----------------------------------------------------------------------------
(* Steps that move prompts                                                 *)

(* Of what executes, and of what waits.                                    *)
LEMMA Turns ==
  ASSUME TypeInv, TurnInv, NEW r \in Made, run[r].at \in {"run", "settling"}
  PROVE  /\ active # 0 /\ active = Len(run) /\ active \in Made
         /\ run[active].at # "done"
         /\ \A s \in Made : s < r => run[s].at = "done" /\ run[s].pending = <<>>
         /\ \A s \in Made : s > r => run[s].at = "wait" /\ run[s].task = s
         /\ \A s \in Made : run[s].task = run[r].task => s <= r
<1>1. Len(run) \in Nat /\ Made = 1..Len(run) /\ r \in Nat /\ r <= Len(run)
  BY Types
<1>2. active # 0 /\ active = Len(run) /\ active \in Made
  BY Types DEF TurnInv
<1>3. \A s \in Made : s < r => run[s].at = "done" /\ run[s].pending = <<>>
  BY <1>1 DEF TurnInv
<1>4. \A s \in Made : s > r => run[s].at = "wait" /\ run[s].task = s
  <2> SUFFICES ASSUME NEW s \in Made, s > r, run[s].at # "wait" PROVE FALSE
    BY DEF TurnInv
  <2>1. r \in 1..(s - 1)
    BY <1>1
  <2> QED
    BY <2>1 DEF TurnInv
<1>5. run[active].at # "done"
  BY <1>1, <1>2, <1>4
<1>6. \A s \in Made : run[s].task = run[r].task => s <= r
  <2>1. run[r].task \in 1..r
    BY Types
  <2> QED
    BY <1>1, <1>4, <2>1
<1> QED
  BY <1>2, <1>3, <1>4, <1>5, <1>6

LEMMA AcceptPromptKeeps == IInv /\ AcceptPrompt => IInv'
<1> SUFFICES ASSUME IInv, AcceptPrompt PROVE IInv'
  OBVIOUS
<1>1. TypeInv /\ TurnInv /\ CloseInv /\ PlaceInv /\ OriginInv /\ OrderInv /\ IdleInv
  BY DEF IInv
<1>2. PICK r \in Made, l \in Listeners :
        /\ ~closing
        /\ run[r].at = "settling"
        /\ accepted' = Append(accepted, [run |-> r,
                                         by |-> run[r].callbacks \union {l}])
        /\ run' = [run EXCEPT ![r].pending = Append(@, Len(accepted'))]
        /\ UNCHANGED <<active, doneVars, closeVars, dropped, callVars>>
  BY DEF AcceptPrompt
<1>3. UNCHANGED <<active, idleSet, taskDone, taskFailed, closing, closeRun, closed,
                  dropped, submitted, overtaken>>
  BY <1>2 DEF doneVars, closeVars, callVars
<1> PICK m : m = Len(accepted) + 1
  OBVIOUS
<1> DEFINE a == [run |-> r, by |-> run[r].callbacks \union {l}]
           AcceptedType == [run : Nat, by : SUBSET Listeners]
<1>4. r \in Nat /\ run[r] \in RunType /\ run[r].pending \in Seq(Nat)
      /\ Len(run) \in Nat /\ Made = 1..Len(run)
      /\ Len(accepted) \in Nat /\ DOMAIN accepted = 1..Len(accepted)
  BY <1>1, Types
<1>5. m \in Nat /\ m \notin DOMAIN accepted /\ \A p \in DOMAIN accepted : p < m
  BY <1>4
<1>6. a \in AcceptedType /\ a.run = r
  BY <1>4 DEF RunType
<1>7. accepted \in Seq(AcceptedType)
  BY <1>1 DEF TypeInv
<1>8. /\ accepted' \in Seq(AcceptedType) /\ Len(accepted') = m
      /\ accepted'[m] = a /\ \A p \in 1..Len(accepted) : accepted'[p] = accepted[p]
  BY <1>2, <1>6, <1>7, AppendProperties
<1>9. DOMAIN accepted' = DOMAIN accepted \union {m}
  <2>1. DOMAIN accepted' = 1..m
    BY <1>8, LenProperties
  <2> QED
    BY <1>4, <2>1
<1> DEFINE q1 == Append(run[r].pending, m)
           e == [run[r] EXCEPT !.pending = q1]
<1>10. /\ q1 \in Seq(Nat) /\ Len(q1) = Len(run[r].pending) + 1
       /\ q1[Len(run[r].pending) + 1] = m
       /\ \A j \in 1..Len(run[r].pending) : q1[j] = run[r].pending[j]
  BY <1>4, <1>5, AppendProperties
<1>11. run' = [run EXCEPT ![r] = e]
  BY <1>2, <1>8
<1>12. /\ e \in RunType /\ e.pending = q1
       /\ e.kind = run[r].kind /\ e.task = run[r].task
       /\ e.idle = run[r].idle /\ e.previous = run[r].previous
       /\ e.prompt = run[r].prompt
       /\ e.inherited = run[r].inherited /\ e.at = run[r].at
  BY <1>4, <1>10 DEF RunType
<1>13. DOMAIN q1 = 1..(Len(run[r].pending) + 1) /\ Len(run[r].pending) \in Nat
  BY <1>4, <1>10, LenProperties
<1>14. Range(q1) = Range(run[r].pending) \union {m}
  <2>1. \A x : x \in Range(q1) <=> \E j \in 1..(Len(run[r].pending) + 1) : q1[j] = x
    BY <1>10, RangeFacts
  <2>2. \A x : x \in Range(run[r].pending) <=>
                   \E j \in 1..Len(run[r].pending) : run[r].pending[j] = x
    BY <1>4, RangeFacts
  <2>3. \A j \in 1..(Len(run[r].pending) + 1) :
            j \in 1..Len(run[r].pending) \/ j = Len(run[r].pending) + 1
    BY <1>13
  <2>4. /\ Len(run[r].pending) + 1 \in 1..(Len(run[r].pending) + 1)
        /\ \A j \in 1..Len(run[r].pending) : j \in 1..(Len(run[r].pending) + 1)
    BY <1>13
  <2>5. \A x : x \in Range(q1) <=> x \in Range(run[r].pending) \/ x = m
    BY <1>10, <2>1, <2>2, <2>3, <2>4
  <2> QED
    BY <2>5
<1>15. q1 # <<>>
  <2>1. DOMAIN <<>> = {} /\ 1 \in DOMAIN q1
    BY <1>13
  <2> QED
    BY <2>1
<1> HIDE DEF a, AcceptedType, q1, e
<1>16. /\ run' \in Seq(RunType) /\ Len(run') = Len(run) /\ Made' = Made
       /\ run'[r] = e
       /\ \A i \in Made : i # r => run'[i] = run[i]
  BY <1>1, <1>11, <1>12, OneChanged
<1>17. \A i \in Made : /\ run'[i].kind = run[i].kind
                       /\ run'[i].at = run[i].at
                       /\ run'[i].task = run[i].task
                       /\ run'[i].idle = run[i].idle
                       /\ run'[i].previous = run[i].previous
                       /\ run'[i].prompt = run[i].prompt
                       /\ run'[i].inherited = run[i].inherited
                       /\ i # r => run'[i].pending = run[i].pending
  BY <1>12, <1>16
<1>18. run'[r].pending = q1
  BY <1>12, <1>16
<1>19. \A i \in Made : Range(run'[i].pending) =
            IF i = r THEN Range(run[r].pending) \union {m} ELSE Range(run[i].pending)
  BY <1>14, <1>17, <1>18
<1>20. \A i \in Made : Range(run[i].pending) \subseteq DOMAIN accepted
  BY <1>1, Types
<1>21. TypeInv'
  <2>1. \A i \in Made' :
           /\ run'[i].task \in 1..i
           /\ run'[i].idle \in 1..i
           /\ run'[i].inherited \subseteq Made'
    BY <1>1, <1>16, <1>17, Types
  <2>2. \A i \in Made' : run'[i].prompt \in 0..Len(accepted')
    <3>1. \A i \in Made : run[i].prompt \in 0..Len(accepted)
      BY <1>1, Types
    <3> QED
      <4>1. \A x \in 0..Len(accepted) : x \in 0..m
        BY <1>4
      <4> QED
        BY <1>8, <1>16, <1>17, <3>1, <4>1
  <2>3. \A i \in Made' : Range(run'[i].pending) \subseteq DOMAIN accepted'
    BY <1>9, <1>16, <1>19, <1>20
  <2>4. \A p \in DOMAIN accepted' : accepted'[p].run \in Made'
    BY <1>1, <1>4, <1>6, <1>8, <1>9, <1>16 DEF TypeInv
  <2>5. accepted' \in Seq([run : Nat, by : SUBSET Listeners])
    BY <1>8 DEF AcceptedType
  <2> QED
    BY <1>1, <1>3, <1>9, <1>16, <2>1, <2>2, <2>3, <2>4, <2>5 DEF TypeInv
<1>22. TurnInv'
  <2>1. \A i \in Made : \A s \in 1..(i - 1) : s \in Made
    BY <1>4
  <2>2. \A i \in Made : run'[i].at = "done" => run'[i].pending = <<>>
    BY <1>1, <1>2, <1>17 DEF TurnInv
  <2>3. \A i \in Made : run'[i].kind = "custom" =>
            run'[i].pending = <<>> /\ run'[i].at # "settling"
    BY <1>1, <1>2, <1>17 DEF TurnInv
  <2>4. (active' = 0) <=> \A i \in Made' : run'[i].at = "done"
    BY <1>1, <1>3, <1>16, <1>17 DEF TurnInv
  <2>5. ASSUME NEW i \in Made
        PROVE  /\ run'[i].at # "wait" => \A s \in 1..(i - 1) : run'[s].at = "done"
               /\ run'[i].at = "wait" =>
                      /\ run'[i].kind = "compaction"
                      /\ run'[i].task = i
                      /\ IF run'[i].previous = 0
                         THEN \A s \in 1..(i - 1) : run'[s].at = "done"
                         ELSE run'[i].previous = i - 1
               /\ run'[i].task \in taskDone' => run'[i].at = "done"
    BY <1>1, <1>3, <1>17, <2>1 DEF TurnInv
  <2> QED
    BY <1>16, <2>2, <2>3, <2>4, <2>5 DEF TurnInv
<1>23. CloseInv'
  BY <1>1, <1>3, <1>16 DEF CloseInv
<1>24. \A p \in DOMAIN accepted :
           Waiting(p)' = Waiting(p) /\ Started(p)' = Started(p) /\ p # m
  BY <1>5, <1>16, <1>17, <1>19 DEF Waiting, Started
<1>25. Waiting(m)' = {r}
  BY <1>5, <1>16, <1>19, <1>20 DEF Waiting
<1>26. Started(m)' = {}
  <2>1. \A i \in Made : run[i].prompt \in 0..Len(accepted)
    BY <1>1, Types
  <2>2. m \notin 0..Len(accepted)
    BY <1>4
  <2> QED
    BY <1>16, <1>17, <2>1, <2>2 DEF Started
<1>27. PlaceInv'
  <2>1. m \notin dropped
    BY <1>1, <1>5 DEF TypeInv
  <2>2. ASSUME NEW p \in DOMAIN accepted'
        PROVE  /\ Waiting(p)' # {} \/ Started(p)' # {} \/ p \in dropped'
               /\ Waiting(p)' # {} => Started(p)' = {} /\ p \notin dropped'
               /\ Started(p)' # {} => p \notin dropped'
               /\ \A i, s \in Waiting(p)' : i = s
               /\ \A i, s \in Started(p)' : i = s
    <3>1. CASE p \in DOMAIN accepted
      BY <1>1, <1>3, <1>24, <3>1 DEF PlaceInv
    <3>2. CASE p = m
      BY <1>3, <1>25, <1>26, <2>1, <3>2
    <3> QED
      BY <1>9, <3>1, <3>2
  <2> QED
    BY <2>2 DEF PlaceInv
<1>28. \A p \in DOMAIN accepted : accepted'[p] = accepted[p] /\ accepted[p].run \in Made
  BY <1>1, <1>4, <1>8 DEF TypeInv
<1>29. accepted'[m].run = r
  BY <1>6, <1>8
<1>30. OriginInv'
  <2>1. ASSUME NEW i \in Made, NEW p \in Range(run'[i].pending)
        PROVE  accepted'[p].run # i => run'[accepted'[p].run].at = "done"
    <3>1. CASE p \in Range(run[i].pending)
      BY <1>1, <1>17, <1>20, <1>28, <3>1 DEF OriginInv
    <3>2. CASE p = m /\ i = r
      BY <1>29, <3>2
    <3> QED
      BY <1>19, <3>1, <3>2
  <2>2. ASSUME NEW i \in Made, NEW p \in Range(run'[i].pending),
               NEW s \in Made, NEW q \in Range(run'[s].pending),
               accepted'[p].run = accepted'[q].run
        PROVE  i = s
    <3>1. CASE p \in Range(run[i].pending) /\ q \in Range(run[s].pending)
      BY <1>1, <1>20, <1>28, <2>2, <3>1 DEF OriginInv
    <3>2. CASE p = m /\ i = r /\ q \in Range(run[s].pending)
      <4>1. q \in DOMAIN accepted /\ accepted[q].run = r
        BY <1>20, <1>28, <1>29, <2>2, <3>2
      <4> QED
        BY <1>1, <1>2, <3>2, <4>1 DEF OriginInv
    <3>3. CASE q = m /\ s = r /\ p \in Range(run[i].pending)
      <4>1. p \in DOMAIN accepted /\ accepted[p].run = r
        BY <1>20, <1>28, <1>29, <2>2, <3>3
      <4> QED
        BY <1>1, <1>2, <3>3, <4>1 DEF OriginInv
    <3>4. CASE i = r /\ s = r
      BY <3>4
    <3> QED
      BY <1>19, <3>1, <3>2, <3>3, <3>4
  <2> QED
    BY <1>16, <2>1, <2>2 DEF OriginInv
<1>31. \A p, q \in DOMAIN accepted : Comparable(p, q)' => Comparable(p, q)
  BY <1>3, <1>28 DEF Comparable
<1>32. ASSUME NEW i \in Made, NEW j \in DOMAIN run'[i].pending,
              NEW k \in DOMAIN run'[i].pending, j < k,
              Comparable(run[i].pending[j], run[i].pending[k])'
       PROVE  run'[i].pending[j] < run'[i].pending[k]
  <2>1. CASE i # r
    <3>1. run'[i].pending = run[i].pending
      BY <1>17, <2>1
    <3>2. run[i].pending[j] \in DOMAIN accepted /\ run[i].pending[k] \in DOMAIN accepted
      BY <1>20, <1>32, <3>1 DEF Range
    <3>3. Comparable(run[i].pending[j], run[i].pending[k])
      BY <1>3, <1>28, <1>32, <3>1, <3>2 DEF Comparable
    <3> QED
      BY <1>1, <1>32, <3>1, <3>3 DEF OrderInv
  <2>2. CASE i = r /\ k = Len(run[r].pending) + 1
    <3>1. j \in 1..Len(run[r].pending)
      BY <1>13, <1>18, <1>32, <2>2
    <3>2. run[r].pending[j] \in DOMAIN accepted
      BY <1>4, <1>20, <3>1, RangeFacts
    <3> QED
      BY <1>5, <1>10, <1>18, <2>2, <3>1, <3>2
  <2>3. CASE i = r /\ k # Len(run[r].pending) + 1
    <3>1. j \in 1..Len(run[r].pending) /\ k \in 1..Len(run[r].pending)
      <4>1. /\ j \in 1..(Len(run[r].pending) + 1) /\ k \in 1..(Len(run[r].pending) + 1)
            /\ j < k /\ k # Len(run[r].pending) + 1
        BY <1>13, <1>18, <1>32, <2>3
      <4> QED
        BY <1>13, <4>1
    <3>2. run'[i].pending[j] = run[r].pending[j] /\ run'[i].pending[k] = run[r].pending[k]
      BY <1>10, <1>18, <2>3, <3>1
    <3>3. run[r].pending[j] \in DOMAIN accepted /\ run[r].pending[k] \in DOMAIN accepted
      BY <1>4, <1>20, <3>1, RangeFacts
    <3>4. Comparable(run[r].pending[j], run[r].pending[k])
      BY <1>3, <1>28, <1>32, <2>3, <3>2, <3>3 DEF Comparable
    <3>5. DOMAIN run[r].pending = 1..Len(run[r].pending)
      BY <1>4, RangeFacts
    <3> QED
      BY <1>1, <1>32, <2>3, <3>1, <3>2, <3>4, <3>5 DEF OrderInv
  <2> QED
    BY <2>1, <2>2, <2>3
<1>33. ASSUME NEW p \in DOMAIN accepted', Started(p)' # {},
              NEW i \in Made, NEW q \in Range(run'[i].pending), Comparable(p, q)'
       PROVE  p < q
  <2>1. p \in DOMAIN accepted
    BY <1>9, <1>26, <1>33
  <2>2. CASE q = m
    BY <1>5, <2>1, <2>2
  <2>3. CASE q # m
    <3>1. q \in Range(run[i].pending) /\ q \in DOMAIN accepted
      BY <1>19, <1>20, <2>3
    <3> QED
      BY <1>1, <1>24, <1>31, <1>33, <2>1, <3>1 DEF OrderInv
  <2> QED
    BY <2>2, <2>3
<1>34. ASSUME NEW p \in DOMAIN accepted', NEW q \in DOMAIN accepted',
              p < q, Comparable(p, q)', NEW i \in Started(p)', NEW s \in Started(q)'
       PROVE  i < s
  <2>1. p \in DOMAIN accepted /\ q \in DOMAIN accepted
    BY <1>9, <1>26, <1>34
  <2> QED
    BY <1>1, <1>24, <1>31, <1>34, <2>1 DEF OrderInv
<1>35. ASSUME ~overtaken', NEW i \in Made, NEW s \in Made, i < s
       PROVE  /\ run'[i].at = "wait" => run'[i].pending = <<>>
              /\ \A p \in Range(run'[s].pending), q \in Range(run'[i].pending) : p < q
  <2>1. run'[i].at = "wait" => run'[i].pending = <<>>
    BY <1>1, <1>2, <1>3, <1>17, <1>35 DEF OrderInv
  <2>2. ASSUME NEW p \in Range(run'[s].pending), NEW q \in Range(run'[i].pending)
        PROVE  p < q
    <3>1. CASE p # m /\ q # m
      <4>1. p \in Range(run[s].pending) /\ q \in Range(run[i].pending)
        BY <1>19, <3>1
      <4> QED
        BY <1>1, <1>3, <1>35, <4>1 DEF OrderInv
    <3>2. CASE q = m
      <4>1. i = r
        BY <1>5, <1>19, <1>20, <3>2
      <4>2. s # r /\ p \in Range(run[s].pending)
        BY <1>4, <1>19, <1>35, <4>1
      <4> QED
        BY <1>5, <1>20, <3>2, <4>2
    <3>3. CASE p = m
      <4>1. s = r
        BY <1>5, <1>19, <1>20, <3>3
      <4>2. run[i].pending = <<>> /\ i # r
        BY <1>1, <1>2, <1>4, <1>35, <4>1, Turns
      <4>3. Range(run[i].pending) = {}
        BY <4>2 DEF Range
      <4> QED
        BY <1>19, <4>2, <4>3
    <3> QED
      BY <3>1, <3>2, <3>3
  <2> QED
    BY <2>1, <2>2
<1>36. OrderInv'
  <2>1. \A i \in Made' : \A j, k \in DOMAIN run'[i].pending :
           j < k /\ Comparable(run[i].pending[j], run[i].pending[k])' =>
               run'[i].pending[j] < run'[i].pending[k]
    BY <1>16, <1>32
  <2>2. \A p \in DOMAIN accepted' : Started(p)' # {} =>
           \A i \in Made' : \A q \in Range(run'[i].pending) :
               Comparable(p, q)' => p < q
    BY <1>16, <1>33
  <2>3. \A p, q \in DOMAIN accepted' : p < q /\ Comparable(p, q)' =>
           \A i \in Started(p)', s \in Started(q)' : i < s
    BY <1>34
  <2>4. ~overtaken' => \A i, s \in Made' : i < s =>
           /\ run'[i].at = "wait" => run'[i].pending = <<>>
           /\ \A p \in Range(run'[s].pending), q \in Range(run'[i].pending) : p < q
    BY <1>16, <1>35
  <2> QED
    BY <2>1, <2>2, <2>3, <2>4 DEF OrderInv
<1>37. \A i \in Made : Carried(i)' = Carried(i)
  <2>1. \A i \in Made : {i} \union run[i].inherited \subseteq Made
    BY <1>1, Types
  <2> QED
    BY <1>17, <2>1 DEF Carried
<1>38. IdleInv'
  <2>1. ASSUME NEW i \in Made, NEW p \in Range(run'[i].pending)
        PROVE  run'[accepted'[p].run].idle \in Carried(i)'
    <3>1. CASE p \in Range(run[i].pending)
      BY <1>1, <1>17, <1>20, <1>28, <1>37, <3>1 DEF IdleInv
    <3>2. CASE p = m /\ i = r
      <4>1. run[r].idle \in Carried(r)
        BY DEF Carried
      <4> QED
        BY <1>17, <1>29, <1>37, <3>2, <4>1
    <3> QED
      BY <1>19, <3>1, <3>2
  <2>2. ASSUME NEW i \in Made, run'[i].at # "done", run'[i].prompt # 0
        PROVE  run'[accepted'[run'[i].prompt].run].idle \in Carried(i)'
    <3>1. run[i].prompt \in DOMAIN accepted /\ run'[i].prompt = run[i].prompt
      BY <1>1, <1>17, <2>2, Types
    <3> QED
      BY <1>1, <1>17, <1>28, <1>37, <2>2, <3>1 DEF IdleInv
  <2>3. \A i \in Made : run'[i].at # "done" =>
               /\ Carried(i)' \intersect idleSet' = {}
               /\ \A s \in Made : run'[s].at # "done" /\ i # s =>
                      Carried(i)' \intersect Carried(s)' = {}
    BY <1>1, <1>3, <1>17, <1>37 DEF IdleInv
  <2> QED
    BY <1>16, <2>1, <2>2, <2>3 DEF IdleInv
<1> QED
  BY <1>21, <1>22, <1>23, <1>27, <1>30, <1>36, <1>38 DEF IInv

(* The live activity waits until what executes is over: it is a compaction *)
(* that superseded it, and takes over its prompts.                         *)
LEMMA HandOverKeeps ==
  ASSUME IInv, NEW r \in Made, run[r].at = "settling", active # r,
         run[r].pending # <<>>,
         HandOver(r), UNCHANGED <<closeVars, callVars>>
  PROVE  IInv'
<1>1. TypeInv /\ TurnInv /\ CloseInv /\ PlaceInv /\ OriginInv /\ OrderInv /\ IdleInv
  BY DEF IInv
<1>2. PICK a \in Made : /\ a = active /\ a = Len(run) /\ a # r /\ run[a].at = "wait"
                        /\ r < a /\ run[a].kind = "compaction"
  <2>1. active \in Made /\ active = Len(run)
    BY <1>1, Turns
  <2>2. r < active
    BY <1>1, <2>1, Types
  <2>3. run[active].at = "wait"
    BY <1>1, <2>1, <2>2, Turns
  <2> QED
    BY <1>1, <2>1, <2>2, <2>3 DEF TurnInv
<1>3. /\ run[r] \in RunType /\ run[a] \in RunType /\ run \in Seq(RunType)
      /\ run[r].pending \in Seq(Nat) /\ run[a].pending \in Seq(Nat)
      /\ Len(run) \in Nat /\ Made = 1..Len(run)
      /\ run[r].inherited \subseteq Made /\ run[a].inherited \subseteq Made
  BY <1>1, Types DEF TypeInv
<1> DEFINE q1 == run[a].pending \o run[r].pending
           h == {r} \union run[r].inherited
           x == [run[a] EXCEPT !.pending = q1,
                               !.inherited = run[a].inherited \union h]
           y == [run[r] EXCEPT !.at = "done", !.pending = <<>>, !.custom = 0,
                               !.transferred = TRUE]
           R == [run EXCEPT ![a] = x, ![r] = y]
<1>4. FinishRun(R, r, FALSE) /\ UNCHANGED <<active, promptVars>>
  BY <1>2 DEF HandOver, Queued, HandedOver, Done, WaitersMove
<1>5. /\ q1 \in Seq(Nat) /\ Len(q1) = Len(run[a].pending) + Len(run[r].pending)
      /\ \A j \in 1..Len(run[a].pending) : q1[j] = run[a].pending[j]
      /\ \A j \in 1..Len(run[r].pending) :
             q1[j + Len(run[a].pending)] = run[r].pending[j]
  <2> DEFINE n == Len(run[a].pending)
             w == Len(run[r].pending)
  <2>1. n \in Nat /\ w \in Nat
    BY <1>3, LenProperties
  <2>2. /\ q1 \in Seq(Nat) /\ Len(q1) = n + w
        /\ \A j \in 1..(n + w) :
               q1[j] = IF j <= n THEN run[a].pending[j] ELSE run[r].pending[j - n]
    BY <1>3, ConcatProperties
  <2> HIDE DEF n, w, q1
  <2>3. \A j \in 1..n : q1[j] = run[a].pending[j]
    BY <2>1, <2>2
  <2>4. \A j \in 1..w : /\ j + n \in 1..(n + w) /\ ~(j + n <= n)
                        /\ (j + n) - n = j
    BY <2>1
  <2>5. \A j \in 1..w : q1[j + n] = run[r].pending[j]
    BY <2>2, <2>4
  <2> QED
    BY <2>2, <2>3, <2>5 DEF n, w
<1>6. Range(q1) = Range(run[a].pending) \union Range(run[r].pending)
  BY <1>3, RangeConcat
<1>7. h \subseteq Made /\ Made \subseteq Nat
  BY <1>3
<1>8. /\ x \in RunType /\ x.kind = "compaction" /\ x.at = "wait"
      /\ x.task = run[a].task /\ x.previous = run[a].previous
      /\ x.idle = run[a].idle /\ x.prompt = run[a].prompt
      /\ x.pending = q1 /\ x.inherited = run[a].inherited \union h
  BY <1>2, <1>3, <1>5, <1>7 DEF RunType
<1>9. /\ y \in RunType /\ y.kind = run[r].kind /\ y.at = "done"
      /\ y.task = run[r].task /\ y.previous = run[r].previous
      /\ y.idle = run[r].idle /\ y.prompt = run[r].prompt
      /\ y.pending = <<>> /\ y.inherited = run[r].inherited
      /\ y.transferred = TRUE
  <2>1. <<>> \in Seq(Nat)
    BY EmptySeq
  <2> QED
    BY <1>3, <2>1 DEF RunType
<1> HIDE DEF q1, h, x, y
<1>10. /\ R \in Seq(RunType) /\ Len(R) = Len(run)
       /\ R[a] = x /\ R[r] = y
       /\ \A i \in Made : i # a /\ i # r => R[i] = run[i]
  <2> DEFINE R1 == [run EXCEPT ![a] = x]
  <2>1. /\ R1 \in Seq(RunType) /\ Len(R1) = Len(run)
        /\ R1[a] = x /\ \A i \in Made : i # a => R1[i] = run[i]
    BY <1>3, <1>8, ExceptSeq
  <2>2. R = [R1 EXCEPT ![r] = y]
    BY <1>2, <1>3
  <2> HIDE DEF R1, R
  <2>3. r \in 1..Len(R1)
    BY <1>3, <2>1
  <2>4. /\ R \in Seq(RunType) /\ Len(R) = Len(R1)
        /\ R[r] = y /\ \A i \in 1..Len(R1) : i # r => R[i] = R1[i]
    BY <1>9, <2>1, <2>2, <2>3, ExceptSeq
  <2> QED
    BY <1>2, <1>3, <2>1, <2>4
<1> HIDE DEF R
<1>11. /\ run' = R /\ idleSet' = idleSet
       /\ taskDone' = taskDone \union {run[r].task} /\ taskFailed' = taskFailed
  BY <1>4, <1>9, <1>10 DEF FinishRun, Released
<1>12. UNCHANGED <<active, accepted, dropped, closing, closeRun, closed,
                   submitted, overtaken>>
  BY <1>4 DEF promptVars, closeVars, callVars
<1>13. Made' = Made /\ Len(run') = Len(run) /\ run' \in Seq(RunType)
  BY <1>3, <1>10, <1>11, LenProperties DEF Made
<1>14. /\ run'[a] = x /\ run'[r] = y
       /\ \A i \in Made : i # a /\ i # r => run'[i] = run[i]
  BY <1>10, <1>11
<1>15. \A i \in Made : /\ run'[i].kind = run[i].kind
                       /\ run'[i].at = IF i = r THEN "done" ELSE run[i].at
                       /\ run'[i].task = run[i].task
                       /\ run'[i].idle = run[i].idle
                       /\ run'[i].previous = run[i].previous
                       /\ run'[i].prompt = run[i].prompt
                       /\ i # a /\ i # r => run'[i].pending = run[i].pending
                       /\ i # a => run'[i].inherited = run[i].inherited
  BY <1>2, <1>8, <1>9, <1>14
<1>16. /\ run'[a].pending = q1 /\ run'[r].pending = <<>>
       /\ run'[a].inherited = run[a].inherited \union h
  BY <1>8, <1>9, <1>14
<1>17. \A i \in Made : Range(run'[i].pending) =
            IF i = r THEN {}
            ELSE IF i = a THEN Range(run[a].pending) \union Range(run[r].pending)
            ELSE Range(run[i].pending)
  <2>1. Range(<<>>) = {}
    BY DEF Range
  <2> QED
    BY <1>2, <1>6, <1>15, <1>16, <2>1
<1>18. \A i \in Made : Range(run[i].pending) \subseteq DOMAIN accepted
  BY <1>1, Types
<1>19. \A p \in DOMAIN accepted : accepted[p].run \in Made
  BY <1>1 DEF TypeInv
<1>20. /\ \A s \in Made : s < r => run[s].at = "done" /\ run[s].pending = <<>>
       /\ \A s \in Made : s > r => run[s].at = "wait"
       /\ \A s \in Made : run[s].task = run[r].task => s <= r
  BY <1>1, Turns
<1>21. TypeInv'
  <2>1. ASSUME NEW i \in Made
        PROVE  /\ run'[i].task \in 1..i
               /\ run'[i].idle \in 1..i
               /\ run'[i].inherited \subseteq Made
               /\ run'[i].prompt \in 0..Len(accepted)
               /\ Range(run'[i].pending) \subseteq DOMAIN accepted
    <3>1. run'[i].inherited \subseteq Made
      BY <1>1, <1>3, <1>7, <1>15, <1>16, Types
    <3>2. Range(run'[i].pending) \subseteq DOMAIN accepted
      BY <1>17, <1>18
    <3> QED
      BY <1>1, <1>15, <3>1, <3>2, Types
  <2>2. taskDone' \subseteq Made
    <3>1. run[r].task \in Made
      BY <1>1, <1>3, Types
    <3> QED
      BY <1>1, <1>11, <3>1 DEF TypeInv
  <2>3. taskFailed' \subseteq taskDone'
    BY <1>1, <1>11 DEF TypeInv
  <2> QED
    BY <1>1, <1>11, <1>12, <1>13, <2>1, <2>2, <2>3 DEF TypeInv
<1>22. TurnInv'
  <2>1. \A i \in Made : \A s \in 1..(i - 1) : s \in Made
    BY <1>3
  <2>2. (active' = 0) <=> \A i \in Made' : run'[i].at = "done"
    BY <1>1, <1>2, <1>12, <1>13, <1>15 DEF TurnInv
  <2>3. ASSUME NEW i \in Made
        PROVE  /\ run'[i].at # "wait" => \A s \in 1..(i - 1) : run'[s].at = "done"
               /\ run'[i].at = "wait" =>
                      /\ run'[i].kind = "compaction"
                      /\ run'[i].task = i
                      /\ IF run'[i].previous = 0
                         THEN \A s \in 1..(i - 1) : run'[s].at = "done"
                         ELSE run'[i].previous = i - 1
    BY <1>1, <1>2, <1>15, <2>1 DEF TurnInv
  <2>4. ASSUME NEW i \in Made, run'[i].task \in taskDone' PROVE run'[i].at = "done"
    <3>1. CASE run[i].task \in taskDone
      BY <1>1, <1>15, <3>1 DEF TurnInv
    <3>2. CASE run[i].task = run[r].task
      BY <1>3, <1>15, <1>20, <3>2
    <3> QED
      BY <1>11, <1>15, <2>4, <3>1, <3>2
  <2>5. ASSUME NEW i \in Made
        PROVE  /\ run'[i].at = "done" => run'[i].pending = <<>>
               /\ run'[i].kind = "custom" =>
                      run'[i].pending = <<>> /\ run'[i].at # "settling"
    BY <1>1, <1>2, <1>15, <1>16 DEF TurnInv
  <2> QED
    BY <1>13, <2>2, <2>3, <2>4, <2>5 DEF TurnInv
<1>23. CloseInv'
  BY <1>1, <1>12, <1>13 DEF CloseInv
<1>24. ASSUME NEW p \in DOMAIN accepted
       PROVE  /\ Started(p)' = Started(p)
              /\ r \in Waiting(p) => Waiting(p)' = {a} /\ Waiting(p) = {r}
              /\ r \notin Waiting(p) => Waiting(p)' = Waiting(p)
  <2>1. Started(p)' = Started(p)
    BY <1>13, <1>15 DEF Started
  <2>2. \A i, s \in Waiting(p) : i = s
    BY <1>1 DEF PlaceInv
  <2>3. \A i : i \in Waiting(p) <=> i \in Made /\ p \in Range(run[i].pending)
    BY DEF Waiting
  <2>4. \A i : i \in Waiting(p)' <=> i \in Made /\ p \in Range(run'[i].pending)
    BY <1>13 DEF Waiting
  <2>5. ASSUME r \in Waiting(p) PROVE Waiting(p)' = {a} /\ Waiting(p) = {r}
    <3>1. Waiting(p) = {r}
      BY <2>2, <2>5
    <3>2. \A i : i \in Waiting(p)' <=> i = a
      BY <1>2, <1>17, <2>3, <2>4, <2>5, <3>1
    <3> QED
      BY <3>1, <3>2
  <2>6. ASSUME r \notin Waiting(p) PROVE Waiting(p)' = Waiting(p)
    <3>1. \A i : i \in Waiting(p)' <=> i \in Waiting(p)
      BY <1>2, <1>17, <2>3, <2>4, <2>6
    <3> QED
      BY <3>1
  <2> QED
    BY <2>1, <2>5, <2>6
<1>25. PlaceInv'
  <2>1. ASSUME NEW p \in DOMAIN accepted
        PROVE  /\ Waiting(p)' # {} \/ Started(p)' # {} \/ p \in dropped'
               /\ Waiting(p)' # {} => Started(p)' = {} /\ p \notin dropped'
               /\ Started(p)' # {} => p \notin dropped'
               /\ \A i, s \in Waiting(p)' : i = s
               /\ \A i, s \in Started(p)' : i = s
    <3>1. Waiting(p)' # {} <=> Waiting(p) # {}
      BY <1>24
    <3>2. \A i, s \in Waiting(p)' : i = s
      BY <1>1, <1>24 DEF PlaceInv
    <3> QED
      BY <1>1, <1>12, <1>24, <3>1, <3>2 DEF PlaceInv
  <2> QED
    BY <1>12, <2>1 DEF PlaceInv
<1>26. \* where what is held now was held before
       ASSUME NEW i \in Made, NEW p \in Range(run'[i].pending)
       PROVE  /\ p \in DOMAIN accepted
              /\ \E o \in Made : p \in Range(run[o].pending)
                                 /\ o \in IF i = a THEN {a, r} ELSE {i}
  <2>1. i # r
    BY <1>17
  <2>2. CASE i = a
    <3>1. p \in Range(run[a].pending) \/ p \in Range(run[r].pending)
      BY <1>2, <1>17, <2>2
    <3>2. a \in Made /\ r \in Made /\ a \in {a, r} /\ r \in {a, r}
      OBVIOUS
    <3> QED
      BY <1>18, <2>2, <3>1, <3>2
  <2>3. CASE i # a
    <3>1. p \in Range(run[i].pending)
      BY <1>17, <2>1, <2>3
    <3> QED
      BY <1>18, <2>3, <3>1
  <2> QED
    BY <2>2, <2>3
<1>27. OriginInv'
  <2>1. ASSUME NEW i \in Made, NEW p \in Range(run'[i].pending), accepted[p].run # i
        PROVE  run'[accepted[p].run].at = "done"
    <3>1. PICK o \in Made : p \in Range(run[o].pending)
                            /\ o \in IF i = a THEN {a, r} ELSE {i}
      BY <1>26
    <3>2. p \in DOMAIN accepted /\ accepted[p].run \in Made
      BY <1>19, <1>26
    <3>3. CASE accepted[p].run = r
      BY <1>15, <3>2, <3>3
    <3>4. CASE accepted[p].run # r
      BY <1>1, <1>15, <2>1, <3>1, <3>2, <3>4 DEF OriginInv
    <3> QED
      BY <3>3, <3>4
  <2>2. ASSUME NEW i \in Made, NEW p \in Range(run'[i].pending),
               NEW s \in Made, NEW q \in Range(run'[s].pending),
               accepted[p].run = accepted[q].run
        PROVE  i = s
    <3>1. PICK o \in Made : p \in Range(run[o].pending)
                            /\ o \in IF i = a THEN {a, r} ELSE {i}
      BY <1>26
    <3>2. PICK u \in Made : q \in Range(run[u].pending)
                            /\ u \in IF s = a THEN {a, r} ELSE {s}
      BY <1>26
    <3>3. o = u
      BY <1>1, <2>2, <3>1, <3>2 DEF OriginInv
    <3>4. i # r /\ s # r
      BY <1>17
    <3> QED
      BY <3>1, <3>2, <3>3, <3>4
  <2> QED
    BY <1>12, <1>13, <2>1, <2>2 DEF OriginInv
<1>28. \A p, q : Comparable(p, q)' <=> Comparable(p, q)
  BY <1>12 DEF Comparable
<1>29. \A s \in Made : s < a => (~overtaken => s = r \/ run[s].pending = <<>>)
  <2>1. \A s \in Made : s < a /\ run[s].at = "wait" /\ ~overtaken => run[s].pending = <<>>
    BY <1>1 DEF OrderInv
  <2> QED
    BY <1>3, <1>20, <2>1
<1>30. ASSUME NEW p \in Range(run[a].pending), NEW q \in Range(run[r].pending),
              Comparable(p, q)
       PROVE  p < q
  <2>1. accepted[p].run # accepted[q].run
    BY <1>1, <1>2 DEF OriginInv
  <2>2. ~overtaken
    BY <1>30, <2>1 DEF Comparable
  <2> QED
    BY <1>1, <1>2, <2>2 DEF OrderInv
<1>31. ASSUME NEW i \in Made, NEW j \in DOMAIN run'[i].pending,
              NEW k \in DOMAIN run'[i].pending, j < k,
              Comparable(run[i].pending[j], run[i].pending[k])'
       PROVE  run'[i].pending[j] < run'[i].pending[k]
  <2>1. CASE i # a
    <3>1. i # r
      <4>1. DOMAIN <<>> = {}
        OBVIOUS
      <4> QED
        BY <1>16, <1>31, <4>1
    <3>2. run'[i].pending = run[i].pending
      BY <1>15, <2>1, <3>1
    <3>3. Comparable(run[i].pending[j], run[i].pending[k])
      BY <1>12, <1>31, <3>2 DEF Comparable
    <3> QED
      BY <1>1, <1>31, <3>2, <3>3 DEF OrderInv
  <2>2. CASE i = a
    <3> DEFINE n == Len(run[a].pending)
               w == Len(run[r].pending)
    <3>1. n \in Nat /\ w \in Nat
      BY <1>3, LenProperties
    <3>2. j \in 1..(n + w) /\ k \in 1..(n + w)
      BY <1>5, <1>16, <1>31, <2>2, LenProperties
    <3>3. Comparable(q1[j], q1[k])
      BY <1>12, <1>16, <1>31, <2>2 DEF Comparable
    <3>4. DOMAIN run[a].pending = 1..n /\ DOMAIN run[r].pending = 1..w
      BY <1>3, LenProperties
    <3>5. \A z \in 1..n : q1[z] = run[a].pending[z]
      BY <1>5
    <3>6. \A z \in 1..w : q1[z + n] = run[r].pending[z]
      BY <1>5
    <3> HIDE DEF n, w
    <3>7. CASE j <= n /\ k <= n
      <4>1. j \in 1..n /\ k \in 1..n
        BY <3>1, <3>2, <3>7
      <4> QED
        BY <1>1, <1>16, <1>31, <2>2, <3>3, <3>4, <3>5, <4>1 DEF OrderInv
    <3>8. CASE j <= n /\ k > n
      <4>1. j \in 1..n /\ (k - n) \in 1..w /\ (k - n) + n = k
        BY <3>1, <3>2, <3>8
      <4>2. q1[j] \in Range(run[a].pending) /\ q1[k] \in Range(run[r].pending)
        BY <3>4, <3>5, <3>6, <4>1 DEF Range
      <4> QED
        BY <1>16, <1>30, <2>2, <3>3, <4>2
    <3>9. CASE j > n
      <4>1. /\ (j - n) \in 1..w /\ (k - n) \in 1..w /\ (j - n) < (k - n)
            /\ (j - n) + n = j /\ (k - n) + n = k
        BY <1>31, <3>1, <3>2, <3>9
      <4>2. q1[j] = run[r].pending[j - n] /\ q1[k] = run[r].pending[k - n]
        BY <3>6, <4>1
      <4> QED
        BY <1>1, <1>16, <2>2, <3>3, <3>4, <4>1, <4>2 DEF OrderInv
    <3> QED
      BY <1>31, <3>1, <3>2, <3>7, <3>8, <3>9
  <2> QED
    BY <2>1, <2>2
<1>32. ASSUME NEW p \in DOMAIN accepted', Started(p)' # {},
              NEW i \in Made, NEW q \in Range(run'[i].pending), Comparable(p, q)'
       PROVE  p < q
  <2>1. PICK o \in Made : q \in Range(run[o].pending)
    BY <1>26
  <2> QED
    BY <1>1, <1>12, <1>24, <1>28, <1>32, <2>1 DEF OrderInv
<1>33. ASSUME NEW p \in DOMAIN accepted', NEW q \in DOMAIN accepted',
              p < q, Comparable(p, q)', NEW i \in Started(p)', NEW s \in Started(q)'
       PROVE  i < s
  BY <1>1, <1>12, <1>24, <1>28, <1>33 DEF OrderInv
<1>34. ASSUME ~overtaken', NEW i \in Made, NEW s \in Made, i < s
       PROVE  /\ run'[i].at = "wait" => run'[i].pending = <<>>
              /\ \A p \in Range(run'[s].pending), q \in Range(run'[i].pending) : p < q
  <2>1. i < a /\ i # a /\ ~overtaken
    BY <1>2, <1>3, <1>12, <1>34
  <2>2. run'[i].pending = <<>>
    BY <1>15, <1>16, <1>29, <2>1
  <2>3. Range(run'[i].pending) = {}
    BY <2>2 DEF Range
  <2> QED
    BY <2>2, <2>3
<1>35. OrderInv'
  <2>1. \A i \in Made' : \A j, k \in DOMAIN run'[i].pending :
           j < k /\ Comparable(run[i].pending[j], run[i].pending[k])' =>
               run'[i].pending[j] < run'[i].pending[k]
    BY <1>13, <1>31
  <2>2. \A p \in DOMAIN accepted' : Started(p)' # {} =>
           \A i \in Made' : \A q \in Range(run'[i].pending) :
               Comparable(p, q)' => p < q
    BY <1>13, <1>32
  <2>3. \A p, q \in DOMAIN accepted' : p < q /\ Comparable(p, q)' =>
           \A i \in Started(p)', s \in Started(q)' : i < s
    BY <1>33
  <2>4. ~overtaken' => \A i, s \in Made' : i < s =>
           /\ run'[i].at = "wait" => run'[i].pending = <<>>
           /\ \A p \in Range(run'[s].pending), q \in Range(run'[i].pending) : p < q
    BY <1>13, <1>34
  <2> QED
    BY <2>1, <2>2, <2>3, <2>4 DEF OrderInv
<1>36. /\ \A i \in Made : i # a => Carried(i)' = Carried(i)
       /\ Carried(a)' = Carried(a) \union Carried(r)
  <2>1. \A i \in Made : {i} \union run[i].inherited \subseteq Made
    BY <1>1, Types
  <2>2. \A i \in Made : i # a => Carried(i)' = Carried(i)
    BY <1>15, <2>1 DEF Carried
  <2>3. Carried(a)' = {run'[i].idle : i \in {a} \union run[a].inherited \union h}
    BY <1>16 DEF Carried
  <2>4. Carried(a)' = {run[i].idle : i \in {a} \union run[a].inherited \union h}
    <3>1. \A i \in {a} \union run[a].inherited \union h : run'[i].idle = run[i].idle
      BY <1>3, <1>7, <1>15
    <3> QED
      BY <2>3, <3>1
  <2> QED
    BY <2>2, <2>4 DEF Carried, h
<1>37. IdleInv'
  <2>1. ASSUME NEW i \in Made, NEW p \in Range(run'[i].pending)
        PROVE  run'[accepted[p].run].idle \in Carried(i)'
    <3>1. PICK o \in Made : p \in Range(run[o].pending)
                            /\ o \in IF i = a THEN {a, r} ELSE {i}
      BY <1>26
    <3>2. accepted[p].run \in Made
      BY <1>19, <1>26
    <3>3. run[accepted[p].run].idle \in Carried(o)
      BY <1>1, <3>1 DEF IdleInv
    <3> QED
      BY <1>15, <1>36, <3>1, <3>2, <3>3
  <2>2. ASSUME NEW i \in Made, run'[i].at # "done"
        PROVE  /\ i # r /\ run[i].at # "done"
               /\ Carried(i)' = IF i = a THEN Carried(a) \union Carried(r) ELSE Carried(i)
    BY <1>15, <1>36, <2>2
  <2>3. run[r].at # "done" /\ run[a].at # "done"
    BY <1>2
  <2>4. ASSUME NEW i \in Made, run'[i].at # "done", run'[i].prompt # 0
        PROVE  run'[accepted[run'[i].prompt].run].idle \in Carried(i)'
    <3>1. run[i].prompt \in DOMAIN accepted /\ run'[i].prompt = run[i].prompt
      BY <1>1, <1>15, <2>4, Types
    <3>2. run[accepted[run[i].prompt].run].idle \in Carried(i)
      BY <1>1, <2>2, <2>4, <3>1 DEF IdleInv
    <3> QED
      BY <1>15, <1>19, <2>2, <2>4, <3>1, <3>2
  <2>5. ASSUME NEW i \in Made, run'[i].at # "done"
        PROVE  Carried(i)' \intersect idleSet = {}
    BY <1>1, <2>2, <2>3, <2>5 DEF IdleInv
  <2>6. ASSUME NEW i \in Made, run'[i].at # "done",
               NEW s \in Made, run'[s].at # "done", i # s
        PROVE  Carried(i)' \intersect Carried(s)' = {}
    <3>1. \A u, v \in Made : run[u].at # "done" /\ run[v].at # "done" /\ u # v =>
              Carried(u) \intersect Carried(v) = {}
      BY <1>1 DEF IdleInv
    <3>2. i # r /\ s # r /\ run[i].at # "done" /\ run[s].at # "done"
      BY <2>2, <2>6
    <3>3. CASE i = a
      <4>1. Carried(a) \intersect Carried(s) = {} /\ Carried(r) \intersect Carried(s) = {}
        BY <2>3, <2>6, <3>1, <3>2, <3>3
      <4> QED
        BY <1>36, <2>6, <3>3, <4>1
    <3>4. CASE s = a
      <4>1. Carried(i) \intersect Carried(a) = {} /\ Carried(i) \intersect Carried(r) = {}
        BY <2>3, <2>6, <3>1, <3>2, <3>4
      <4> QED
        BY <1>36, <2>6, <3>4, <4>1
    <3>5. CASE i # a /\ s # a
      BY <1>36, <2>6, <3>1, <3>2, <3>5
    <3> QED
      BY <3>3, <3>4, <3>5
  <2> QED
    BY <1>11, <1>12, <1>13, <2>1, <2>4, <2>5, <2>6 DEF IdleInv
<1> QED
  BY <1>21, <1>22, <1>23, <1>25, <1>27, <1>35, <1>37 DEF IInv

(* _finish_run changes nothing of a run but the error of its chain.        *)
LEMMA FinishFields ==
  ASSUME NEW R \in Seq(RunType), NEW r \in 1..Len(R), NEW failed \in BOOLEAN,
         FinishRun(R, r, failed)
  PROVE  /\ run' \in Seq(RunType) /\ Len(run') = Len(R)
         /\ \A i \in 1..Len(R) :
                /\ run'[i].kind = R[i].kind
                /\ run'[i].at = R[i].at
                /\ run'[i].task = R[i].task
                /\ run'[i].idle = R[i].idle
                /\ run'[i].previous = R[i].previous
                /\ run'[i].prompt = R[i].prompt
                /\ run'[i].pending = R[i].pending
                /\ run'[i].inherited = R[i].inherited
<1>1. DOMAIN R = 1..Len(R) /\ Len(R) \in Nat
  BY LenProperties
<1>2. \A i \in 1..Len(R) : R[i] \in RunType
  BY ElementOfSeq
<1>3. CASE R[r].transferred
  <2>1. run' = R
    BY <1>3 DEF FinishRun
  <2> QED
    BY <2>1
<1>4. CASE ~R[r].transferred
  <2> DEFINE f(i) == IF i \in R[r].inherited
                     THEN [R[i] EXCEPT !.chainError = failed] ELSE R[i]
  <2>1. run' = [i \in 1..Len(R) |-> f(i)]
    BY <1>1, <1>4 DEF FinishRun
  <2>2. \A i \in 1..Len(R) :
                /\ f(i) \in RunType
                /\ f(i).kind = R[i].kind /\ f(i).at = R[i].at
                /\ f(i).task = R[i].task /\ f(i).idle = R[i].idle
                /\ f(i).previous = R[i].previous /\ f(i).prompt = R[i].prompt
                /\ f(i).pending = R[i].pending /\ f(i).inherited = R[i].inherited
    BY <1>2 DEF RunType
  <2> HIDE DEF f
  <2>3. run' \in Seq(RunType) /\ Len(run') = Len(R)
    BY <1>1, <2>1, <2>2, IsASeq
  <2>4. \A i \in 1..Len(R) : run'[i] = f(i)
    BY <2>1
  <2> QED
    BY <2>2, <2>3, <2>4
<1> QED
  BY <1>3, <1>4

(* A run ends, with what it holds, and the Agent is idle if it was live.   *)
LEMMA ConcludeKeeps ==
  ASSUME IInv, NEW r \in Made, run[r].at \in {"run", "settling"},
         run[r].pending # <<>> => closing,
         Conclude(r), UNCHANGED <<closeVars, callVars>>
  PROVE  IInv'
<1>1. TypeInv /\ TurnInv /\ CloseInv /\ PlaceInv /\ OriginInv /\ OrderInv /\ IdleInv
  BY DEF IInv
<1>2. /\ run[r] \in RunType /\ run \in Seq(RunType) /\ r \in 1..Len(run)
      /\ Len(run) \in Nat /\ Made = 1..Len(run)
      /\ run[r].inherited \subseteq Made
  BY <1>1, Types DEF TypeInv
<1>3. PICK failed \in BOOLEAN : failed = (run[r].pending # <<>>)
  OBVIOUS
<1>4. PICK error \in BOOLEAN :
          error = IF run[r].kind = "compaction" THEN failed ELSE run[r].chainError
  BY <1>2 DEF RunType
<1> DEFINE y == [run[r] EXCEPT !.at = "done", !.pending = <<>>, !.custom = 0,
                               !.chainError = error]
           R == [run EXCEPT ![r] = y]
<1>5. /\ FinishRun(R, r, failed)
      /\ active' = ActiveAfter(r)
      /\ dropped' = dropped \union Range(run[r].pending)
      /\ UNCHANGED accepted
  <2>1. R = [run EXCEPT ![r] =
               [Done(r) EXCEPT !.chainError =
                  IF run[r].kind = "compaction" THEN failed ELSE @]]
    BY <1>4 DEF Done
  <2> HIDE DEF R
  <2> QED
    BY <1>3, <2>1 DEF Conclude
<1>6. /\ y \in RunType /\ y.kind = run[r].kind /\ y.at = "done"
      /\ y.task = run[r].task /\ y.previous = run[r].previous
      /\ y.idle = run[r].idle /\ y.prompt = run[r].prompt
      /\ y.pending = <<>> /\ y.inherited = run[r].inherited
  <2>1. <<>> \in Seq(Nat)
    BY EmptySeq
  <2> QED
    BY <1>2, <1>4, <2>1 DEF RunType
<1> HIDE DEF y
<1>7. /\ R \in Seq(RunType) /\ Len(R) = Len(run)
      /\ R[r] = y
      /\ \A i \in Made : i # r => R[i] = run[i]
  BY <1>2, <1>6, ExceptSeq
<1> HIDE DEF R
<1>8. /\ run' \in Seq(RunType) /\ Len(run') = Len(run)
      /\ \A i \in Made :
             /\ run'[i].kind = R[i].kind
             /\ run'[i].at = R[i].at
             /\ run'[i].task = R[i].task
             /\ run'[i].idle = R[i].idle
             /\ run'[i].previous = R[i].previous
             /\ run'[i].prompt = R[i].prompt
             /\ run'[i].pending = R[i].pending
             /\ run'[i].inherited = R[i].inherited
  BY <1>2, <1>5, <1>7, FinishFields
<1>9. Made' = Made
  BY <1>2, <1>8, LenProperties DEF Made
<1>10. \A i \in Made : /\ run'[i].kind = run[i].kind
                       /\ run'[i].at = IF i = r THEN "done" ELSE run[i].at
                       /\ run'[i].task = run[i].task
                       /\ run'[i].idle = run[i].idle
                       /\ run'[i].previous = run[i].previous
                       /\ run'[i].prompt = run[i].prompt
                       /\ run'[i].pending = IF i = r THEN <<>> ELSE run[i].pending
                       /\ run'[i].inherited = run[i].inherited
  BY <1>6, <1>7, <1>8
<1>11. UNCHANGED <<accepted, closing, closeRun, closed, submitted, overtaken>>
  BY <1>5 DEF closeVars, callVars
<1>12. /\ taskDone' = taskDone \union {run[r].task}
       /\ taskFailed' \subseteq taskFailed \union {run[r].task}
  BY <1>5, <1>6, <1>7 DEF FinishRun
<1>13. /\ active # 0 /\ active = Len(run) /\ active \in Made
       /\ run[active].at # "done"
       /\ \A s \in Made : s < r => run[s].at = "done" /\ run[s].pending = <<>>
       /\ \A s \in Made : s > r => run[s].at = "wait" /\ run[s].task = s
       /\ \A s \in Made : run[s].task = run[r].task => s <= r
  BY <1>1, Turns
<1>14. active' = IF active = r THEN 0 ELSE active
  BY <1>5 DEF ActiveAfter
<1>15. \A i \in Made : /\ Range(run[i].pending) \subseteq DOMAIN accepted
                       /\ Range(run'[i].pending) =
                              IF i = r THEN {} ELSE Range(run[i].pending)
  <2>1. Range(<<>>) = {}
    BY DEF Range
  <2> QED
    BY <1>1, <1>10, <2>1, Types
<1>16. \A p \in DOMAIN accepted : accepted[p].run \in Made
  BY <1>1 DEF TypeInv
<1>17. /\ \A i \in Made : Carried(i)' = Carried(i)
       /\ \E S \in SUBSET Carried(r) : idleSet' = idleSet \union S
       /\ Carried(r) \subseteq Made
  <2>1. \A i \in Made : {i} \union run[i].inherited \subseteq Made
    BY <1>1, Types
  <2>2. \A i \in Made : Carried(i)' = Carried(i)
    BY <1>10, <2>1 DEF Carried
  <2>3. {R[i].idle : i \in {r} \union R[r].inherited} = Carried(r)
    <3>1. R[r].inherited = run[r].inherited
      BY <1>6, <1>7
    <3>2. \A i \in Made : R[i].idle = run[i].idle
      BY <1>6, <1>7
    <3> QED
      BY <2>1, <3>1, <3>2 DEF Carried
  <2>4. Released(R, r) \in SUBSET Carried(r)
    BY <2>3 DEF Released
  <2>5. idleSet' = idleSet \union Released(R, r)
    BY <1>5 DEF FinishRun
  <2>6. Carried(r) \subseteq Made
    <3>1. \A i \in Made : run[i].idle \in Made
      BY <1>1, <1>2, Types
    <3> QED
      BY <2>1, <3>1 DEF Carried
  <2> QED
    BY <2>2, <2>4, <2>5, <2>6
<1>18. TypeInv'
  <2>1. active' \in {0, Len(run')}
    BY <1>8, <1>13, <1>14
  <2>2. \A i \in Made : Range(run'[i].pending) \subseteq DOMAIN accepted
    BY <1>15
  <2>3. run[r].task \in Made
    BY <1>1, <1>2, Types
  <2>4. taskDone' \subseteq Made /\ taskFailed' \subseteq taskDone'
    BY <1>1, <1>12, <2>3 DEF TypeInv
  <2>5. idleSet' \subseteq Made /\ dropped' \subseteq DOMAIN accepted
    BY <1>1, <1>5, <1>15, <1>17 DEF TypeInv
  <2>6. \A i \in Made : /\ run'[i].task \in 1..i
                        /\ run'[i].idle \in 1..i
                        /\ run'[i].inherited \subseteq Made
                        /\ run'[i].prompt \in 0..Len(accepted)
    BY <1>1, <1>10, Types
  <2> QED
    BY <1>1, <1>8, <1>9, <1>11, <2>1, <2>2, <2>4, <2>5, <2>6 DEF TypeInv
<1>19. TurnInv'
  <2>1. \A i \in Made : \A s \in 1..(i - 1) : s \in Made
    BY <1>2
  <2>2. (active' = 0) <=> \A i \in Made : run'[i].at = "done"
    <3>1. CASE active = r
      <4>1. \A i \in Made : i = r \/ i < r
        BY <1>2, <1>13, <3>1
      <4> QED
        BY <1>10, <1>13, <1>14, <3>1, <4>1
    <3>2. CASE active # r
      BY <1>10, <1>13, <1>14, <3>2
    <3> QED
      BY <3>1, <3>2
  <2>3. ASSUME NEW i \in Made
        PROVE  /\ run'[i].at # "wait" => \A s \in 1..(i - 1) : run'[s].at = "done"
               /\ run'[i].at = "wait" =>
                      /\ run'[i].kind = "compaction"
                      /\ run'[i].task = i
                      /\ IF run'[i].previous = 0
                         THEN \A s \in 1..(i - 1) : run'[s].at = "done"
                         ELSE run'[i].previous = i - 1
    BY <1>1, <1>10, <2>1 DEF TurnInv
  <2>4. ASSUME NEW i \in Made, run'[i].task \in taskDone' PROVE run'[i].at = "done"
    <3>1. CASE run[i].task \in taskDone
      BY <1>1, <1>10, <3>1 DEF TurnInv
    <3>2. CASE run[i].task = run[r].task
      BY <1>2, <1>10, <1>13, <3>2
    <3> QED
      BY <1>10, <1>12, <2>4, <3>1, <3>2
  <2>5. ASSUME NEW i \in Made
        PROVE  /\ run'[i].at = "done" => run'[i].pending = <<>>
               /\ run'[i].kind = "custom" =>
                      run'[i].pending = <<>> /\ run'[i].at # "settling"
    BY <1>1, <1>10 DEF TurnInv
  <2> QED
    BY <1>9, <2>2, <2>3, <2>4, <2>5 DEF TurnInv
<1>20. CloseInv'
  <2>1. ~closed /\ (closing => closeRun # 0 /\ closeRun = Len(run))
    BY <1>1, <1>13 DEF CloseInv
  <2>2. dropped' # {} => closing
    <3>1. run[r].pending = <<>> => Range(run[r].pending) = {}
      BY DEF Range
    <3> QED
      BY <1>1, <1>5, <3>1 DEF CloseInv
  <2> QED
    BY <1>8, <1>11, <2>1, <2>2 DEF CloseInv
<1>21. ASSUME NEW p \in DOMAIN accepted
       PROVE  /\ Started(p)' = Started(p)
              /\ r \in Waiting(p) => Waiting(p)' = {} /\ p \in dropped'
              /\ r \notin Waiting(p) => /\ Waiting(p)' = Waiting(p)
                                        /\ p \in dropped' <=> p \in dropped
  <2>1. Started(p)' = Started(p)
    BY <1>9, <1>10 DEF Started
  <2>2. \A i, s \in Waiting(p) : i = s
    BY <1>1 DEF PlaceInv
  <2>3. \A i : i \in Waiting(p) <=> i \in Made /\ p \in Range(run[i].pending)
    BY DEF Waiting
  <2>4. \A i : i \in Waiting(p)' <=> i \in Made /\ p \in Range(run'[i].pending)
    BY <1>9 DEF Waiting
  <2>5. ASSUME r \in Waiting(p) PROVE Waiting(p)' = {} /\ p \in dropped'
    BY <1>5, <1>15, <2>2, <2>3, <2>4, <2>5
  <2>6. ASSUME r \notin Waiting(p)
        PROVE  /\ Waiting(p)' = Waiting(p)
               /\ p \in dropped' <=> p \in dropped
    <3>1. \A i : i \in Waiting(p)' <=> i \in Waiting(p)
      BY <1>15, <2>3, <2>4, <2>6
    <3> QED
      BY <1>5, <2>3, <2>6, <3>1
  <2> QED
    BY <2>1, <2>5, <2>6
<1>22. PlaceInv'
  <2>1. ASSUME NEW p \in DOMAIN accepted
        PROVE  /\ Waiting(p)' # {} \/ Started(p)' # {} \/ p \in dropped'
               /\ Waiting(p)' # {} => Started(p)' = {} /\ p \notin dropped'
               /\ Started(p)' # {} => p \notin dropped'
               /\ \A i, s \in Waiting(p)' : i = s
               /\ \A i, s \in Started(p)' : i = s
    <3>1. CASE r \in Waiting(p)
      BY <1>1, <1>21, <3>1 DEF PlaceInv
    <3>2. CASE r \notin Waiting(p)
      BY <1>1, <1>21, <3>2 DEF PlaceInv
    <3> QED
      BY <3>1, <3>2
  <2> QED
    BY <1>11, <2>1 DEF PlaceInv
<1>23. \A i \in Made : \A p \in Range(run'[i].pending) :
           p \in Range(run[i].pending) /\ p \in DOMAIN accepted
  BY <1>15
<1>24. OriginInv'
  <2>1. ASSUME NEW i \in Made, NEW p \in Range(run'[i].pending), accepted[p].run # i
        PROVE  run'[accepted[p].run].at = "done"
    BY <1>1, <1>10, <1>16, <1>23, <2>1 DEF OriginInv
  <2>2. \A i, s \in Made : \A p \in Range(run'[i].pending) :
            \A q \in Range(run'[s].pending) :
                accepted[p].run = accepted[q].run => i = s
    BY <1>1, <1>23 DEF OriginInv
  <2> QED
    BY <1>9, <1>11, <2>1, <2>2 DEF OriginInv
<1>25. \A p, q : Comparable(p, q)' <=> Comparable(p, q)
  BY <1>11 DEF Comparable
<1>26. OrderInv'
  <2>1. ASSUME NEW i \in Made, NEW j \in DOMAIN run'[i].pending,
               NEW k \in DOMAIN run'[i].pending, j < k,
               Comparable(run[i].pending[j], run[i].pending[k])'
        PROVE  run'[i].pending[j] < run'[i].pending[k]
    <3>1. i # r
      <4>1. DOMAIN <<>> = {}
        OBVIOUS
      <4> QED
        BY <1>10, <2>1, <4>1
    <3>2. run'[i].pending = run[i].pending
      BY <1>10, <3>1
    <3>3. Comparable(run[i].pending[j], run[i].pending[k])
      BY <1>11, <2>1, <3>2 DEF Comparable
    <3> QED
      BY <1>1, <2>1, <3>2, <3>3 DEF OrderInv
  <2>2. \A p \in DOMAIN accepted' : Started(p)' # {} =>
           \A i \in Made' : \A q \in Range(run'[i].pending) :
               Comparable(p, q)' => p < q
    BY <1>1, <1>9, <1>11, <1>21, <1>23, <1>25 DEF OrderInv
  <2>3. \A p, q \in DOMAIN accepted' : p < q /\ Comparable(p, q)' =>
           \A i \in Started(p)', s \in Started(q)' : i < s
    BY <1>1, <1>11, <1>21, <1>25 DEF OrderInv
  <2>4. ~overtaken' => \A i, s \in Made' : i < s =>
           /\ run'[i].at = "wait" => run'[i].pending = <<>>
           /\ \A p \in Range(run'[s].pending), q \in Range(run'[i].pending) : p < q
    BY <1>1, <1>9, <1>10, <1>11, <1>23 DEF OrderInv
  <2>5. \A i \in Made' : \A j, k \in DOMAIN run'[i].pending :
           j < k /\ Comparable(run[i].pending[j], run[i].pending[k])' =>
               run'[i].pending[j] < run'[i].pending[k]
    BY <1>9, <2>1
  <2> QED
    BY <2>2, <2>3, <2>4, <2>5 DEF OrderInv
<1>27. IdleInv'
  <2>1. \A i \in Made : \A p \in Range(run'[i].pending) :
            run'[accepted[p].run].idle \in Carried(i)'
    BY <1>1, <1>10, <1>16, <1>17, <1>23 DEF IdleInv
  <2>2. ASSUME NEW i \in Made, run'[i].at # "done"
        PROVE  i # r /\ run[i].at # "done" /\ Carried(i) \intersect Carried(r) = {}
    <3>1. i # r /\ run[i].at # "done" /\ run[r].at # "done"
      BY <1>10, <2>2
    <3> QED
      BY <1>1, <3>1 DEF IdleInv
  <2>3. ASSUME NEW i \in Made, run'[i].at # "done", run'[i].prompt # 0
        PROVE  run'[accepted[run'[i].prompt].run].idle \in Carried(i)'
    <3>1. run[i].prompt \in DOMAIN accepted /\ run'[i].prompt = run[i].prompt
      BY <1>1, <1>10, <2>3, Types
    <3>2. run[accepted[run[i].prompt].run].idle \in Carried(i)
      BY <1>1, <2>2, <2>3, <3>1 DEF IdleInv
    <3> QED
      BY <1>10, <1>16, <1>17, <3>1, <3>2
  <2>4. ASSUME NEW i \in Made, run'[i].at # "done"
        PROVE  Carried(i)' \intersect idleSet' = {}
    <3>1. Carried(i) \intersect idleSet = {}
      BY <1>1, <2>2, <2>4 DEF IdleInv
    <3> QED
      BY <1>17, <2>2, <2>4, <3>1
  <2>5. \A i, s \in Made : run'[i].at # "done" /\ run'[s].at # "done" /\ i # s =>
            Carried(i)' \intersect Carried(s)' = {}
    BY <1>1, <1>17, <2>2 DEF IdleInv
  <2> QED
    BY <1>9, <1>11, <2>1, <2>3, <2>4, <2>5 DEF IdleInv
<1> QED
  BY <1>18, <1>19, <1>20, <1>22, <1>24, <1>26, <1>27 DEF IInv

(* The live run ends, and the first prompt it holds gets a run of its own, *)
(* in the same task or in one of its own.                                  *)
LEMMA StartNextKeeps ==
  ASSUME IInv, NEW r \in Made, active = r, run[r].at = "settling",
         run[r].pending # <<>>, ~closing,
         NEW t, NEW y \in RunType,
         run' = Append([run EXCEPT ![r] = y], Successor(r, t)),
         active' = Len(run'),
         y.kind = run[r].kind, y.at = "done", y.task = run[r].task,
         y.idle = run[r].idle, y.previous = run[r].previous,
         y.prompt = run[r].prompt, y.pending = <<>>,
         y.inherited = run[r].inherited,
         \/ t = run[r].task /\ taskDone' = taskDone
         \/ t = Len(run) + 1 /\ taskDone' = taskDone \union {run[r].task},
         UNCHANGED <<idleSet, taskFailed, closeVars, promptVars, callVars>>
  PROVE  IInv'
<1>1. TypeInv /\ TurnInv /\ CloseInv /\ PlaceInv /\ OriginInv /\ OrderInv /\ IdleInv
  BY DEF IInv
<1>2. /\ run[r] \in RunType /\ run \in Seq(RunType) /\ r \in 1..Len(run)
      /\ Len(run) \in Nat /\ Made = 1..Len(run) /\ r = Len(run)
      /\ run[r].inherited \subseteq Made /\ run[r].pending \in Seq(Nat)
      /\ run[r].task \in 1..r /\ run[r].idle \in 1..r
      /\ Range(run[r].pending) \subseteq DOMAIN accepted
      /\ DOMAIN accepted = 1..Len(accepted) /\ Len(accepted) \in Nat
  <2>1. r = Len(run)
    BY <1>1, Turns
  <2> QED
    BY <1>1, <2>1, Types DEF TypeInv
<1>3. PICK n : n = Len(run) + 1
  OBVIOUS
<1>4. n \in Nat /\ n \notin Made /\ n = r + 1
  BY <1>2, <1>3
<1>5. PICK h : h = Head(run[r].pending)
  OBVIOUS
<1>6. PICK q1 : q1 = Tail(run[r].pending)
  OBVIOUS
<1>7. /\ q1 \in Seq(Nat) /\ Len(q1) = Len(run[r].pending) - 1
      /\ h = run[r].pending[1] /\ h \in Range(run[r].pending)
      /\ \A i \in 1..Len(q1) : q1[i] = run[r].pending[i + 1]
      /\ Range(run[r].pending) = {h} \union Range(q1)
  BY <1>2, <1>5, <1>6, RangeTail
<1>8. /\ DOMAIN q1 = 1..Len(q1) /\ Len(q1) \in Nat
      /\ DOMAIN run[r].pending = 1..(Len(q1) + 1)
  <2>1. Len(run[r].pending) \in Nat
    BY <1>2, LenProperties
  <2> QED
    BY <1>2, <1>7, <2>1, LenProperties
<1>9. h \in DOMAIN accepted /\ h # 0 /\ h \in Nat
  BY <1>2, <1>7
<1>10. PICK e : e = Successor(r, t)
  OBVIOUS
<1>11. t \in 1..n
  BY <1>2, <1>3
<1>12. /\ e \in RunType /\ e.kind = "dialogue" /\ e.at = "run" /\ e.task = t
       /\ e.idle = run[r].idle /\ e.prompt = h /\ e.pending = q1
       /\ e.inherited = run[r].inherited
  <2>1. e = [kind |-> "dialogue", at |-> "run", task |-> t, previous |-> 0,
             idle |-> run[r].idle, callbacks |-> accepted[h].by,
             prompt |-> h, pending |-> q1,
             inherited |-> run[r].inherited, transferred |-> FALSE,
             chainError |-> FALSE, custom |-> 0]
    BY <1>5, <1>6, <1>10 DEF Successor, NoRun
  <2>2. accepted[h].by \in SUBSET Listeners
    <3>1. accepted[h] \in [run : Nat, by : SUBSET Listeners]
      BY <1>1, <1>2, <1>9, ElementOfSeq DEF TypeInv
    <3> QED
      BY <3>1
  <2>3. t \in Nat /\ run[r].idle \in Nat /\ run[r].inherited \in SUBSET Nat
    BY <1>2, <1>4, <1>11
  <2> QED
    BY <1>7, <1>9, <2>1, <2>2, <2>3 DEF RunType
<1> DEFINE R == [run EXCEPT ![r] = y]
<1>13. /\ R \in Seq(RunType) /\ Len(R) = Len(run)
       /\ R[r] = y
       /\ \A i \in Made : i # r => R[i] = run[i]
  BY <1>2, ExceptSeq
<1>14. run' = Append(R, e)
  BY <1>10
<1> HIDE DEF R
<1>15. /\ run' \in Seq(RunType) /\ Len(run') = n /\ run'[n] = e
       /\ \A i \in Made : run'[i] = R[i]
  BY <1>2, <1>3, <1>12, <1>13, <1>14, AppendProperties
<1>16. Made' = Made \union {n} /\ Made' = 1..n
  <2>1. Made' = 1..n
    BY <1>15, LenProperties DEF Made
  <2> QED
    BY <1>2, <1>4, <2>1
<1>17. \A s \in Made : s # r => run[s].at = "done" /\ run[s].pending = <<>>
  BY <1>1, <1>2, Turns
<1>18. \A i \in Made : /\ run'[i].kind = run[i].kind
                       /\ run'[i].at = "done"
                       /\ run'[i].task = run[i].task
                       /\ run'[i].idle = run[i].idle
                       /\ run'[i].prompt = run[i].prompt
                       /\ run'[i].pending = <<>>
                       /\ run'[i].inherited = run[i].inherited
  BY <1>13, <1>15, <1>17
<1>19. UNCHANGED <<accepted, dropped, idleSet, taskFailed, closing, closeRun,
                   closed, submitted, overtaken>>
  BY DEF closeVars, promptVars, callVars
<1>20. \A i \in Made : Range(run'[i].pending) = {}
  <2>1. Range(<<>>) = {}
    BY DEF Range
  <2> QED
    BY <1>18, <2>1
<1>21. /\ run'[n].kind = "dialogue" /\ run'[n].at = "run" /\ run'[n].task = t
       /\ run'[n].idle = run[r].idle /\ run'[n].prompt = h /\ run'[n].pending = q1
       /\ run'[n].inherited = run[r].inherited
  BY <1>12, <1>15
<1>22. \A p \in DOMAIN accepted : accepted[p].run \in Made
  BY <1>1 DEF TypeInv
<1>23. TypeInv'
  <2>1. ASSUME NEW i \in Made'
        PROVE  /\ run'[i].task \in 1..i
               /\ run'[i].idle \in 1..i
               /\ run'[i].inherited \subseteq Made'
               /\ run'[i].prompt \in 0..Len(accepted)
               /\ Range(run'[i].pending) \subseteq DOMAIN accepted
    <3>1. CASE i \in Made
      BY <1>1, <1>16, <1>18, <1>20, <3>1, Types
    <3>2. CASE i = n
      <4>1. run[r].idle \in 1..n
        BY <1>2, <1>4
      <4>2. h \in 0..Len(accepted)
        BY <1>2, <1>9
      <4>3. Range(q1) \subseteq DOMAIN accepted
        BY <1>2, <1>7
      <4> QED
        BY <1>2, <1>11, <1>16, <1>21, <3>2, <4>1, <4>2, <4>3
    <3> QED
      BY <1>16, <3>1, <3>2
  <2>2. closeRun' \in 0..Len(run')
    BY <1>1, <1>2, <1>4, <1>15, <1>19 DEF TypeInv
  <2>3. taskDone' \subseteq Made' /\ taskFailed' \subseteq taskDone'
    BY <1>1, <1>2, <1>16, <1>19 DEF TypeInv
  <2> QED
    BY <1>1, <1>15, <1>16, <1>19, <2>1, <2>2, <2>3 DEF TypeInv
<1>24. TurnInv'
  <2>1. active' = n /\ n # 0
    BY <1>4, <1>15
  <2>2. run'[n].task \notin taskDone'
    <3>1. run[r].task \notin taskDone
      BY <1>1 DEF TurnInv
    <3>2. n \notin taskDone /\ n # run[r].task
      BY <1>1, <1>2, <1>4 DEF TypeInv
    <3> QED
      BY <1>3, <1>21, <3>1, <3>2
  <2>3. \A i \in Made' : \A s \in 1..(i - 1) : s \in Made
    BY <1>2, <1>4, <1>16
  <2>4. ASSUME NEW i \in Made'
        PROVE  /\ run'[i].at # "wait"
               /\ \A s \in 1..(i - 1) : run'[s].at = "done"
               /\ run'[i].task \in taskDone' => run'[i].at = "done"
               /\ run'[i].at = "done" => run'[i].pending = <<>>
               /\ run'[i].kind = "custom" =>
                      run'[i].pending = <<>> /\ run'[i].at # "settling"
    <3>1. CASE i \in Made
      BY <1>18, <2>3, <3>1
    <3>2. CASE i = n
      BY <1>18, <1>21, <2>2, <2>3, <3>2
    <3> QED
      BY <1>16, <3>1, <3>2
  <2>5. n \in Made' /\ run'[n].at # "done"
    BY <1>16, <1>21
  <2> QED
    BY <2>1, <2>4, <2>5 DEF TurnInv
<1>25. CloseInv'
  BY <1>1, <1>19 DEF CloseInv
<1>26. \A p, q \in Range(run[r].pending) : Comparable(p, q) =>
           \A j, k \in DOMAIN run[r].pending :
               run[r].pending[j] = p /\ run[r].pending[k] = q /\ j < k => p < q
  BY <1>1 DEF OrderInv
<1>27. \* the first prompt is not among those left, and before those it precedes
       ASSUME NEW q \in Range(q1)
       PROVE  q # h /\ (Comparable(h, q) => h < q)
  <2>1. PICK k \in 1..Len(q1) : q1[k] = q
    BY <1>7, RangeFacts
  <2>2. /\ k + 1 \in DOMAIN run[r].pending /\ run[r].pending[k + 1] = q
        /\ 1 \in DOMAIN run[r].pending /\ run[r].pending[1] = h /\ 1 < k + 1
    BY <1>7, <1>8, <2>1
  <2>3. Comparable(h, q) => h < q
    BY <1>7, <1>26, <2>2
  <2>4. q # h
    BY <1>9, <2>3 DEF Comparable
  <2> QED
    BY <2>3, <2>4
<1>28. ASSUME NEW p \in DOMAIN accepted
       PROVE  /\ p = h => /\ Waiting(p) = {r} /\ Started(p) = {} /\ p \notin dropped
                          /\ Waiting(p)' = {} /\ Started(p)' = {n}
              /\ p \in Range(q1) => /\ Waiting(p) = {r} /\ Waiting(p)' = {n}
                                    /\ Started(p)' = Started(p)
              /\ p # h /\ p \notin Range(q1) => /\ Waiting(p) = {} /\ Waiting(p)' = {}
                                                /\ Started(p)' = Started(p)
  <2>1. \A i : i \in Waiting(p) <=> i \in Made /\ p \in Range(run[i].pending)
    BY DEF Waiting
  <2>2. \A i : i \in Waiting(p)' <=> i \in Made' /\ p \in Range(run'[i].pending)
    BY DEF Waiting
  <2>3. \A i \in Made : Range(run[i].pending) # {} => i = r
    <3>1. Range(<<>>) = {}
      BY DEF Range
    <3> QED
      BY <1>17, <3>1
  <2>4. p \in {h} \union Range(q1) => Waiting(p) = {r} /\ Started(p) = {} /\ p \notin dropped
    <3>1. p \in {h} \union Range(q1) => Waiting(p) = {r}
      BY <1>7, <2>1, <2>3
    <3> QED
      BY <1>1, <3>1 DEF PlaceInv
  <2>5. p \notin {h} \union Range(q1) => Waiting(p) = {}
    BY <1>7, <2>1, <2>3
  <2>6. \A i : i \in Waiting(p)' <=> i = n /\ p \in Range(q1)
    BY <1>16, <1>20, <1>21, <2>2
  <2>7. \A i : i \in Started(p) <=> i \in Made /\ run[i].prompt = p
    BY DEF Started
  <2>8. \A i : i \in Started(p)' <=> i \in Started(p) \/ (i = n /\ p = h)
    <3>1. \A i : i \in Started(p)' <=> i \in Made' /\ run'[i].prompt = p
      BY DEF Started
    <3>2. \A i \in Made : i \in Started(p)' <=> i \in Started(p)
      <4>1. \A i \in Made : i \in Made' /\ run'[i].prompt = run[i].prompt
        BY <1>16, <1>18
      <4> QED
        BY <2>7, <3>1, <4>1
    <3>3. n \in Started(p)' <=> p = h
      BY <1>16, <1>21, <3>1
    <3>4. \A i : i \notin Made => i \notin Started(p)
      BY <2>7
    <3>5. \A i : i \notin Made /\ i # n => i \notin Started(p)'
      BY <1>16, <3>1
    <3> QED
      BY <1>4, <3>2, <3>3, <3>4, <3>5
  <2>9. p = h => p \notin Range(q1)
    BY <1>27
  <2>10. p # h => Started(p)' = Started(p)
    BY <2>8
  <2>11. p = h => Started(p)' = {n} /\ Waiting(p)' = {}
    BY <2>4, <2>6, <2>8, <2>9
  <2>12. p \in Range(q1) => Waiting(p)' = {n}
    BY <2>6
  <2>13. p \notin Range(q1) => Waiting(p)' = {}
    BY <2>6
  <2> QED
    BY <2>4, <2>5, <2>9, <2>10, <2>11, <2>12, <2>13
<1>29. PlaceInv'
  <2>1. ASSUME NEW p \in DOMAIN accepted
        PROVE  /\ Waiting(p)' # {} \/ Started(p)' # {} \/ p \in dropped
               /\ Waiting(p)' # {} => Started(p)' = {} /\ p \notin dropped
               /\ Started(p)' # {} => p \notin dropped
               /\ \A i, s \in Waiting(p)' : i = s
               /\ \A i, s \in Started(p)' : i = s
    <3>1. CASE p = h
      BY <1>28, <3>1
    <3>2. CASE p \in Range(q1)
      <4>1. Waiting(p) = {r} /\ Waiting(p)' = {n} /\ Started(p)' = Started(p)
        BY <1>28, <3>2
      <4>2. Started(p) = {} /\ p \notin dropped
        BY <1>1, <4>1 DEF PlaceInv
      <4> QED
        BY <4>1, <4>2
    <3>3. CASE p # h /\ p \notin Range(q1)
      BY <1>1, <1>28, <3>3 DEF PlaceInv
    <3> QED
      BY <3>1, <3>2, <3>3
  <2> QED
    BY <1>19, <2>1 DEF PlaceInv
<1>30. \A i \in Made' : \A p \in Range(run'[i].pending) :
           i = n /\ p \in Range(q1) /\ p \in Range(run[r].pending) /\ p \in DOMAIN accepted
  BY <1>2, <1>7, <1>16, <1>20, <1>21
<1>31. OriginInv'
  <2>1. \A i \in Made' : \A p \in Range(run'[i].pending) :
            run'[accepted[p].run].at = "done"
    BY <1>18, <1>22, <1>30
  <2>2. \A i, s \in Made' : \A p \in Range(run'[i].pending) :
            \A q \in Range(run'[s].pending) : i = s
    BY <1>30
  <2> QED
    BY <1>19, <2>1, <2>2 DEF OriginInv
<1>32. \A p, q : Comparable(p, q)' <=> Comparable(p, q)
  BY <1>19 DEF Comparable
<1>33. ASSUME NEW i \in Made', NEW j \in DOMAIN run'[i].pending,
              NEW k \in DOMAIN run'[i].pending, j < k,
              Comparable(run[i].pending[j], run[i].pending[k])'
       PROVE  run'[i].pending[j] < run'[i].pending[k]
  <2>1. i = n
    <3>1. DOMAIN <<>> = {}
      OBVIOUS
    <3> QED
      BY <1>16, <1>18, <1>33, <3>1
  <2>2. /\ j \in 1..Len(q1) /\ k \in 1..Len(q1)
        /\ run'[i].pending[j] = q1[j] /\ run'[i].pending[k] = q1[k]
    BY <1>8, <1>21, <1>33, <2>1
  <2>3. Comparable(q1[j], q1[k])
    BY <1>19, <1>33, <2>2 DEF Comparable
  <2>4. /\ j + 1 \in DOMAIN run[r].pending /\ k + 1 \in DOMAIN run[r].pending
        /\ j + 1 < k + 1
        /\ run[r].pending[j + 1] = q1[j] /\ run[r].pending[k + 1] = q1[k]
    <3>1. /\ j + 1 \in 1..(Len(q1) + 1) /\ k + 1 \in 1..(Len(q1) + 1)
          /\ j + 1 < k + 1
      BY <1>8, <1>33, <2>2
    <3> QED
      BY <1>7, <1>8, <2>2, <3>1
  <2>5. Comparable(run[r].pending[j + 1], run[r].pending[k + 1])
    BY <2>3, <2>4
  <2> QED
    BY <1>1, <2>2, <2>4, <2>5 DEF OrderInv
<1>34. ASSUME NEW p \in DOMAIN accepted', Started(p)' # {},
              NEW i \in Made', NEW q \in Range(run'[i].pending), Comparable(p, q)'
       PROVE  p < q
  <2>1. q \in Range(q1) /\ q \in Range(run[r].pending)
    BY <1>30
  <2>2. CASE p = h
    BY <1>27, <1>32, <1>34, <2>1, <2>2
  <2>3. CASE p # h
    <3>1. Started(p) # {}
      BY <1>19, <1>28, <1>34, <2>3
    <3> QED
      BY <1>1, <1>19, <1>32, <1>34, <2>1, <3>1 DEF OrderInv
  <2> QED
    BY <2>2, <2>3
<1>35. \A p, q : Comparable(p, q) => Comparable(q, p)
  BY DEF Comparable
<1>36. ASSUME NEW p \in DOMAIN accepted', NEW q \in DOMAIN accepted',
              p < q, Comparable(p, q)', NEW i \in Started(p)', NEW s \in Started(q)'
       PROVE  i < s
  <2>1. p \in DOMAIN accepted /\ q \in DOMAIN accepted /\ p \in Nat /\ q \in Nat
    BY <1>2, <1>19
  <2>2. CASE q = h
    <3>1. p # h /\ i \in Started(p) /\ s = n
      BY <1>28, <1>36, <2>1, <2>2
    <3>2. i \in Made
      BY <3>1 DEF Started
    <3> QED
      BY <1>2, <1>4, <3>1, <3>2
  <2>3. CASE p = h
    <3>1. q # h /\ s \in Started(q)
      BY <1>28, <1>36, <2>1, <2>3
    <3>2. q < h
      BY <1>1, <1>7, <1>32, <1>35, <1>36, <2>1, <2>3, <3>1 DEF OrderInv
    <3> QED
      BY <1>36, <2>1, <2>3, <3>2
  <2>4. CASE p # h /\ q # h
    <3>1. i \in Started(p) /\ s \in Started(q)
      BY <1>28, <1>36, <2>1, <2>4
    <3> QED
      BY <1>1, <1>32, <1>36, <2>1, <3>1 DEF OrderInv
  <2> QED
    BY <2>2, <2>3, <2>4
<1>37. OrderInv'
  <2>1. \A i \in Made' : \A j, k \in DOMAIN run'[i].pending :
           j < k /\ Comparable(run[i].pending[j], run[i].pending[k])' =>
               run'[i].pending[j] < run'[i].pending[k]
    BY <1>33
  <2>2. \A p \in DOMAIN accepted' : Started(p)' # {} =>
           \A i \in Made' : \A q \in Range(run'[i].pending) :
               Comparable(p, q)' => p < q
    BY <1>34
  <2>3. \A p, q \in DOMAIN accepted' : p < q /\ Comparable(p, q)' =>
           \A i \in Started(p)', s \in Started(q)' : i < s
    BY <1>36
  <2>4. \A i \in Made' : run'[i].at # "wait"
    BY <1>16, <1>18, <1>21
  <2>5. ASSUME NEW i \in Made', NEW s \in Made', i < s
        PROVE  \A p \in Range(run'[s].pending), q \in Range(run'[i].pending) : p < q
    <3>1. i # n
      BY <1>4, <1>16, <2>5
    <3> QED
      BY <1>30, <3>1
  <2> QED
    BY <2>1, <2>2, <2>3, <2>4, <2>5 DEF OrderInv
<1>38. Carried(n)' = Carried(r)
  <2>1. Carried(n)' = {run'[i].idle : i \in {n} \union run[r].inherited}
    BY <1>21 DEF Carried
  <2>2. run'[n].idle = run[r].idle /\ \A i \in Made : run'[i].idle = run[i].idle
    BY <1>18, <1>21
  <2>3. Carried(r) = {run[i].idle : i \in {r} \union run[r].inherited}
    BY DEF Carried
  <2>4. ASSUME NEW x \in Carried(n)' PROVE x \in Carried(r)
    <3>1. PICK i \in {n} \union run[r].inherited : x = run'[i].idle
      BY <2>1
    <3>2. CASE i = n
      BY <2>2, <2>3, <3>1, <3>2
    <3>3. CASE i \in run[r].inherited
      <4>1. x = run[i].idle
        BY <1>2, <2>2, <3>1, <3>3
      <4> QED
        BY <2>3, <3>3, <4>1
    <3> QED
      BY <3>1, <3>2, <3>3
  <2>5. ASSUME NEW x \in Carried(r) PROVE x \in Carried(n)'
    <3>1. PICK i \in {r} \union run[r].inherited : x = run[i].idle
      BY <2>3
    <3>2. CASE i = r
      BY <2>1, <2>2, <3>1, <3>2
    <3>3. CASE i \in run[r].inherited
      <4>1. x = run'[i].idle
        BY <1>2, <2>2, <3>1, <3>3
      <4> QED
        BY <2>1, <3>3, <4>1
    <3> QED
      BY <3>1, <3>2, <3>3
  <2> QED
    BY <2>4, <2>5
<1>39. IdleInv'
  <2>1. ASSUME NEW i \in Made', NEW p \in Range(run'[i].pending)
        PROVE  run'[accepted[p].run].idle \in Carried(i)'
    <3>1. i = n /\ p \in Range(run[r].pending) /\ accepted[p].run \in Made
      BY <1>22, <1>30
    <3>2. run[accepted[p].run].idle \in Carried(r)
      BY <1>1, <3>1 DEF IdleInv
    <3> QED
      BY <1>18, <1>38, <3>1, <3>2
  <2>2. ASSUME NEW i \in Made', run'[i].at # "done" PROVE i = n
    BY <1>16, <1>18, <2>2
  <2>3. run'[accepted[run'[n].prompt].run].idle \in Carried(n)'
    <3>1. run[accepted[h].run].idle \in Carried(r) /\ accepted[h].run \in Made
      BY <1>1, <1>7, <1>9, <1>22 DEF IdleInv
    <3> QED
      BY <1>18, <1>21, <1>38, <3>1
  <2>4. Carried(n)' \intersect idleSet = {}
    BY <1>1, <1>38 DEF IdleInv
  <2> QED
    BY <1>19, <2>1, <2>2, <2>3, <2>4 DEF IdleInv
<1> QED
  BY <1>23, <1>24, <1>25, <1>29, <1>31, <1>37, <1>39 DEF IInv

(* What a run that ends becomes.                                           *)
LEMMA DoneFields ==
  ASSUME NEW r \in Made, run[r] \in RunType,
         NEW y, \/ y = Done(r) \/ y = [Done(r) EXCEPT !.transferred = TRUE]
  PROVE  /\ y \in RunType /\ y.kind = run[r].kind /\ y.at = "done"
         /\ y.task = run[r].task /\ y.idle = run[r].idle
         /\ y.previous = run[r].previous /\ y.prompt = run[r].prompt
         /\ y.pending = <<>> /\ y.inherited = run[r].inherited
<1>1. <<>> \in Seq(Nat)
  BY EmptySeq
<1>2. CASE y = Done(r)
  BY <1>1, <1>2 DEF Done, RunType
<1>3. CASE y = [Done(r) EXCEPT !.transferred = TRUE]
  BY <1>1, <1>3 DEF Done, RunType
<1> QED
  BY <1>2, <1>3

LEMMA FinishDialogueKeeps == IInv /\ FinishDialogue => IInv'
<1> SUFFICES ASSUME IInv, FinishDialogue PROVE IInv'
  OBVIOUS
<1>1. PICK r \in Made :
        /\ run[r].at = "settling" /\ run[r].kind = "dialogue"
        /\ IF active # r
           THEN IF run[r].pending # <<>> THEN HandOver(r) ELSE Conclude(r)
           ELSE IF ~MayStart \/ run[r].pending = <<>> THEN Conclude(r)
           ELSE /\ run' = Append([run EXCEPT ![r] = Done(r)],
                                 Successor(r, run[r].task))
                /\ active' = Len(run')
                /\ UNCHANGED <<doneVars, promptVars>>
        /\ UNCHANGED <<closeVars, callVars>>
  BY DEF FinishDialogue
<1>2. closing \in BOOLEAN /\ run[r] \in RunType /\ run[r].at \in {"run", "settling"}
  BY <1>1, Types DEF IInv, TypeInv
<1>3. CASE active # r /\ run[r].pending # <<>>
  BY <1>1, <1>3, HandOverKeeps
<1>4. CASE run[r].pending = <<>> \/ (active = r /\ closing)
  <2>1. Conclude(r)
    BY <1>1, <1>2, <1>4 DEF MayStart
  <2> QED
    BY <1>1, <1>2, <1>4, <2>1, ConcludeKeeps
<1>5. CASE active = r /\ run[r].pending # <<>> /\ ~closing
  <2>1. /\ run' = Append([run EXCEPT ![r] = Done(r)], Successor(r, run[r].task))
        /\ active' = Len(run')
        /\ UNCHANGED <<doneVars, promptVars>>
    BY <1>1, <1>5 DEF MayStart
  <2>2. PICK y : y = Done(r)
    OBVIOUS
  <2>3. /\ y \in RunType /\ y.kind = run[r].kind /\ y.at = "done"
        /\ y.task = run[r].task /\ y.idle = run[r].idle
        /\ y.previous = run[r].previous /\ y.prompt = run[r].prompt
        /\ y.pending = <<>> /\ y.inherited = run[r].inherited
    BY <1>2, <2>2, DoneFields
  <2>4. PICK t : t = run[r].task
    OBVIOUS
  <2>5. /\ run' = Append([run EXCEPT ![r] = y], Successor(r, t))
        /\ t = run[r].task /\ taskDone' = taskDone
    BY <2>1, <2>2, <2>4 DEF doneVars
  <2>6. UNCHANGED <<idleSet, taskFailed, closeVars, promptVars, callVars>>
    BY <1>1, <2>1 DEF doneVars
  <2> QED
    BY <1>1, <1>5, <2>1, <2>3, <2>5, <2>6, StartNextKeeps
<1> QED
  BY <1>2, <1>3, <1>4, <1>5

LEMMA FinishCompactionKeeps == IInv /\ FinishCompaction => IInv'
<1> SUFFICES ASSUME IInv, FinishCompaction PROVE IInv'
  OBVIOUS
<1>1. PICK c \in Made :
        /\ run[c].at = "settling" /\ run[c].kind = "compaction"
        /\ IF run[c].pending = <<>> \/ ~MayStart THEN Conclude(c)
           ELSE IF active # c THEN HandOver(c)
           ELSE /\ FinishRun(Append([run EXCEPT
                        ![c] = [Done(c) EXCEPT !.transferred = TRUE]],
                        Successor(c, Len(run) + 1)), c, FALSE)
                /\ active' = Len(run')
                /\ UNCHANGED promptVars
        /\ UNCHANGED <<closeVars, callVars>>
  BY DEF FinishCompaction
<1>2. /\ closing \in BOOLEAN /\ run[c] \in RunType /\ run[c].at \in {"run", "settling"}
      /\ run \in Seq(RunType) /\ c \in 1..Len(run) /\ Len(run) \in Nat
  BY <1>1, Types DEF IInv, TypeInv
<1>3. CASE run[c].pending = <<>> \/ closing
  <2>1. Conclude(c)
    BY <1>1, <1>2, <1>3 DEF MayStart
  <2> QED
    BY <1>1, <1>2, <1>3, <2>1, ConcludeKeeps
<1>4. CASE active # c /\ run[c].pending # <<>> /\ ~closing
  <2>1. HandOver(c)
    BY <1>1, <1>4 DEF MayStart
  <2> QED
    BY <1>1, <1>4, <2>1, HandOverKeeps
<1>5. CASE active = c /\ run[c].pending # <<>> /\ ~closing
  <2>1. PICK t : t = Len(run) + 1
    OBVIOUS
  <2>2. PICK y : y = [Done(c) EXCEPT !.transferred = TRUE]
    OBVIOUS
  <2>3. /\ y \in RunType /\ y.kind = run[c].kind /\ y.at = "done"
        /\ y.task = run[c].task /\ y.idle = run[c].idle
        /\ y.previous = run[c].previous /\ y.prompt = run[c].prompt
        /\ y.pending = <<>> /\ y.inherited = run[c].inherited
    BY <1>2, <2>2, DoneFields
  <2>4. y.transferred = TRUE
    BY <1>2, <2>2 DEF Done, RunType
  <2>5. PICK e : e = Successor(c, t)
    OBVIOUS
  <2> DEFINE R1 == [run EXCEPT ![c] = y]
             R == Append(R1, e)
  <2>6. /\ FinishRun(R, c, FALSE)
        /\ active' = Len(run') /\ UNCHANGED promptVars
    BY <1>1, <1>5, <2>1, <2>2, <2>5 DEF MayStart
  <2>7. R[c] = y
    <3>1. R1 \in Seq(RunType) /\ Len(R1) = Len(run) /\ R1[c] = y
      BY <1>2, <2>3, ExceptSeq
    <3> HIDE DEF R1
    <3>2. c \in 1..Len(R1)
      BY <1>2, <3>1
    <3>3. R1 \in Seq(RunType \union {e}) /\ e \in RunType \union {e}
      <4>1. \A i \in 1..Len(R1) : R1[i] \in RunType \union {e}
        BY <3>1, ElementOfSeq
      <4>2. DOMAIN R1 = 1..Len(R1) /\ Len(R1) \in Nat
        BY <3>1, LenProperties
      <4>3. Seq(RunType) \subseteq Seq(RunType \union {e})
        BY <4>1, <4>2, SeqMonotonic
      <4> QED
        BY <3>1, <4>3
    <3>4. R[c] = R1[c]
      BY <3>2, <3>3, AppendProperties
    <3> QED
      BY <3>1, <3>4
  <2> HIDE DEF R
  <2>8. /\ run' = R /\ idleSet' = idleSet
        /\ taskDone' = taskDone \union {run[c].task} /\ taskFailed' = taskFailed
    BY <2>3, <2>4, <2>6, <2>7 DEF FinishRun, Released
  <2>9. /\ run' = Append([run EXCEPT ![c] = y], Successor(c, t))
        /\ t = Len(run) + 1 /\ taskDone' = taskDone \union {run[c].task}
    BY <2>1, <2>5, <2>8 DEF R
  <2>10. UNCHANGED <<idleSet, taskFailed, closeVars, promptVars, callVars>>
    BY <1>1, <2>6, <2>8
  <2> QED
    BY <1>1, <1>5, <2>3, <2>6, <2>9, <2>10, StartNextKeeps
<1> QED
  BY <1>2, <1>3, <1>4, <1>5

LEMMA FinishCustomKeeps == IInv /\ FinishCustom => IInv'
<1> SUFFICES ASSUME IInv, FinishCustom PROVE IInv'
  OBVIOUS
<1>1. PICK r \in Made : /\ run[r].at = "run" /\ run[r].kind = "custom"
                        /\ Conclude(r) /\ UNCHANGED <<closeVars, callVars>>
  BY DEF FinishCustom
<1>2. run[r].pending = <<>>
  BY <1>1 DEF IInv, TurnInv
<1> QED
  BY <1>1, <1>2, ConcludeKeeps

-----------------------------------------------------------------------------
(* The theorems                                                            *)

(* Activities that are not over are the newest, in line; what a listener   *)
(* had accepted is in one place, and its waiters wait with it: an          *)
(* inductive invariant of every instance.                                  *)
THEOREM TurnsAreKept == Spec => []IInv
<1>1. IInv /\ [Next]_vars => IInv'
  <2> SUFFICES ASSUME IInv, [Next]_vars PROVE IInv'
    OBVIOUS
  <2>1. CASE Prompt
    BY <2>1, PromptKeeps
  <2>2. CASE Compact
    BY <2>2, CompactKeeps
  <2>3. CASE SubmitCustom
    BY <2>3, SubmitCustomKeeps
  <2>4. CASE AcceptPrompt
    BY <2>4, AcceptPromptKeeps
  <2>5. CASE Close \/ CloseDone
    BY <2>5, ClosingKeeps
  <2>6. CASE StartCompaction
    BY <2>6, StartCompactionKeeps
  <2>7. CASE EndRun
    BY <2>7, EndRunKeeps
  <2>8. CASE FinishDialogue
    BY <2>8, FinishDialogueKeeps
  <2>9. CASE FinishCompaction
    BY <2>9, FinishCompactionKeeps
  <2>10. CASE FinishCustom
    BY <2>10, FinishCustomKeeps
  <2>11. CASE UNCHANGED vars
    <3>1. UNCHANGED <<run, active, idleSet, taskDone, taskFailed, closing, closeRun,
                      closed, accepted, dropped, submitted, overtaken>>
      BY <2>11 DEF vars, doneVars, closeVars, promptVars, callVars
    <3>2. Made' = Made
      BY <3>1 DEF Made
    <3>3. \A p : Waiting(p)' = Waiting(p) /\ Started(p)' = Started(p)
      BY <3>1, <3>2 DEF Waiting, Started
    <3>4. TypeInv' /\ TurnInv' /\ CloseInv'
      BY <3>1, <3>2 DEF IInv, TypeInv, TurnInv, CloseInv
    <3>5. PlaceInv' /\ OriginInv'
      BY <3>1, <3>2, <3>3 DEF IInv, PlaceInv, OriginInv
    <3>6. OrderInv'
      BY <3>1, <3>2, <3>3 DEF IInv, OrderInv, Comparable
    <3>7. IdleInv'
      <4>1. \A r : Carried(r)' = Carried(r)
        BY <3>1 DEF Carried
      <4> QED
        BY <3>1, <3>2, <4>1 DEF IInv, IdleInv
    <3> QED
      BY <3>4, <3>5, <3>6, <3>7 DEF IInv
  <2> QED
    BY <2>1, <2>2, <2>3, <2>4, <2>5, <2>6, <2>7, <2>8, <2>9, <2>10, <2>11
       DEF Next, Step
<1> QED
  BY InvInit, <1>1, PTL DEF Spec

LEMMA InvInTurn == IInv => ActivitiesInTurn
<1> SUFFICES ASSUME IInv PROVE ActivitiesInTurn
  OBVIOUS
<1>1. TypeInv /\ TurnInv /\ CloseInv /\ PlaceInv /\ OriginInv /\ OrderInv /\ IdleInv
  BY DEF IInv
<1>2. Made = 1..Len(run) /\ Len(run) \in Nat
  BY <1>1, Types
<1>3. TypeOK
  <2>1. \A r \in Made : /\ run[r].task \in Made /\ run[r].idle \in Made
                        /\ run[r].inherited \subseteq Made
                        /\ run[r].at \in {"wait", "run", "settling", "done"}
    BY <1>1, <1>2, Types
  <2>2. active \in {0} \union Made /\ closeRun \in {0} \union Made
    BY <1>1, <1>2, Types DEF TypeInv
  <2> QED
    BY <1>1, <2>1, <2>2 DEF TypeOK, TypeInv
<1>4. OneExecutes
  <2> SUFFICES ASSUME NEW r \in Executing, NEW s \in Executing PROVE r = s
    BY DEF OneExecutes
  <2>1. /\ r \in Made /\ run[r].at \in {"run", "settling"}
        /\ s \in Made /\ run[s].at \in {"run", "settling"}
    BY DEF Executing
  <2>2. ~(s < r) /\ ~(s > r)
    BY <1>1, <2>1, Turns
  <2> QED
    BY <1>2, <2>1, <2>2
<1>5. PromptsStartOnceInOrder
  <2>1. ASSUME NEW p \in DOMAIN accepted
        PROVE  \E place \in PlacesOf(p) : PlacesOf(p) = {place}
    <3>1. CASE Waiting(p) # {}
      <4>1. PICK r \in Waiting(p) : Waiting(p) = {r}
        BY <1>1, <3>1 DEF PlaceInv
      <4>2. Started(p) = {} /\ p \notin dropped
        BY <1>1, <3>1 DEF PlaceInv
      <4>3. PlacesOf(p) = {<<"waits", r>>}
        BY <4>1, <4>2 DEF PlacesOf
      <4> QED
        BY <4>3
    <3>2. CASE Started(p) # {}
      <4>1. PICK r \in Started(p) : Started(p) = {r}
        BY <1>1, <3>2 DEF PlaceInv
      <4>2. Waiting(p) = {} /\ p \notin dropped
        BY <1>1, <3>2 DEF PlaceInv
      <4>3. PlacesOf(p) = {<<"started", r>>}
        BY <4>1, <4>2 DEF PlacesOf
      <4> QED
        BY <4>3
    <3>3. CASE Waiting(p) = {} /\ Started(p) = {}
      <4>1. p \in dropped
        BY <1>1, <3>3 DEF PlaceInv
      <4>2. PlacesOf(p) = {<<"dropped", 0>>}
        BY <3>3, <4>1 DEF PlacesOf
      <4> QED
        BY <4>2
    <3> QED
      BY <3>1, <3>2, <3>3
  <2>2. \A p, q \in DOMAIN accepted : p < q /\ Comparable(p, q) =>
           \A r \in Started(p), s \in Started(q) : r < s
    BY <1>1 DEF OrderInv
  <2>3. dropped # {} => closing
    BY <1>1 DEF CloseInv
  <2> QED
    BY <2>1, <2>2, <2>3 DEF PromptsStartOnceInOrder
<1>6. IdleIncludesChain
  <2> SUFFICES ASSUME NEW p \in DOMAIN accepted,
                      run[accepted[p].run].idle \in idleSet, p \notin dropped
               PROVE  \E r \in Started(p) : run[r].at = "done"
    BY DEF IdleIncludesChain
  <2>1. Waiting(p) = {}
    <3> SUFFICES ASSUME NEW r \in Made, p \in Range(run[r].pending) PROVE FALSE
      BY DEF Waiting
    <3>1. run[r].pending # <<>>
      BY DEF Range
    <3>2. run[r].at # "done"
      BY <1>1, <3>1 DEF TurnInv
    <3> QED
      BY <1>1, <3>2 DEF IdleInv
  <2>2. PICK r \in Started(p) : TRUE
    BY <1>1, <2>1 DEF PlaceInv
  <2>3. r \in Made /\ run[r].prompt = p /\ p # 0
    BY <1>1, <2>2, Types DEF Started
  <2>4. run[r].at = "done"
    BY <1>1, <2>3 DEF IdleInv
  <2> QED
    BY <2>2, <2>4
<1>7. BusyExactly
  <2>1. ASSUME active # 0 PROVE run[active].at # "done"
    <3>1. active = Len(run) /\ active \in Made
      BY <1>1, <2>1, Types
    <3>2. SUFFICES ASSUME run[active].at = "done" PROVE FALSE
      OBVIOUS
    <3>3. \A s \in 1..(active - 1) : run[s].at = "done"
      BY <1>1, <3>1, <3>2 DEF TurnInv
    <3>4. \A s \in Made : run[s].at = "done"
      BY <1>2, <3>1, <3>2, <3>3
    <3> QED
      BY <1>1, <2>1, <3>4 DEF TurnInv
  <2> QED
    BY <1>1, <2>1 DEF BusyExactly, TurnInv
<1>8. ClosedIsQuiet
  BY <1>1 DEF ClosedIsQuiet, CloseInv, TurnInv
<1> QED
  BY <1>3, <1>4, <1>5, <1>6, <1>7, <1>8
     DEF ActivitiesInTurn, PromptsInOrder, IdleIsExact

(* One activity executes at a time; a prompt that a listener was told is   *)
(* accepted starts once and in order, or is stopped by close() alone; and  *)
(* nobody who waits for the Agent is released while such a prompt of the   *)
(* chain is outstanding.                                                   *)
THEOREM ActivitiesTakeTurns == Spec => []ActivitiesInTurn
<1>1. IInv => ActivitiesInTurn
  BY InvInTurn
<1> QED
  BY TurnsAreKept, <1>1, PTL

-----------------------------------------------------------------------------
(* The dialogue's inductive invariant                                      *)

Entries ==
    [type : {"input"}, m : Nat] \union [type : {"assistant"}, calls : Nat, hard : BOOLEAN]
      \union [type : {"result"}, of : Nat, call : Nat]
      \union [type : {"omission"}, target : Nat]
      \union [type : {"compaction"}, kept : Nat]

Spoken == {"input", "assistant"}
AnswersTo(h, i, a) == h[i].type = "result" /\ h[i].of = a
Omits(h, o, i) == h[o].type = "omission" /\ h[o].target = i
OmissionsOnly(h, i, j) == \A k \in i..j : h[k].type = "omission"

(* Results follow their response with nothing in between, a compaction      *)
(* keeps a tail that begins with an input or a response, and a response is *)
(* omitted with its results, in one go that begins with the response.      *)
WellFormed(h) ==
    /\ h \in Seq(Entries)
    /\ \A i \in 1..Len(h) : h[i].type = "result" =>
         /\ h[i].of \in 1..i - 1
         /\ h[h[i].of].type = "assistant"
         /\ \A j \in h[i].of + 1..i : AnswersTo(h, j, h[i].of)
    /\ \A i \in 1..Len(h) : h[i].type = "compaction" =>
         h[i].kept \in 1..i - 1 /\ h[h[i].kept].type \in Spoken
    /\ \A i \in 1..Len(h) : h[i].type = "omission" =>
         /\ h[i].target \in 1..i - 1
         /\ h[h[i].target].type = "result" =>
              \E o \in 1..i - 1 :
                 Omits(h, o, h[h[i].target].of) /\ OmissionsOnly(h, o, i)
         /\ \A r \in 1..Len(h) : AnswersTo(h, r, h[i].target) =>
              \E o \in i + 1..Len(h) : Omits(h, o, r) /\ OmissionsOnly(h, i, o)

(* A response with nothing behind it but its results                       *)
Newest(h, a) ==
    /\ a \in 1..Len(h) /\ h[a].type = "assistant"
    /\ \A i \in a + 1..Len(h) : AnswersTo(h, i, a)

Points ==
    {"idle", "start", "commit", "stream", "tools", "finish", "turned", "prepare",
     "ended", "omit", "wait", "check", "recover", "drain", "failed", "settle"}

FieldsInv ==
    /\ pc \in Points
    /\ attempt \in 0..MaxRetries
    /\ calls \subseteq 1..MaxCalls
    /\ last \in 0..Len(history)
    /\ start \in Nat /\ failing \in Nat /\ delivered \in Nat

FlagsInv == {more, signal, stop, retry, recovered, skip} \subseteq BOOLEAN

(* What the places where the task is suspended say of its variables.       *)
Judged == {"finish", "turned", "ended", "omit", "check"}

PointInv ==
    /\ pc \notin {"start", "commit", "prepare"} => pending = <<>>
    /\ pc = "start" => next = "loop" /\ ~skip
    /\ pc = "prepare" => next = "request"
    /\ pc = "turned" /\ reason \in Failed \union {"length"} => decision = "end"
    /\ pc = "omit" => reason = "error"
    /\ pc \in Judged \union {"tools"} => Newest(history, last)
    /\ pc = "tools" => calls # {} /\ reason # "error"
    /\ pc \in Judged /\ reason = "error" => last = Len(history)

(* Every call of a usable response of this run has its result, or will     *)
(* have it before the next request.                                        *)
Answered(i, c) == \E j \in Places : history[j] = Result(i, c)

CallsInv ==
    pc = "stream" \/ ~signal =>
      \A i \in Places : IsA(i, "assistant") /\ i > start /\ ~history[i].hard =>
        \A c \in 1..history[i].calls :
           Answered(i, c) \/ (pc = "tools" /\ i = last /\ c \in calls)

(* When the recovery compacts, the unusable response and its results have  *)
(* just been omitted.                                                      *)
RecoverInv ==
    pc = "recover" =>
      /\ last \in Places
      /\ \A r \in Places : r = last \/ AnswersTo(history, r, last) =>
           \E o \in Places :
              Omits(history, o, r) /\ OmissionsOnly(history, o, Len(history))

(* Responses without an answer: those before a recovery, and the retries   *)
(* of the present request.                                                 *)
Spent == IF recovered THEN MaxRetries + 1 ELSE 0

CountInv ==
    /\ failing <= Spent + MaxRetries + 1
    /\ pc \in {"idle", "start", "prepare"} => failing = 0
    /\ pc \in {"commit", "stream"} /\ pending = <<>> => failing <= Spent + attempt
    /\ pc \in Judged \union {"tools"} =>
         /\ reason \notin Failed \union {"length"} => failing = 0
         /\ pc # "omit" /\ reason = "error" => failing <= Spent + attempt + 1
    /\ pc \in {"omit", "wait"} => failing <= Spent + attempt
    /\ pc = "recover" => recovered /\ failing <= MaxRetries + 1

(* Where no steering has been taken for the coming request                 *)
NoneDelivered ==
    \/ pc \in Judged \union {"start", "stream", "tools", "wait", "recover", "drain"}
    \/ pc = "commit" /\ next = "loop" /\ ~skip
    \/ pc = "prepare" /\ pending = <<>>

DeliveredInv ==
    /\ Mode = "one-at-a-time" => delivered <= 1
    /\ NoneDelivered => delivered = 0

(* An input is in one place, and before the later ones of its queue.       *)
StageInv ==
    /\ given \in Seq(Queues)
    /\ {steering, followUp, pending} \subseteq Seq(DOMAIN given)
    /\ lost \subseteq DOMAIN given
    /\ InHistory \subseteq 0..Len(given)
    /\ \A m \in Range(steering) : given[m] = "steering"
    /\ \A m \in Range(followUp) : given[m] = "followUp"
    /\ DOMAIN given \subseteq InQueue \union Range(pending) \union InHistory
                                \union lost
    /\ InQueue \intersect (Range(pending) \union InHistory \union lost) = {}
    /\ Range(pending) \intersect (InHistory \union lost) = {}
    /\ InHistory \intersect lost = {}
    /\ KeepTheirOrder

DialogueInv ==
    /\ WellFormed(history) /\ FieldsInv /\ FlagsInv /\ PointInv /\ CallsInv /\ RecoverInv
    /\ CountInv /\ DeliveredInv /\ StageInv

-----------------------------------------------------------------------------
(* The history                                                             *)

LEMMA EntryTypes ==
    ASSUME NEW n \in Nat, NEW k \in Nat
    PROVE  /\ Input(n) \in Entries /\ Input(n).type = "input" /\ Input(n).m = n
           /\ Result(n, k) \in Entries /\ Result(n, k).type = "result"
           /\ Result(n, k).of = n
           /\ Omission(n) \in Entries /\ Omission(n).type = "omission"
           /\ Omission(n).target = n
           /\ Compaction(n) \in Entries /\ Compaction(n).type = "compaction"
           /\ Compaction(n).kept = n
  BY DEF Entries, Input, Result, Omission, Compaction

LEMMA ResponseEntry ==
    ASSUME NEW n \in Nat, NEW hard \in BOOLEAN
    PROVE  \E e \in Entries :
              /\ e = Assistant(n, hard) /\ e.type = "assistant" /\ e.calls = n
              /\ hard => e.hard
<1>1. Assistant(n, hard) \in [type : {"assistant"}, calls : Nat, hard : BOOLEAN]
  BY DEF Assistant
<1>2. /\ Assistant(n, hard).type = "assistant" /\ Assistant(n, hard).calls = n
      /\ hard => Assistant(n, hard).hard
  BY DEF Assistant
<1>3. Assistant(n, hard) \in Entries
  BY <1>1, Zenon DEF Entries
<1> QED
  BY <1>2, <1>3, Zenon

LEMMA HistoryAppended ==
    ASSUME NEW h \in Seq(Entries), NEW e \in Entries
    PROVE  /\ Append(h, e) \in Seq(Entries)
           /\ Len(h) \in Nat /\ Len(Append(h, e)) = Len(h) + 1
           /\ \A i \in 1..Len(h) : Append(h, e)[i] = h[i]
           /\ Append(h, e)[Len(h) + 1] = e
  BY AppendProperties, LenProperties

(* An entry that is neither a result nor an omission                       *)
LEMMA SpokenKeeps ==
    ASSUME NEW h, WellFormed(h), NEW e \in Entries,
           \/ e.type \in Spoken
           \/ /\ e.type = "compaction" /\ e.kept \in 1..Len(h)
              /\ h[e.kept].type \in Spoken
    PROVE  WellFormed(Append(h, e))
<1>1. h \in Seq(Entries)
  BY DEF WellFormed
<1>2. PICK n : n = Len(h)
  OBVIOUS
<1>3. PICK g : g = Append(h, e)
  OBVIOUS
<1>4. /\ n \in Nat /\ Len(g) = n + 1 /\ g \in Seq(Entries)
      /\ \A i \in 1..n : g[i] = h[i]
      /\ g[n + 1] = e
  BY <1>1, <1>2, <1>3, HistoryAppended
<1>5. e.type \notin {"result", "omission"}
  BY DEF Spoken
<1>6. ASSUME NEW i \in 1..Len(g), g[i].type = "result"
      PROVE  /\ g[i].of \in 1..i - 1
             /\ g[g[i].of].type = "assistant"
             /\ \A j \in g[i].of + 1..i : AnswersTo(g, j, g[i].of)
  <2>1. i \in 1..n
    BY <1>4, <1>5, <1>6
  <2>2. PICK a : a = h[i].of
    OBVIOUS
  <2>3. /\ a \in 1..i - 1 /\ h[a].type = "assistant"
        /\ \A j \in a + 1..i : AnswersTo(h, j, a)
    BY <1>2, <1>4, <1>6, <2>1, <2>2 DEF WellFormed
  <2> QED
    BY <1>4, <2>1, <2>2, <2>3 DEF AnswersTo
<1>7. ASSUME NEW i \in 1..Len(g), g[i].type = "compaction"
      PROVE  g[i].kept \in 1..i - 1 /\ g[g[i].kept].type \in Spoken
  <2>1. CASE i \in 1..n
    <3>1. h[i].kept \in 1..i - 1 /\ h[h[i].kept].type \in Spoken
      BY <1>2, <1>4, <1>7, <2>1 DEF WellFormed
    <3> QED
      BY <1>4, <2>1, <3>1
  <2>2. CASE i = n + 1
    BY <1>2, <1>4, <1>7, <2>2 DEF Spoken
  <2> QED
    BY <1>4, <2>1, <2>2
<1>8. ASSUME NEW i \in 1..Len(g), g[i].type = "omission"
      PROVE  /\ g[i].target \in 1..i - 1
             /\ g[g[i].target].type = "result" =>
                  \E o \in 1..i - 1 :
                     Omits(g, o, g[g[i].target].of) /\ OmissionsOnly(g, o, i)
             /\ \A r \in 1..Len(g) : AnswersTo(g, r, g[i].target) =>
                  \E o \in i + 1..Len(g) : Omits(g, o, r) /\ OmissionsOnly(g, i, o)
  <2>1. i \in 1..n /\ h[i].type = "omission"
    BY <1>4, <1>5, <1>8
  <2>2. PICK t : t = h[i].target
    OBVIOUS
  <2>3. t \in 1..i - 1 /\ g[i].target = t /\ g[t] = h[t]
    BY <1>2, <1>4, <2>1, <2>2 DEF WellFormed
  <2>4. ASSUME h[t].type = "result"
        PROVE  \E o \in 1..i - 1 : Omits(g, o, h[t].of) /\ OmissionsOnly(g, o, i)
    <3>1. PICK o \in 1..i - 1 : Omits(h, o, h[t].of) /\ OmissionsOnly(h, o, i)
      BY <1>2, <2>1, <2>2, <2>4 DEF WellFormed
    <3> QED
      BY <1>4, <2>1, <3>1 DEF Omits, OmissionsOnly
  <2>5. ASSUME NEW r \in 1..Len(g), AnswersTo(g, r, t)
        PROVE  \E o \in i + 1..Len(g) : Omits(g, o, r) /\ OmissionsOnly(g, i, o)
    <3>1. r \in 1..n /\ AnswersTo(h, r, t)
      BY <1>4, <1>5, <2>5 DEF AnswersTo
    <3>2. PICK o \in i + 1..n : Omits(h, o, r) /\ OmissionsOnly(h, i, o)
      BY <1>2, <2>1, <2>2, <3>1 DEF WellFormed
    <3> QED
      BY <1>4, <2>1, <3>2 DEF Omits, OmissionsOnly
  <2> QED
    BY <2>3, <2>4, <2>5
<1> QED
  BY <1>3, <1>4, <1>6, <1>7, <1>8 DEF WellFormed

(* A result of the newest response                                         *)
LEMMA ResultKeeps ==
    ASSUME NEW h, WellFormed(h), NEW a, Newest(h, a), NEW c \in Nat
    PROVE  WellFormed(Append(h, Result(a, c))) /\ Newest(Append(h, Result(a, c)), a)
<1>1. h \in Seq(Entries)
  BY DEF WellFormed
<1>2. PICK n : n = Len(h)
  OBVIOUS
<1>3. PICK e : e = Result(a, c)
  OBVIOUS
<1>4. PICK g : g = Append(h, e)
  OBVIOUS
<1>5. /\ n \in Nat /\ a \in 1..n /\ h[a].type = "assistant"
      /\ \A i \in a + 1..n : AnswersTo(h, i, a)
  BY <1>1, <1>2, LenProperties DEF Newest
<1>6. /\ Len(g) = n + 1 /\ g \in Seq(Entries)
      /\ \A i \in 1..n : g[i] = h[i]
      /\ g[n + 1] = e /\ e.type = "result" /\ e.of = a
  <2>1. e \in Entries /\ e.type = "result" /\ e.of = a
    BY <1>3, <1>5, EntryTypes
  <2> QED
    BY <1>1, <1>2, <1>4, <2>1, HistoryAppended
<1>7. \A i \in a + 1..n + 1 : AnswersTo(g, i, a)
  BY <1>5, <1>6 DEF AnswersTo
<1>8. Newest(g, a)
  BY <1>5, <1>6, <1>7 DEF Newest
<1>9. ASSUME NEW i \in 1..Len(g), g[i].type = "result"
      PROVE  /\ g[i].of \in 1..i - 1
             /\ g[g[i].of].type = "assistant"
             /\ \A j \in g[i].of + 1..i : AnswersTo(g, j, g[i].of)
  <2>1. CASE i \in 1..n
    <3>1. PICK b : b = h[i].of
      OBVIOUS
    <3>2. /\ b \in 1..i - 1 /\ h[b].type = "assistant"
          /\ \A j \in b + 1..i : AnswersTo(h, j, b)
      BY <1>2, <1>6, <1>9, <2>1, <3>1 DEF WellFormed
    <3> QED
      BY <1>5, <1>6, <2>1, <3>1, <3>2 DEF AnswersTo
  <2>2. CASE i = n + 1
    BY <1>5, <1>6, <1>7, <2>2
  <2> QED
    BY <1>5, <1>6, <2>1, <2>2
<1>10. ASSUME NEW i \in 1..Len(g), g[i].type = "compaction"
       PROVE  g[i].kept \in 1..i - 1 /\ g[g[i].kept].type \in Spoken
  <2>1. i \in 1..n
    BY <1>5, <1>6, <1>10
  <2>2. h[i].kept \in 1..i - 1 /\ h[h[i].kept].type \in Spoken
    BY <1>2, <1>6, <1>10, <2>1 DEF WellFormed
  <2> QED
    BY <1>5, <1>6, <2>1, <2>2
<1>11. ASSUME NEW i \in 1..Len(g), g[i].type = "omission"
       PROVE  /\ g[i].target \in 1..i - 1
              /\ g[g[i].target].type = "result" =>
                   \E o \in 1..i - 1 :
                      Omits(g, o, g[g[i].target].of) /\ OmissionsOnly(g, o, i)
              /\ \A r \in 1..Len(g) : AnswersTo(g, r, g[i].target) =>
                   \E o \in i + 1..Len(g) : Omits(g, o, r) /\ OmissionsOnly(g, i, o)
  <2>1. i \in 1..n /\ h[i].type = "omission"
    BY <1>5, <1>6, <1>11
  <2>2. PICK t : t = h[i].target
    OBVIOUS
  <2>3. t \in 1..i - 1 /\ g[i].target = t /\ g[t] = h[t]
    BY <1>2, <1>5, <1>6, <2>1, <2>2 DEF WellFormed
  <2>4. ASSUME h[t].type = "result"
        PROVE  \E o \in 1..i - 1 : Omits(g, o, h[t].of) /\ OmissionsOnly(g, o, i)
    <3>1. PICK o \in 1..i - 1 : Omits(h, o, h[t].of) /\ OmissionsOnly(h, o, i)
      BY <1>2, <2>1, <2>2, <2>4 DEF WellFormed
    <3> QED
      BY <1>5, <1>6, <2>1, <3>1 DEF Omits, OmissionsOnly
  (* Nothing has omitted the newest response.                              *)
  <2>5. t # a
    <3>1. i \notin a + 1..n
      BY <1>5, <2>1 DEF AnswersTo
    <3> QED
      BY <1>5, <2>1, <2>3, <3>1
  <2>6. ASSUME NEW r \in 1..Len(g), AnswersTo(g, r, t)
        PROVE  \E o \in i + 1..Len(g) : Omits(g, o, r) /\ OmissionsOnly(g, i, o)
    <3>1. r \in 1..n /\ AnswersTo(h, r, t)
      BY <1>5, <1>6, <2>5, <2>6 DEF AnswersTo
    <3>2. PICK o \in i + 1..n : Omits(h, o, r) /\ OmissionsOnly(h, i, o)
      BY <1>2, <2>1, <2>2, <3>1 DEF WellFormed
    <3> QED
      BY <1>5, <1>6, <2>1, <3>2 DEF Omits, OmissionsOnly
  <2> QED
    BY <2>3, <2>4, <2>6
<1>12. WellFormed(g)
  BY <1>6, <1>9, <1>10, <1>11 DEF WellFormed
<1> QED
  BY <1>3, <1>4, <1>8, <1>12

(* The newest response and its results are omitted, in their order.  First *)
(* in terms of the new history's places.                                   *)
LEMMA OmissionsAppended ==
    ASSUME NEW h, WellFormed(h), NEW a, Newest(h, a),
           NEW n \in Nat, NEW g \in Seq(Entries), Len(g) = Len(h) + n,
           \A i \in 1..Len(h) : g[i] = h[i],
           \A j \in Len(h) + 1..Len(g) :
              g[j].type = "omission" /\ g[j].target \in a..Len(h),
           \A i \in a..Len(h) : \E j \in Len(h) + 1..Len(g) : Omits(g, j, i),
           \A j, m \in Len(h) + 1..Len(g) : g[j].target < g[m].target => j < m
    PROVE  WellFormed(g)
<1>1. h \in Seq(Entries)
  BY DEF WellFormed
<1>2. PICK l : l = Len(h)
  OBVIOUS
<1>4. /\ l \in Nat /\ n \in Nat /\ a \in 1..l /\ h[a].type = "assistant"
      /\ \A i \in a + 1..l : AnswersTo(h, i, a)
  BY <1>1, <1>2, LenProperties DEF Newest
<1>6. /\ g \in Seq(Entries) /\ Len(g) = l + n
      /\ \A i \in 1..l : g[i] = h[i]
  BY <1>2
<1>7. \A j \in l + 1..l + n : g[j].type = "omission" /\ g[j].target \in a..l
  BY <1>2
<1>16. \A i \in a..l : \E j \in l + 1..l + n : Omits(g, j, i)
  BY <1>2
<1>11. \A j, m \in l + 1..l + n : g[j].target < g[m].target => j < m
  BY <1>2
<1>8. \A i \in 1..Len(g) : i \in 1..l \/ i \in l + 1..l + n
  BY <1>4, <1>6
<1>9. ASSUME NEW i \in 1..Len(g), g[i].type = "result"
      PROVE  /\ g[i].of \in 1..i - 1
             /\ g[g[i].of].type = "assistant"
             /\ \A j \in g[i].of + 1..i : AnswersTo(g, j, g[i].of)
  <2>1. i \in 1..l
    BY <1>7, <1>8, <1>9
  <2>2. PICK b : b = h[i].of
    OBVIOUS
  <2>3. /\ b \in 1..i - 1 /\ h[b].type = "assistant"
        /\ \A j \in b + 1..i : AnswersTo(h, j, b)
    BY <1>2, <1>6, <1>9, <2>1, <2>2 DEF WellFormed
  <2>4. b \in 1..l /\ \A j \in b + 1..i : j \in 1..l
    BY <1>4, <2>1, <2>3
  <2>5. g[i].of = b /\ g[b] = h[b] /\ \A j \in b + 1..i : g[j] = h[j]
    BY <1>6, <2>1, <2>2, <2>4
  <2> QED
    BY <2>3, <2>5 DEF AnswersTo
<1>10. ASSUME NEW i \in 1..Len(g), g[i].type = "compaction"
       PROVE  g[i].kept \in 1..i - 1 /\ g[g[i].kept].type \in Spoken
  <2>1. i \in 1..l
    BY <1>7, <1>8, <1>10
  <2>2. h[i].kept \in 1..i - 1 /\ h[h[i].kept].type \in Spoken
    BY <1>2, <1>6, <1>10, <2>1 DEF WellFormed
  <2> QED
    BY <1>4, <1>6, <2>1, <2>2
<1>12. ASSUME NEW r \in 1..Len(g), NEW b, AnswersTo(g, r, b)
       PROVE  r \in 1..l /\ AnswersTo(h, r, b)
  BY <1>6, <1>7, <1>8, <1>12 DEF AnswersTo
<1>13. ASSUME NEW i \in 1..l, g[i].type = "omission"
       PROVE  /\ g[i].target \in 1..i - 1
              /\ g[g[i].target].type = "result" =>
                   \E o \in 1..i - 1 :
                      Omits(g, o, g[g[i].target].of) /\ OmissionsOnly(g, o, i)
              /\ \A r \in 1..Len(g) : AnswersTo(g, r, g[i].target) =>
                   \E o \in i + 1..Len(g) : Omits(g, o, r) /\ OmissionsOnly(g, i, o)
  <2>1. h[i].type = "omission"
    BY <1>6, <1>13
  <2>2. PICK t : t = h[i].target
    OBVIOUS
  <2>3. t \in 1..i - 1 /\ g[i].target = t /\ g[t] = h[t]
    BY <1>2, <1>4, <1>6, <2>1, <2>2 DEF WellFormed
  <2>4. ASSUME h[t].type = "result"
        PROVE  \E o \in 1..i - 1 : Omits(g, o, h[t].of) /\ OmissionsOnly(g, o, i)
    <3>1. PICK o \in 1..i - 1 : Omits(h, o, h[t].of) /\ OmissionsOnly(h, o, i)
      BY <1>2, <2>1, <2>2, <2>4 DEF WellFormed
    <3>2. o \in 1..l /\ \A k \in o..i : k \in 1..l
      BY <1>4, <3>1
    <3>3. g[o] = h[o] /\ \A k \in o..i : g[k] = h[k]
      BY <1>6, <3>2
    <3>4. Omits(g, o, h[t].of)
      BY <3>1, <3>3 DEF Omits
    <3>5. OmissionsOnly(g, o, i)
      BY <3>1, <3>3 DEF OmissionsOnly
    <3> QED
      BY <3>4, <3>5
  <2>5. ASSUME NEW r \in 1..Len(g), AnswersTo(g, r, t)
        PROVE  \E o \in i + 1..Len(g) : Omits(g, o, r) /\ OmissionsOnly(g, i, o)
    <3>1. r \in 1..l /\ AnswersTo(h, r, t)
      BY <1>12, <2>5
    <3>2. PICK o \in i + 1..l : Omits(h, o, r) /\ OmissionsOnly(h, i, o)
      BY <1>2, <2>1, <2>2, <3>1 DEF WellFormed
    <3>3. o \in 1..l /\ o \in i + 1..Len(g) /\ \A k \in i..o : k \in 1..l
      BY <1>4, <1>6, <3>2
    <3>4. g[o] = h[o] /\ \A k \in i..o : g[k] = h[k]
      BY <1>6, <3>3
    <3>5. Omits(g, o, r)
      BY <3>2, <3>4 DEF Omits
    <3>6. OmissionsOnly(g, i, o)
      BY <3>2, <3>4 DEF OmissionsOnly
    <3> QED
      BY <3>3, <3>5, <3>6
  <2> QED
    BY <2>3, <2>4, <2>5
<1>14. ASSUME NEW i \in l + 1..l + n
       PROVE  /\ g[i].target \in 1..i - 1
              /\ g[g[i].target].type = "result" =>
                   \E o \in 1..i - 1 :
                      Omits(g, o, g[g[i].target].of) /\ OmissionsOnly(g, o, i)
              /\ \A r \in 1..Len(g) : AnswersTo(g, r, g[i].target) =>
                   \E o \in i + 1..Len(g) : Omits(g, o, r) /\ OmissionsOnly(g, i, o)
  <2>1. PICK t : t = g[i].target
    OBVIOUS
  <2>2. t \in a..l
    BY <1>7, <2>1
  <2>3. g[t] = h[t] /\ t \in 1..i - 1 /\ t \in 1..l
    BY <1>4, <1>6, <2>2
  <2>4. \A j, m \in l + 1..l + n : OmissionsOnly(g, j, m)
    BY <1>4, <1>7 DEF OmissionsOnly
  <2>5. ASSUME h[t].type = "result"
        PROVE  \E o \in 1..i - 1 : Omits(g, o, h[t].of) /\ OmissionsOnly(g, o, i)
    <3>1. t \in a + 1..l /\ h[t].of = a
      BY <1>4, <2>2, <2>5 DEF AnswersTo
    <3>2. PICK m \in l + 1..l + n : Omits(g, m, a)
      BY <1>4, <1>16
    <3>3. m < i
      BY <1>4, <1>11, <2>1, <3>1, <3>2, <1>7 DEF Omits
    <3>4. m \in 1..i - 1
      BY <1>4, <3>3
    <3> QED
      BY <2>4, <3>1, <3>2, <3>4
  <2>6. ASSUME NEW r \in 1..Len(g), AnswersTo(g, r, t)
        PROVE  \E o \in i + 1..Len(g) : Omits(g, o, r) /\ OmissionsOnly(g, i, o)
    <3>1. r \in 1..l /\ AnswersTo(h, r, t)
      BY <1>12, <2>6
    <3>2. t \in 1..r - 1
      BY <1>2, <3>1 DEF WellFormed, AnswersTo
    <3>3. r \in a..l /\ t < r
      BY <1>4, <2>2, <3>1, <3>2
    <3>4. PICK m \in l + 1..l + n : Omits(g, m, r)
      BY <1>16, <3>3
    <3>5. i < m
      BY <1>11, <2>1, <3>3, <3>4 DEF Omits
    <3>6. m \in i + 1..Len(g)
      BY <1>4, <1>6, <3>5
    <3> QED
      BY <2>4, <3>4, <3>6
  <2> QED
    BY <2>1, <2>3, <2>5, <2>6
<1>15. ASSUME NEW i \in 1..Len(g), g[i].type = "omission"
       PROVE  /\ g[i].target \in 1..i - 1
              /\ g[g[i].target].type = "result" =>
                   \E o \in 1..i - 1 :
                      Omits(g, o, g[g[i].target].of) /\ OmissionsOnly(g, o, i)
              /\ \A r \in 1..Len(g) : AnswersTo(g, r, g[i].target) =>
                   \E o \in i + 1..Len(g) : Omits(g, o, r) /\ OmissionsOnly(g, i, o)
  <2>1. CASE i \in 1..l
    BY <1>13, <1>15, <2>1
  <2>2. CASE i \in l + 1..l + n
    BY <1>14, <2>2
  <2> QED
    BY <1>8, <2>1, <2>2
<1> QED
  BY <1>6, <1>9, <1>10, <1>15 DEF WellFormed

OmissionsOf(s, n, f, places) ==
    /\ f \in [1..n -> places] /\ Range(f) = places /\ Increasing(f)
    /\ s \in [1..n -> Entries] /\ \A k \in 1..n : s[k] = Omission(f[k])

LEMMA OmissionsKeep ==
    ASSUME NEW h, WellFormed(h), NEW a, Newest(h, a), NEW n \in Nat,
           NEW f, NEW s, OmissionsOf(s, n, f, a..Len(h)), NEW g, g = h \o s
    PROVE  /\ WellFormed(g) /\ Len(g) = Len(h) + n
           /\ \A i \in 1..Len(h) : g[i] = h[i]
           /\ OmissionsOnly(g, Len(h) + 1, Len(g))
           /\ \A i \in a..Len(h) :
                 \E j \in Len(h) + 1..Len(g) : Omits(g, j, i)
<1>1. h \in Seq(Entries)
  BY DEF WellFormed
<1>2. PICK l : l = Len(h)
  OBVIOUS
<1>3. /\ f \in [1..n -> a..l] /\ Range(f) = a..l /\ Increasing(f)
      /\ s \in [1..n -> Entries] /\ \A k \in 1..n : s[k] = Omission(f[k])
  BY <1>2 DEF OmissionsOf
<1>4. l \in Nat /\ n \in Nat /\ a \in 1..l
  BY <1>1, <1>2, LenProperties DEF Newest
<1>5. DOMAIN f = 1..n /\ \A k \in 1..n : f[k] \in a..l /\ f[k] \in Nat
  <2>1. DOMAIN f = 1..n /\ \A k \in 1..n : f[k] \in a..l
    BY <1>3
  <2>2. \A i \in a..l : i \in Nat
    BY <1>4
  <2> QED
    BY <2>1, <2>2
<1>6. s \in Seq(Entries) /\ Len(s) = n
  BY <1>3, IsASeq, LenProperties
<1>7. /\ g \in Seq(Entries) /\ Len(g) = l + n
      /\ \A i \in 1..l + n : g[i] = IF i <= l THEN h[i] ELSE s[i - l]
  BY <1>1, <1>2, <1>6, ConcatProperties
<1>8. \A i \in 1..l : g[i] = h[i]
  <2>1. \A i \in 1..l : i \in 1..l + n /\ i <= l
    BY <1>4
  <2> QED
    BY <1>7, <2>1
<1>9. ASSUME NEW j \in l + 1..l + n
      PROVE  /\ j - l \in 1..n /\ g[j].type = "omission"
             /\ g[j].target = f[j - l] /\ g[j].target \in a..l
  <2>1. j - l \in 1..n /\ j \in 1..l + n /\ ~(j <= l)
    BY <1>4
  <2>2. g[j] = Omission(f[j - l])
    BY <1>3, <1>6, <1>7, <2>1
  <2>3. f[j - l] \in Nat /\ f[j - l] \in a..l
    BY <1>5, <2>1
  <2>4. PICK t : t = f[j - l]
    OBVIOUS
  <2>5. Omission(t).type = "omission" /\ Omission(t).target = t
    BY DEF Omission
  <2>6. g[j].type = "omission" /\ g[j].target = t
    BY <2>2, <2>4, <2>5
  <2> QED
    BY <2>1, <2>3, <2>4, <2>6
<1>10. ASSUME NEW i \in a..l
       PROVE  \E j \in l + 1..l + n : Omits(g, j, i)
  <2>1. PICK k \in 1..n : f[k] = i
    BY <1>3, <1>5 DEF Range
  <2>2. PICK j : j = l + k
    OBVIOUS
  <2>3. j \in l + 1..l + n /\ j - l = k
    BY <1>4, <2>2
  <2> QED
    BY <1>9, <2>1, <2>3 DEF Omits
<1>11. ASSUME NEW j \in l + 1..l + n, NEW m \in l + 1..l + n,
              g[j].target < g[m].target
       PROVE  j < m
  <2>1. PICK x : x = j - l
    OBVIOUS
  <2>2. PICK y : y = m - l
    OBVIOUS
  <2>3. x \in 1..n /\ y \in 1..n /\ f[x] < f[y]
    BY <1>9, <1>11, <2>1, <2>2
  <2>4. f[x] \in Nat /\ f[y] \in Nat
    BY <1>5, <2>3
  <2>5. y < x => f[y] < f[x]
    BY <1>3, <1>5, <2>3 DEF Increasing
  <2>6. ~(y < x) /\ y # x
    BY <2>3, <2>4, <2>5
  <2> QED
    BY <1>4, <2>1, <2>2, <2>6
<1>12. WellFormed(g)
  <2>1. /\ Len(g) = Len(h) + n
        /\ \A i \in 1..Len(h) : g[i] = h[i]
        /\ \A j \in Len(h) + 1..Len(g) :
              g[j].type = "omission" /\ g[j].target \in a..Len(h)
        /\ \A i \in a..Len(h) : \E j \in Len(h) + 1..Len(g) : Omits(g, j, i)
        /\ \A j, m \in Len(h) + 1..Len(g) : g[j].target < g[m].target => j < m
    BY <1>2, <1>7, <1>8, <1>9, <1>10, <1>11
  <2> QED
    BY <1>7, <2>1, OmissionsAppended
<1> QED
  BY <1>2, <1>7, <1>8, <1>9, <1>10, <1>12 DEF OmissionsOnly

-----------------------------------------------------------------------------
(* What the model is shown                                                 *)

LEMMA SmallestExists ==
    ASSUME NEW S \in SUBSET Nat, S # {}
    PROVE  \E x \in S : \A y \in S : x <= y
<1>1. PICK x \in S : \A y \in S : ~(<<y, x>> \in OpToRel(<, Nat))
  BY NatLessThanWellFounded, WFMin
<1>2. \A y \in S : <<y, x>> \in Nat \X Nat
  OBVIOUS
<1>3. \A y \in S : ~(y < x)
  BY <1>1, <1>2 DEF OpToRel
<1> QED
  BY <1>3

LEMMA LargestExists ==
    ASSUME NEW n \in Nat, NEW S \in SUBSET (0..n), S # {}
    PROVE  \E x \in S : \A y \in S : y <= x
<1> DEFINE T == {n - x : x \in S}
<1>1. T \in SUBSET Nat /\ T # {}
  <2>1. \A x \in S : n - x \in Nat
    OBVIOUS
  <2>2. PICK x \in S : TRUE
    OBVIOUS
  <2>3. n - x \in T
    BY <2>2
  <2> QED
    BY <2>1, <2>3
<1>2. PICK t \in T : \A y \in T : t <= y
  BY <1>1, SmallestExists
<1>3. PICK x \in S : t = n - x
  OBVIOUS
<1>4. \A y \in S : n - x <= n - y
  BY <1>2, <1>3
<1>5. \A y \in S : y <= x
  BY <1>4
<1> QED
  BY <1>5

LEMMA LastCompactionIs ==
    ASSUME WellFormed(history)
    PROVE  \/ LastCompaction = 0
           \/ LastCompaction \in Places /\ history[LastCompaction].type = "compaction"
<1> DEFINE S == {i \in Places : IsA(i, "compaction")}
<1>1. Len(history) \in Nat
  BY LenProperties DEF WellFormed
<1>2. CASE S = {}
  BY <1>2 DEF LastCompaction
<1>3. CASE S # {}
  <2>1. S \in SUBSET (0..Len(history))
    BY <1>1 DEF Places
  <2>2. \E i \in S : \A j \in S : j <= i
    BY <1>1, <1>3, <2>1, LargestExists
  <2>3. LastCompaction = CHOOSE i \in S : \A j \in S : j <= i
    BY <1>3 DEF LastCompaction
  <2>4. LastCompaction \in S
    BY <2>2, <2>3
  <2> QED
    BY <2>4 DEF IsA
<1> QED
  BY <1>2, <1>3

(* The projection begins at an entry that is neither a result nor an       *)
(* omission.                                                               *)
LEMMA Shown ==
    ASSUME WellFormed(history)
    PROVE  \E first \in Nat :
              /\ \/ first = 1
                 \/ first \in Places /\ history[first].type \in Spoken
              /\ \A i : i \in Projection <=>
                   /\ i \in first..Len(history)
                   /\ history[i].type \in {"input", "assistant", "result"}
                   /\ \A o \in first..Len(history) : ~Omits(history, o, i)
<1>5. PICK first :
         first = IF LastCompaction = 0 THEN 1 ELSE history[LastCompaction].kept
  OBVIOUS
<1>1. Len(history) \in Nat
  BY LenProperties DEF WellFormed
<1>2. /\ first \in Nat
      /\ (first = 1) \/ (first \in Places /\ history[first].type \in Spoken)
  <2>1. CASE LastCompaction = 0
    BY <1>5, <2>1
  <2>2. CASE LastCompaction \in Places /\ history[LastCompaction].type = "compaction"
                /\ LastCompaction # 0
    <3>1. PICK c : c = LastCompaction
      OBVIOUS
    <3>2. c \in 1..Len(history) /\ history[c].type = "compaction"
      BY <2>2, <3>1 DEF Places
    <3>3. history[c].kept \in 1..c - 1 /\ history[history[c].kept].type \in Spoken
      BY <3>2 DEF WellFormed
    <3>4. first = history[c].kept
      BY <1>5, <2>2, <3>1
    <3> QED
      BY <1>1, <3>2, <3>3, <3>4 DEF Places
  <2> QED
    BY <2>1, <2>2, LastCompactionIs
<1>3. Projection = {i \in first..Len(history) :
                       history[i].type \in {"input", "assistant", "result"}}
                   \ {history[j].target : j \in {k \in first..Len(history) :
                                                      IsA(k, "omission")}}
  BY <1>5 DEF Projection
<1>4. \A i : i \in Projection <=>
         /\ i \in first..Len(history)
         /\ history[i].type \in {"input", "assistant", "result"}
         /\ \A o \in first..Len(history) : ~Omits(history, o, i)
  BY <1>3 DEF IsA, Omits
<1> QED
  BY <1>2, <1>4

(* A cut that a compaction may make                                        *)
LEMMA CutIsSpoken ==
    ASSUME WellFormed(history), NEW i \in CutPoints
    PROVE  i \in 1..Len(history) /\ history[i].type \in Spoken
<1>1. i \in Projection /\ history[i].type # "result"
  BY DEF CutPoints, IsA
<1>2. PICK first \in Nat :
         /\ first = 1 \/ (first \in Places /\ history[first].type \in Spoken)
         /\ \A k : k \in Projection <=>
              /\ k \in first..Len(history)
              /\ history[k].type \in {"input", "assistant", "result"}
              /\ \A o \in first..Len(history) : ~Omits(history, o, k)
  BY Shown
<1>3. Len(history) \in Nat
  BY LenProperties DEF WellFormed
<1>4. i \in first..Len(history) /\ first >= 1
  BY <1>1, <1>2, <1>3 DEF Places
<1> QED
  BY <1>1, <1>2, <1>3, <1>4 DEF Spoken

LEMMA CompactedKeeps ==
    ASSUME WellFormed(history), NEW h \in Compacted
    PROVE  /\ WellFormed(h) /\ Len(h) = Len(history) + 1
           /\ \A i \in 1..Len(history) : h[i] = history[i]
           /\ h[Len(h)].type = "compaction"
<1>1. PICK i \in CutPoints : h = Append(history, Compaction(i))
  BY DEF Compacted
<1>5. PICK e : e = Compaction(i)
  OBVIOUS
<1>2. i \in 1..Len(history) /\ history[i].type \in Spoken
  BY CutIsSpoken
<1>3. /\ Compaction(i) \in Entries /\ Compaction(i).type = "compaction"
      /\ Compaction(i).kept = i
  <2>1. i \in Nat /\ 0 \in Nat
    BY <1>2
  <2> QED
    BY <2>1, EntryTypes
<1>4. WellFormed(h)
  BY <1>1, <1>2, <1>3, SpokenKeeps
<1>6. history \in Seq(Entries) /\ e \in Entries /\ h = Append(history, e)
  BY <1>1, <1>3, <1>5 DEF WellFormed
<1> QED
  BY <1>3, <1>4, <1>5, <1>6, HistoryAppended

(* A response and its results are shown together or not at all.            *)
LEMMA ShownTogether ==
    ASSUME WellFormed(history), NEW r \in Places, NEW a,
           AnswersTo(history, r, a)
    PROVE  r \in Projection <=> a \in Projection
<1>1. PICK first \in Nat :
         /\ first = 1 \/ (first \in Places /\ history[first].type \in Spoken)
         /\ \A k : k \in Projection <=>
              /\ k \in first..Len(history)
              /\ history[k].type \in {"input", "assistant", "result"}
              /\ \A o \in first..Len(history) : ~Omits(history, o, k)
  BY Shown
<1>2. PICK l : l = Len(history)
  OBVIOUS
<1>3. l \in Nat /\ Places = 1..l
  BY <1>2, LenProperties DEF WellFormed, Places
<1>4. /\ r \in 1..l /\ history[r].type = "result" /\ history[r].of = a
      /\ a \in 1..r - 1 /\ history[a].type = "assistant"
      /\ \A j \in a + 1..r : history[j].type = "result"
  BY <1>2, <1>3 DEF WellFormed, AnswersTo
<1>5. r >= first <=> a >= first
  <2>1. ~(first \in a + 1..r)
    BY <1>1, <1>3, <1>4 DEF Spoken
  <2> QED
    BY <1>4, <2>1
<1>6. ASSUME NEW o \in first..l, Omits(history, o, r)
      PROVE  \E p \in first..l : Omits(history, p, a)
  <2>1. o \in 1..l
    BY <1>1, <1>3, <1>6
  <2>2. PICK p \in 1..o - 1 : Omits(history, p, a) /\ OmissionsOnly(history, p, o)
    BY <1>2, <1>4, <1>6, <2>1 DEF WellFormed, Omits
  <2>3. ~(first \in p..o) \/ first = 1
    BY <1>1, <2>2 DEF OmissionsOnly, Spoken
  <2>4. p \in first..l
    BY <1>3, <1>6, <2>1, <2>2, <2>3
  <2> QED
    BY <2>2, <2>4
<1>7. ASSUME NEW o \in first..l, Omits(history, o, a)
      PROVE  \E p \in first..l : Omits(history, p, r)
  <2>1. o \in 1..l
    BY <1>1, <1>3, <1>7
  <2>2. PICK p \in o + 1..l : Omits(history, p, r)
    BY <1>2, <1>4, <1>7, <2>1 DEF WellFormed, Omits, AnswersTo
  <2>3. p \in first..l
    BY <1>3, <1>7, <2>1, <2>2
  <2> QED
    BY <2>2, <2>3
<1>8. /\ r \in Projection <=> /\ r \in first..l
                              /\ \A o \in first..l : ~Omits(history, o, r)
      /\ a \in Projection <=> /\ a \in first..l
                              /\ \A o \in first..l : ~Omits(history, o, a)
  BY <1>1, <1>2, <1>4
<1>9. r \in first..l <=> a \in first..l
  BY <1>3, <1>4, <1>5
<1> QED
  BY <1>6, <1>7, <1>8, <1>9

(* Each conjunct of RequestsSound that speaks of the context               *)
LEMMA PairedContext ==
    ASSUME DialogueInv
    PROVE  ContextPaired
<1>1. WellFormed(history) /\ CallsInv
  BY DEF DialogueInv
<1>2. SUFFICES ASSUME pc = "stream", NEW i \in Projection
               PROVE  /\ IsA(i, "result") => history[i].of \in Projection
                      /\ IsA(i, "assistant") /\ i > start /\ ~history[i].hard =>
                           \A c \in 1..history[i].calls :
                              Result(i, c) \in {history[j] : j \in Projection}
  BY DEF ContextPaired, AllAnswered
<1>3. i \in Places
  <2>1. PICK first \in Nat :
           /\ first = 1 \/ (first \in Places /\ history[first].type \in Spoken)
           /\ \A k : k \in Projection <=>
                /\ k \in first..Len(history)
                /\ history[k].type \in {"input", "assistant", "result"}
                /\ \A o \in first..Len(history) : ~Omits(history, o, k)
    BY <1>1, Shown
  <2>2. Len(history) \in Nat /\ i \in first..Len(history) /\ first >= 1
    BY <1>1, <2>1, LenProperties DEF WellFormed, Places
  <2> QED
    BY <2>2 DEF Places
<1>4. ASSUME IsA(i, "result")
      PROVE  history[i].of \in Projection
  <2>1. AnswersTo(history, i, history[i].of)
    BY <1>4 DEF IsA, AnswersTo
  <2> QED
    BY <1>1, <1>3, <2>1, ShownTogether
<1>5. ASSUME IsA(i, "assistant"), i > start, ~history[i].hard,
             NEW c \in 1..history[i].calls
      PROVE  Result(i, c) \in {history[j] : j \in Projection}
  <2>1. PICK j \in Places : history[j] = Result(i, c)
    BY <1>1, <1>2, <1>3, <1>5 DEF CallsInv, Answered
  <2>2. AnswersTo(history, j, i)
    BY <2>1 DEF AnswersTo, Result
  <2>3. j \in Projection
    BY <1>1, <1>2, <2>2, ShownTogether
  <2> QED
    BY <2>1, <2>3
<1> QED
  BY <1>4, <1>5

LEMMA RecoveryKept ==
    ASSUME DialogueInv
    PROVE  RecoveryOmits
<1>1. SUFFICES ASSUME pc = "recover",
                      NEW r \in Places, r = last \/ AnswersTo(history, r, last)
               PROVE  r \notin Projection
  <2>1. \A i \in Projection : i \in Places
    <3>1. PICK first \in Nat :
             /\ first = 1 \/ (first \in Places /\ history[first].type \in Spoken)
             /\ \A k : k \in Projection <=>
                  /\ k \in first..Len(history)
                  /\ history[k].type \in {"input", "assistant", "result"}
                  /\ \A o \in first..Len(history) : ~Omits(history, o, k)
      BY Shown DEF DialogueInv
    <3>2. Len(history) \in Nat /\ first >= 1
      BY <3>1, LenProperties DEF DialogueInv, WellFormed, Places
    <3> QED
      BY <3>1, <3>2 DEF Places
  <2>2. pc = "recover" => last \in Places
    BY DEF DialogueInv, RecoverInv
  <2> QED
    BY <2>1, <2>2 DEF RecoveryOmits, IsA, AnswersTo
<1>2. WellFormed(history)
  BY DEF DialogueInv
<1>3. PICK o \in Places : Omits(history, o, r) /\ OmissionsOnly(history, o, Len(history))
  BY <1>1 DEF DialogueInv, RecoverInv
<1>4. PICK first \in Nat :
         /\ first = 1 \/ (first \in Places /\ history[first].type \in Spoken)
         /\ \A k : k \in Projection <=>
              /\ k \in first..Len(history)
              /\ history[k].type \in {"input", "assistant", "result"}
              /\ \A p \in first..Len(history) : ~Omits(history, p, k)
  BY <1>2, Shown
<1>5. PICK l : l = Len(history)
  OBVIOUS
<1>6. l \in Nat /\ o \in 1..l
  BY <1>2, <1>5, LenProperties DEF WellFormed, Places
<1>7. first = 1 \/ (first \in 1..l /\ ~(first \in o..l))
  BY <1>3, <1>4, <1>5 DEF OmissionsOnly, Spoken, Places
<1>8. o \in first..l
  BY <1>6, <1>7
<1> QED
  BY <1>3, <1>4, <1>5, <1>8

-----------------------------------------------------------------------------
(* The stages of an input                                                  *)

(* What a poll takes is the front of the queue.                            *)
LEMMA PeekRest ==
    ASSUME NEW S \in SUBSET Nat, NEW q \in Seq(S), Increasing(q)
    PROVE  /\ Peek(q) \in Seq(S) /\ Rest(q) \in Seq(S)
           /\ Increasing(Peek(q)) /\ Increasing(Rest(q))
           /\ Range(q) = Range(Peek(q)) \union Range(Rest(q))
           /\ \A x \in Range(Peek(q)), y \in Range(Rest(q)) : x < y
           /\ Peek(q) = <<>> <=> q = <<>>
           /\ Len(Peek(q)) \in Nat
           /\ Mode = "one-at-a-time" => Len(Peek(q)) <= 1
           /\ q = <<>> => Rest(q) = <<>> /\ Len(Peek(q)) = 0
           /\ Len(Rest(q)) <= Len(q)
<1>1. Len(q) \in Nat
  BY LenProperties
<1>2. /\ <<>> \in Seq(S) /\ Range(<<>>) = {} /\ Increasing(<<>>) /\ Len(<<>>) = 0
  BY EmptySeq DEF Range, Increasing
<1>3. CASE q = <<>>
  <2>1. Peek(q) = <<>> /\ Rest(q) = SubSeq(q, 1, 0)
    BY <1>2, <1>3 DEF Peek, Rest
  <2>2. Rest(q) = <<>>
    BY <2>1, SubSeqEmpty
  <2> QED
    BY <1>2, <1>3, <2>1, <2>2
<1>4. CASE q # <<>> /\ Mode = "all"
  <2>1. Peek(q) = q /\ Rest(q) = SubSeq(q, Len(q) + 1, Len(q))
    BY <1>4 DEF Peek, Rest
  <2>2. Rest(q) = <<>>
    BY <1>1, <2>1, SubSeqEmpty
  <2>3. Range(Rest(q)) = {} /\ Increasing(Rest(q)) /\ Rest(q) \in Seq(S)
    BY <1>2, <2>2
  <2>4. Mode # "one-at-a-time" /\ Len(Rest(q)) = 0
    BY <1>2, <1>4, <2>2
  <2>5. Len(Peek(q)) \in Nat /\ Len(Rest(q)) <= Len(q)
    BY <1>1, <2>1, <2>4
  <2> QED
    BY <1>4, <2>1, <2>3, <2>4, <2>5
<1>5. CASE q # <<>> /\ Mode = "one-at-a-time"
  <2>1. /\ Tail(q) \in Seq(S) /\ Len(Tail(q)) = Len(q) - 1
        /\ Head(q) = q[1] /\ Head(q) \in Range(q)
        /\ \A i \in 1..Len(Tail(q)) : Tail(q)[i] = q[i + 1]
        /\ Range(q) = {Head(q)} \union Range(Tail(q))
    BY <1>5, RangeTail
  <2>2. PICK x : x = Head(q)
    OBVIOUS
  <2>3. PICK r : r = Tail(q)
    OBVIOUS
  <2>4. Peek(q) = <<x>> /\ Rest(q) = r
    <3>1. Peek(q) = <<x>>
      BY <1>5, <2>2 DEF Peek
    <3>2. Rest(q) = SubSeq(q, 2, Len(q))
      BY <3>1 DEF Rest
    <3> QED
      BY <1>5, <2>3, <3>1, <3>2, TailIsSubSeq
  <2>5. /\ x \in S /\ Range(<<x>>) = {x} /\ Increasing(<<x>>) /\ <<x>> \in Seq(S)
        /\ Len(<<x>>) = 1 /\ <<x>> # <<>>
    <3>1. x \in S
      BY <1>5, <2>2, HeadTailProperties
    <3> QED
      BY <3>1 DEF Range, Increasing
  <2>6. DOMAIN q = 1..Len(q) /\ DOMAIN r = 1..Len(r) /\ Len(r) = Len(q) - 1
    BY <2>1, <2>3, LenProperties
  <2>7. Increasing(r)
    <3>1. ASSUME NEW i \in DOMAIN r, NEW j \in DOMAIN r, i < j
          PROVE  r[i] < r[j]
      <4>1. i + 1 \in DOMAIN q /\ j + 1 \in DOMAIN q /\ i + 1 < j + 1
        BY <1>1, <2>6, <3>1
      <4>2. q[i + 1] < q[j + 1]
        BY <4>1 DEF Increasing
      <4> QED
        BY <2>1, <2>3, <2>6, <4>2
    <3> QED
      BY <3>1 DEF Increasing
  <2>8. \A y \in Range(r) : x < y
    <3>1. ASSUME NEW i \in 1..Len(r)
          PROVE  x < r[i]
      <4>1. 1 \in DOMAIN q /\ i + 1 \in DOMAIN q /\ 1 < i + 1
        BY <1>1, <2>6, <3>1
      <4>2. q[1] < q[i + 1]
        BY <4>1 DEF Increasing
      <4> QED
        BY <2>1, <2>2, <2>3, <4>2
    <3> QED
      BY <2>6, <3>1 DEF Range
  <2> QED
    BY <1>1, <1>5, <2>1, <2>2, <2>3, <2>4, <2>5, <2>6, <2>7, <2>8
<1> QED
  BY <1>3, <1>4, <1>5, AgentLoopAssumption

(* A history that grows by nothing but entries that are no inputs          *)
Quiet(h, g) ==
    /\ Len(h) \in Nat /\ Len(g) \in Nat /\ Len(h) <= Len(g)
    /\ \A i \in 1..Len(h) : g[i] = h[i]
    /\ \A i \in Len(h) + 1..Len(g) : g[i].type # "input"

LEMMA QuietHistory ==
    ASSUME StageInv, Quiet(history, history'), given' \in Seq(Queues),
           Len(given) <= Len(given'), \A m \in DOMAIN given : given'[m] = given[m]
    PROVE  InHistory' = InHistory /\ HistoryInOrder'
<1>1. PICK l, k : l = Len(history) /\ k = Len(history')
  OBVIOUS
<1>2. /\ l \in Nat /\ k \in Nat /\ l <= k
      /\ \A i \in 1..l : history'[i] = history[i]
      /\ \A i \in 1..k : history'[i].type = "input" => i \in 1..l
  BY <1>1 DEF Quiet
<1>3. \A i : /\ i \in Places' /\ IsA(i, "input")'
             <=> i \in Places /\ IsA(i, "input") /\ history'[i] = history[i]
  BY <1>1, <1>2 DEF Places, IsA
<1>4. InHistory' = InHistory
  <2>1. ASSUME NEW x \in InHistory'
        PROVE  x \in InHistory
    <3>1. PICK i \in Places' : IsA(i, "input")' /\ x = history'[i].m
      BY <2>1 DEF InHistory
    <3> QED
      BY <1>3, <3>1 DEF InHistory
  <2>2. ASSUME NEW x \in InHistory
        PROVE  x \in InHistory'
    <3>1. PICK i \in Places : IsA(i, "input") /\ x = history[i].m
      BY <2>2 DEF InHistory
    <3>2. i \in Places' /\ IsA(i, "input")' /\ history'[i] = history[i]
      BY <1>1, <1>2, <3>1 DEF Places, IsA
    <3> QED
      BY <3>1, <3>2 DEF InHistory
  <2> QED
    BY <2>1, <2>2
<1>5. ASSUME NEW j \in Places', NEW i \in 1..j - 1,
             IsA(i, "input")', IsA(j, "input")',
             SameQueue(history[i].m, history[j].m)'
      PROVE  (history[i].m)' < (history[j].m)'
  <2>1. i \in Places'
    BY <1>1, <1>2, <1>5 DEF Places
  <2>2. /\ i \in Places /\ j \in Places
        /\ IsA(i, "input") /\ IsA(j, "input")
        /\ history'[i] = history[i] /\ history'[j] = history[j]
    BY <1>3, <1>5, <2>1
  <2>3. PICK x, y : x = history[i].m /\ y = history[j].m
    OBVIOUS
  <2>4. x \in InHistory /\ y \in InHistory
    BY <2>2, <2>3 DEF InHistory
  <2>5. /\ DOMAIN given = 1..Len(given) /\ DOMAIN given' = 1..Len(given')
        /\ Len(given) \in Nat /\ x \in 0..Len(given) /\ y \in 0..Len(given)
    BY <2>4, LenProperties DEF StageInv
  <2>6. x \in DOMAIN given' /\ y \in DOMAIN given' /\ given'[x] = given'[y]
    BY <1>5, <2>2, <2>3 DEF SameQueue
  <2>7. SameQueue(x, y)
    BY <2>5, <2>6 DEF SameQueue
  <2>8. x < y
    BY <2>2, <2>3, <2>7 DEF StageInv, KeepTheirOrder, HistoryInOrder
  <2> QED
    BY <2>2, <2>3, <2>8
<1>6. HistoryInOrder'
  BY <1>5 DEF HistoryInOrder
<1> QED
  BY <1>4, <1>6

(* Nothing moves but the history.                                          *)
LEMMA NothingMoves ==
    ASSUME StageInv, Quiet(history, history'), UNCHANGED <<inputVars, pending, lost>>
    PROVE  StageInv'
<1>1. /\ given' = given /\ steering' = steering /\ followUp' = followUp
      /\ pending' = pending /\ lost' = lost
  BY DEF inputVars
<1>2. given' \in Seq(Queues) /\ Len(given) <= Len(given')
  BY <1>1, LenProperties DEF StageInv
<1>3. InHistory' = InHistory /\ HistoryInOrder'
  BY <1>1, <1>2, QuietHistory
<1>4. KeepTheirOrder'
  BY <1>1, <1>3 DEF StageInv, KeepTheirOrder, StagesInOrder, SameQueue, InQueue
<1> QED
  BY <1>1, <1>3, <1>4 DEF StageInv, InQueue

(* Nothing but input that is on its way is dropped.                        *)
LEMMA PendingDropped ==
    ASSUME StageInv, UNCHANGED <<inputVars, history>>,
           pending' = <<>>, lost' = lost \union Range(pending)
    PROVE  StageInv'
<1>1. /\ given' = given /\ steering' = steering /\ followUp' = followUp
      /\ history' = history
  BY DEF inputVars
<1>2. InHistory' = InHistory /\ InQueue' = InQueue /\ HistoryInOrder' = HistoryInOrder
  BY <1>1 DEF InHistory, InQueue, HistoryInOrder, SameQueue, Places, IsA
<1>3. /\ Range(pending) \subseteq DOMAIN given
      /\ Range(pending') = {} /\ Increasing(pending') /\ pending' \in Seq(DOMAIN given)
  <2>1. Range(pending) \subseteq DOMAIN given
    BY RangeFacts, ElementOfSeq DEF StageInv, Range
  <2> QED
    BY <2>1, EmptySeq DEF Range, Increasing
<1>4. KeepTheirOrder'
  BY <1>1, <1>2, <1>3 DEF StageInv, KeepTheirOrder, StagesInOrder, SameQueue
<1> QED
  BY <1>1, <1>2, <1>3, <1>4 DEF StageInv

(* Input moves from the queues to what is on its way, from the front.      *)
LEMMA InputTaken ==
    ASSUME StageInv, Quiet(history, history'), UNCHANGED <<given, lost>>,
           Range(pending) = {},
           {steering', followUp', pending'} \subseteq Seq(DOMAIN given),
           Increasing(steering'), Increasing(followUp'), Increasing(pending'),
           Range(steering') \subseteq Range(steering),
           Range(followUp') \subseteq Range(followUp),
           Range(pending') \union InQueue' = InQueue,
           \A x \in Range(pending'), y \in InQueue' :
              x < y \/ given[x] # given[y]
    PROVE  StageInv'
<1>1. given' \in Seq(Queues) /\ Len(given) <= Len(given')
  BY LenProperties DEF StageInv
<1>2. InHistory' = InHistory /\ HistoryInOrder'
  BY <1>1, QuietHistory
<1>3. /\ DOMAIN given \subseteq Nat
      /\ Range(pending') \subseteq DOMAIN given /\ InQueue' \subseteq DOMAIN given
  <2>1. Range(steering) \subseteq DOMAIN given /\ Range(followUp) \subseteq DOMAIN given
    BY RangeFacts, ElementOfSeq DEF StageInv, Range
  <2>2. DOMAIN given \subseteq Nat
    BY LenProperties DEF StageInv
  <2> QED
    BY <2>1, <2>2 DEF InQueue
<1>4. Range(pending') \intersect InQueue' = {}
  BY <1>3
<1>5. StagesInOrder'
  <2>1. ASSUME NEW n \in DOMAIN given, NEW m \in 1..n - 1, SameQueue(m, n)
        PROVE  /\ n \in Range(pending') => m \notin InQueue'
               /\ n \in InHistory => m \notin InQueue' \union Range(pending')
    <3>1. m \in DOMAIN given /\ given[m] = given[n] /\ m < n
      BY <1>3, <2>1 DEF SameQueue
    <3>2. n \in Range(pending') => m \notin InQueue'
      BY <1>3, <3>1
    <3>3. n \in InHistory => m \notin InQueue
      BY <2>1 DEF StageInv, KeepTheirOrder, StagesInOrder
    <3> QED
      BY <3>2, <3>3
  <2> QED
    BY <1>2, <2>1 DEF StagesInOrder, SameQueue
<1>6. KeepTheirOrder'
  BY <1>2, <1>5 DEF KeepTheirOrder
<1>7. /\ \A m \in Range(steering') : given[m] = "steering"
      /\ \A m \in Range(followUp') : given[m] = "followUp"
  BY DEF StageInv
<1> QED
  BY <1>1, <1>2, <1>4, <1>6, <1>7 DEF StageInv

LEMMA RangeIn ==
    ASSUME NEW S, NEW s \in Seq(S)
    PROVE  Range(s) \subseteq S
<1>1. ASSUME NEW x \in Range(s)
      PROVE  x \in S
  <2>1. PICK i \in 1..Len(s) : s[i] = x
    BY <1>1, RangeFacts
  <2> QED
    BY <2>1, ElementOfSeq
<1> QED
  BY <1>1

LEMMA QueueGrown ==
    ASSUME NEW n \in Nat, NEW s \in Seq(1..n), Increasing(s)
    PROVE  /\ s \in Seq(1..n + 1) /\ Append(s, n + 1) \in Seq(1..n + 1)
           /\ Increasing(Append(s, n + 1))
           /\ Range(Append(s, n + 1)) = Range(s) \union {n + 1}
           /\ Len(Append(s, n + 1)) >= Len(s)
<1>1. PICK k, g : k = Len(s) /\ g = Append(s, n + 1)
  OBVIOUS
<1>2. s \in Seq(1..n + 1)
  <2>1. 1..n \subseteq 1..n + 1
    OBVIOUS
  <2> QED
    BY <2>1, SeqMonotonic
<1>3. /\ k \in Nat /\ DOMAIN s = 1..k /\ \A i \in 1..k : s[i] \in 1..n
      /\ g \in Seq(1..n + 1) /\ Len(g) = k + 1 /\ DOMAIN g = 1..k + 1
      /\ g[k + 1] = n + 1 /\ \A i \in 1..k : g[i] = s[i]
  <2>1. k \in Nat /\ DOMAIN s = 1..k /\ \A i \in 1..k : s[i] \in 1..n
    BY <1>1, LenProperties, ElementOfSeq
  <2>2. n + 1 \in 1..n + 1
    OBVIOUS
  <2>3. /\ g \in Seq(1..n + 1) /\ Len(g) = k + 1
        /\ g[k + 1] = n + 1 /\ \A i \in 1..k : g[i] = s[i]
    BY <1>1, <1>2, <2>2, AppendProperties
  <2> QED
    BY <2>1, <2>3, LenProperties
<1>4. Increasing(g)
  <2>1. ASSUME NEW i \in 1..k + 1, NEW j \in 1..k + 1, i < j
        PROVE  g[i] < g[j]
    <3>1. i \in 1..k /\ g[i] = s[i] /\ s[i] \in 1..n
      BY <1>3, <2>1
    <3>2. CASE j = k + 1
      BY <1>3, <3>1, <3>2
    <3>3. CASE j \in 1..k
      BY <1>3, <2>1, <3>1, <3>3 DEF Increasing
    <3> QED
      BY <1>3, <3>2, <3>3
  <2> QED
    BY <1>3, <2>1 DEF Increasing
<1>5. Range(g) = Range(s) \union {n + 1}
  <2>1. \A x \in Range(g) : x \in Range(s) \/ x = n + 1
    BY <1>3 DEF Range
  <2>2. ASSUME NEW x \in Range(s)
        PROVE  x \in Range(g)
    <3>1. PICK i \in 1..k : s[i] = x
      BY <1>3 DEF Range
    <3> QED
      BY <1>3, <3>1 DEF Range
  <2>3. n + 1 \in Range(g)
    BY <1>3 DEF Range
  <2> QED
    BY <2>1, <2>2, <2>3
<1> QED
  BY <1>1, <1>2, <1>3, <1>4, <1>5

(* A new input goes to the end of its queue, or a prompt on its way.       *)
Placed(q) ==
    \/ /\ q = "steering" /\ steering' = Append(steering, Len(given'))
       /\ UNCHANGED <<followUp, pending>>
    \/ /\ q = "followUp" /\ followUp' = Append(followUp, Len(given'))
       /\ UNCHANGED <<steering, pending>>
    \/ /\ q = "prompt" /\ Range(pending) = {} /\ pending' = <<Len(given')>>
       /\ UNCHANGED <<steering, followUp>>

LEMMA InputAccepted ==
    ASSUME StageInv, history \in Seq(Entries), UNCHANGED <<history, lost>>,
           NEW q \in Queues, Accept(q), Placed(q)
    PROVE  StageInv'
<1>1. PICK n : n = Len(given)
  OBVIOUS
<1>2. /\ n \in Nat /\ DOMAIN given = 1..n
      /\ given' \in Seq(Queues) /\ Len(given') = n + 1 /\ DOMAIN given' = 1..n + 1
      /\ given'[n + 1] = q /\ \A m \in 1..n : given'[m] = given[m]
  <2>1. given \in Seq(Queues) /\ given' = Append(given, q)
    BY DEF StageInv, Accept
  <2>2. n \in Nat /\ DOMAIN given = 1..n
    BY <1>1, <2>1, LenProperties
  <2>3. /\ given' \in Seq(Queues) /\ Len(given') = n + 1
        /\ given'[n + 1] = q /\ \A m \in 1..n : given'[m] = given[m]
    BY <1>1, <2>1, AppendProperties
  <2> QED
    BY <2>2, <2>3, LenProperties
<1>3. /\ steering \in Seq(1..n) /\ Increasing(steering)
      /\ followUp \in Seq(1..n) /\ Increasing(followUp)
      /\ pending \in Seq(1..n) /\ Increasing(pending)
  BY <1>2 DEF StageInv, KeepTheirOrder
<1>4. /\ Range(steering) \subseteq 1..n /\ Range(followUp) \subseteq 1..n
      /\ Range(pending) \subseteq 1..n
  BY <1>3, RangeIn
<1>5. Quiet(history, history')
  BY LenProperties DEF Quiet
<1>6. InHistory' = InHistory /\ HistoryInOrder'
  BY <1>1, <1>2, <1>5, QuietHistory
<1>7. /\ {steering', followUp', pending'} \subseteq Seq(1..n + 1)
      /\ Increasing(steering') /\ Increasing(followUp') /\ Increasing(pending')
      /\ \A m \in Range(steering') : m \in Range(steering) \/ (m = n + 1 /\ q = "steering")
      /\ \A m \in Range(followUp') : m \in Range(followUp) \/ (m = n + 1 /\ q = "followUp")
      /\ \A m \in Range(pending') : m \in Range(pending) \/ (m = n + 1 /\ q = "prompt")
      /\ InQueue' \union Range(pending') = InQueue \union Range(pending) \union {n + 1}
      /\ n + 1 \notin Range(pending') \intersect InQueue'
  <2>1. /\ steering \in Seq(1..n + 1) /\ followUp \in Seq(1..n + 1)
        /\ pending \in Seq(1..n + 1)
    BY <1>2, <1>3, QueueGrown
  <2>2. CASE /\ q = "steering" /\ steering' = Append(steering, n + 1)
             /\ UNCHANGED <<followUp, pending>>
    <3>1. /\ steering' \in Seq(1..n + 1) /\ Increasing(steering')
          /\ Range(steering') = Range(steering) \union {n + 1}
      BY <1>2, <1>3, <2>2, QueueGrown
    <3> QED
      BY <1>2, <1>3, <1>4, <2>1, <2>2, <3>1 DEF InQueue
  <2>3. CASE /\ q = "followUp" /\ followUp' = Append(followUp, n + 1)
             /\ UNCHANGED <<steering, pending>>
    <3>1. /\ followUp' \in Seq(1..n + 1) /\ Increasing(followUp')
          /\ Range(followUp') = Range(followUp) \union {n + 1}
      BY <1>2, <1>3, <2>3, QueueGrown
    <3> QED
      BY <1>2, <1>3, <1>4, <2>1, <2>3, <3>1 DEF InQueue
  <2>4. CASE /\ q = "prompt" /\ Range(pending) = {} /\ pending' = <<n + 1>>
             /\ UNCHANGED <<steering, followUp>>
    <3>1. /\ <<n + 1>> \in Seq(1..n + 1) /\ Increasing(<<n + 1>>)
          /\ Range(<<n + 1>>) = {n + 1}
      <4>1. n + 1 \in 1..n + 1
        BY <1>2
      <4>2. <<n + 1>> \in Seq(1..n + 1)
        BY <4>1
      <4>3. Increasing(<<n + 1>>)
        BY DEF Increasing
      <4>4. Range(<<n + 1>>) = {n + 1}
        BY DEF Range
      <4> QED
        BY <4>2, <4>3, <4>4
    <3>2. /\ steering' = steering /\ followUp' = followUp /\ InQueue' = InQueue
          /\ q = "prompt" /\ Range(pending) = {}
      BY <2>4 DEF InQueue
    <3>3. pending' \in Seq(1..n + 1) /\ Increasing(pending') /\ Range(pending') = {n + 1}
      BY <2>4, <3>1
    <3>4. n + 1 \notin InQueue
      BY <1>2, <1>4 DEF InQueue
    <3>5. InQueue' \union Range(pending') = InQueue \union Range(pending) \union {n + 1}
      BY <3>2, <3>3
    <3> QED
      BY <1>3, <2>1, <3>2, <3>3, <3>4, <3>5
  <2> QED
    BY <1>2, <2>2, <2>3, <2>4 DEF Placed
<1>8. n + 1 \notin InHistory \union lost
  BY <1>1, <1>2 DEF StageInv
<1>9. StagesInOrder'
  <2>1. ASSUME NEW y \in 1..n + 1, NEW m \in 1..y - 1, SameQueue(m, y)'
        PROVE  /\ y \in Range(pending') => m \notin InQueue'
               /\ y \in InHistory => m \notin InQueue' \union Range(pending')
    <3>1. m \in 1..n /\ given'[m] = given'[y]
      BY <1>2, <2>1 DEF SameQueue
    <3>2. CASE y = n + 1
      <4>1. y \notin InHistory /\ given[m] = q
        BY <1>2, <1>8, <3>1, <3>2
      <4>2. ASSUME y \in Range(pending')
            PROVE  m \notin InQueue'
        <5>1. q = "prompt"
          BY <1>2, <1>4, <1>7, <3>2, <4>2
        <5>2. m # n + 1
          BY <1>2, <3>1
        <5> QED
          BY <1>7, <4>1, <5>1, <5>2 DEF StageInv, InQueue
      <4> QED
        BY <4>1, <4>2
    <3>3. CASE y \in 1..n
      <4>1. SameQueue(m, y) /\ m # n + 1 /\ y # n + 1 /\ y \in DOMAIN given
        BY <1>2, <3>1, <3>3 DEF SameQueue
      <4>2. /\ y \in Range(pending) => m \notin InQueue
            /\ y \in InHistory => m \notin InQueue \union Range(pending)
        BY <2>1, <4>1 DEF StageInv, KeepTheirOrder, StagesInOrder
      <4>3. /\ m \in InQueue' => m \in InQueue
            /\ m \in Range(pending') => m \in Range(pending)
            /\ y \in Range(pending') => y \in Range(pending)
        BY <1>7, <4>1 DEF InQueue
      <4> QED
        BY <4>2, <4>3
    <3> QED
      BY <1>2, <3>2, <3>3
  <2> QED
    BY <1>2, <1>6, <2>1 DEF StagesInOrder
<1>10. KeepTheirOrder'
  BY <1>6, <1>7, <1>9 DEF KeepTheirOrder
<1>11. /\ \A m \in Range(steering') : given'[m] = "steering"
       /\ \A m \in Range(followUp') : given'[m] = "followUp"
  <2>1. /\ \A m \in Range(steering) : given[m] = "steering" /\ m \in 1..n
        /\ \A m \in Range(followUp) : given[m] = "followUp" /\ m \in 1..n
    BY <1>4 DEF StageInv
  <2>2. ASSUME NEW m \in Range(steering')
        PROVE  given'[m] = "steering"
    BY <1>2, <1>7, <2>1, <2>2
  <2>3. ASSUME NEW m \in Range(followUp')
        PROVE  given'[m] = "followUp"
    BY <1>2, <1>7, <2>1, <2>3
  <2> QED
    BY <2>2, <2>3
<1>12. /\ lost' \subseteq 1..n + 1 /\ InHistory' \subseteq 0..n + 1
       /\ 1..n + 1 \subseteq InQueue' \union Range(pending') \union InHistory'
                               \union lost'
  <2>1. /\ lost \subseteq 1..n /\ InHistory \subseteq 0..n
        /\ 1..n \subseteq InQueue \union Range(pending) \union InHistory \union lost
    BY <1>1, <1>2 DEF StageInv
  <2>2. lost' = lost /\ InHistory' = InHistory
    BY <1>6
  <2>3. lost' \subseteq 1..n + 1 /\ InHistory' \subseteq 0..n + 1
    BY <1>2, <2>1, <2>2
  <2>4. ASSUME NEW m \in 1..n + 1
        PROVE  m \in InQueue' \union Range(pending') \union InHistory' \union lost'
    <3>1. m \in 1..n \/ m = n + 1
      BY <1>2
    <3> QED
      BY <1>7, <2>1, <2>2, <3>1
  <2> QED
    BY <2>3, <2>4
<1>13. /\ InQueue' \intersect (Range(pending') \union InHistory' \union lost') = {}
       /\ Range(pending') \intersect (InHistory' \union lost') = {}
       /\ InHistory' \intersect lost' = {}
  <2>1. \A m \in InQueue' : m \in InQueue \/ m = n + 1
    BY <1>7 DEF InQueue
  <2>2. \A m \in Range(pending') : m \in Range(pending) \/ m = n + 1
    BY <1>7
  <2>3. n + 1 \notin InQueue \union Range(pending)
    BY <1>2, <1>4 DEF InQueue
  <2>4. /\ InQueue \intersect (Range(pending) \union InHistory \union lost) = {}
        /\ Range(pending) \intersect (InHistory \union lost) = {}
        /\ InHistory \intersect lost = {}
    BY DEF StageInv
  <2>5. lost' = lost /\ InHistory' = InHistory
    BY <1>6
  <2>6. n + 1 \notin Range(pending') \intersect InQueue'
    BY <1>7
  <2> QED
    BY <1>8, <2>1, <2>2, <2>3, <2>4, <2>5, <2>6
<1> QED
  BY <1>2, <1>7, <1>10, <1>11, <1>12, <1>13 DEF StageInv

(* The inputs of a history with one more                                   *)
InputsOf(h) == {h[i].m : i \in {j \in 1..Len(h) : h[j].type = "input"}}

SameIn(g, x, y) == x \in DOMAIN g /\ y \in DOMAIN g /\ g[x] = g[y]

OrderedIn(h, g) ==
    \A j \in 1..Len(h) : \A i \in 1..j - 1 :
        h[i].type = "input" /\ h[j].type = "input" /\ SameIn(g, h[i].m, h[j].m)
        => h[i].m < h[j].m

LEMMA InputAppended ==
    ASSUME NEW h \in Seq(Entries), NEW x \in Nat, NEW g,
           OrderedIn(h, g), \A y \in InputsOf(h) : SameIn(g, y, x) => y < x
    PROVE  /\ InputsOf(Append(h, Input(x))) = InputsOf(h) \union {x}
           /\ OrderedIn(Append(h, Input(x)), g)
<1>1. PICK k, f : k = Len(h) /\ f = Append(h, Input(x))
  OBVIOUS
<1>2. /\ k \in Nat /\ Len(f) = k + 1 /\ \A i \in 1..k : f[i] = h[i]
      /\ f[k + 1].type = "input" /\ f[k + 1].m = x
  <2>1. Input(x) \in Entries /\ Input(x).type = "input" /\ Input(x).m = x
    BY EntryTypes
  <2> QED
    BY <1>1, <2>1, HistoryAppended
<1>3. InputsOf(f) = InputsOf(h) \union {x}
  <2>1. ASSUME NEW y \in InputsOf(f)
        PROVE  y \in InputsOf(h) \union {x}
    <3>1. PICK i \in 1..k + 1 : f[i].type = "input" /\ y = f[i].m
      BY <1>2, <2>1 DEF InputsOf
    <3>2. i = k + 1 \/ i \in 1..k
      BY <1>2
    <3> QED
      BY <1>1, <1>2, <3>1, <3>2 DEF InputsOf
  <2>2. ASSUME NEW y \in InputsOf(h)
        PROVE  y \in InputsOf(f)
    <3>1. PICK i \in 1..k : h[i].type = "input" /\ y = h[i].m
      BY <1>1, <2>2 DEF InputsOf
    <3>2. i \in 1..k + 1 /\ f[i] = h[i]
      BY <1>2
    <3> QED
      BY <1>2, <3>1, <3>2 DEF InputsOf
  <2>3. x \in InputsOf(f)
    <3>1. k + 1 \in 1..k + 1
      BY <1>2
    <3> QED
      BY <1>2, <3>1 DEF InputsOf
  <2> QED
    BY <2>1, <2>2, <2>3
<1>4. ASSUME NEW j \in 1..k + 1, NEW i \in 1..j - 1,
             f[i].type = "input", f[j].type = "input", SameIn(g, f[i].m, f[j].m)
      PROVE  f[i].m < f[j].m
  <2>1. i \in 1..k /\ f[i] = h[i]
    BY <1>2
  <2>2. CASE j = k + 1
    <3>1. h[i].m \in InputsOf(h)
      BY <1>1, <1>4, <2>1 DEF InputsOf
    <3> QED
      BY <1>2, <1>4, <2>1, <2>2, <3>1
  <2>3. CASE j \in 1..k
    <3>1. f[j] = h[j]
      BY <1>2, <2>3
    <3> QED
      BY <1>1, <1>4, <2>1, <2>3, <3>1 DEF OrderedIn
  <2> QED
    BY <1>2, <2>2, <2>3
<1>5. OrderedIn(f, g)
  BY <1>2, <1>4 DEF OrderedIn
<1> QED
  BY <1>1, <1>3, <1>5

LEMMA HistoryOrder ==
    /\ InHistory = InputsOf(history)
    /\ HistoryInOrder <=> OrderedIn(history, given)
<1>1. InHistory = InputsOf(history)
  BY DEF InHistory, InputsOf, Places, IsA
<1>2. \A x, y : SameQueue(x, y) <=> SameIn(given, x, y)
  BY DEF SameQueue, SameIn
<1>3. HistoryInOrder <=> OrderedIn(history, given)
  BY <1>2 DEF HistoryInOrder, OrderedIn, Places, IsA
<1> QED
  BY <1>1, <1>3

(* What is on its way reaches the history from its head.                   *)
LEMMA InputCommitted ==
    ASSUME StageInv, history \in Seq(Entries), pending # <<>>, UNCHANGED <<inputVars, lost>>,
           history' = Append(history, Input(Head(pending))),
           pending' = Tail(pending)
    PROVE  StageInv'
<1>1. /\ given' = given /\ steering' = steering /\ followUp' = followUp /\ lost' = lost
  BY DEF inputVars
<1>2. PICK n : n = Len(given)
  OBVIOUS
<1>3. PICK x : x = Head(pending)
  OBVIOUS
<1>4. PICK k : k = Len(history)
  OBVIOUS
<1>5. n \in Nat /\ DOMAIN given = 1..n /\ pending \in Seq(1..n)
  <2>1. n \in Nat /\ DOMAIN given = 1..n
    BY <1>2, LenProperties DEF StageInv
  <2> QED
    BY <2>1 DEF StageInv
<1>6. /\ pending' \in Seq(1..n) /\ x \in 1..n
      /\ Range(pending) = {x} \union Range(pending')
  <2>1. x \in 1..n
    BY <1>3, <1>5, HeadTailProperties
  <2> QED
    BY <1>3, <1>5, <2>1, RangeTail
<1>7. Increasing(pending') /\ \A y \in Range(pending') : x < y
  <2>1. PICK r, l : r = pending' /\ l = Len(pending)
    OBVIOUS
  <2>2. /\ l \in Nat /\ DOMAIN pending = 1..l /\ 1 \in 1..l /\ pending[1] = x
        /\ DOMAIN r = 1..l - 1 /\ \A i \in 1..l - 1 : r[i] = pending[i + 1]
    <3>1. /\ r \in Seq(1..n) /\ Len(r) = l - 1 /\ x = pending[1]
          /\ \A i \in 1..Len(r) : r[i] = pending[i + 1]
      BY <1>3, <1>5, <2>1, RangeTail
    <3>2. l \in Nat /\ DOMAIN pending = 1..l /\ l # 0
      BY <1>5, <2>1, LenProperties, EmptySeq
    <3>3. DOMAIN r = 1..Len(r)
      BY <3>1, LenProperties
    <3> QED
      BY <3>1, <3>2, <3>3
  <2>3. \A i, j \in 1..l : i < j => pending[i] < pending[j]
    BY <2>2 DEF StageInv, KeepTheirOrder, Increasing
  <2>4. \A i \in 1..l - 1 : x < r[i]
    <3>1. ASSUME NEW i \in 1..l - 1
          PROVE  x < r[i]
      <4>1. i + 1 \in 1..l /\ 1 < i + 1
        BY <2>2
      <4> QED
        BY <2>2, <2>3, <4>1
    <3> QED
      BY <3>1
  <2>5. \A i, j \in 1..l - 1 : i < j => r[i] < r[j]
    <3>1. ASSUME NEW i \in 1..l - 1, NEW j \in 1..l - 1, i < j
          PROVE  r[i] < r[j]
      <4>1. i + 1 \in 1..l /\ j + 1 \in 1..l /\ i + 1 < j + 1
        BY <2>2, <3>1
      <4> QED
        BY <2>2, <2>3, <4>1
    <3> QED
      BY <3>1
  <2> QED
    BY <2>1, <2>2, <2>4, <2>5 DEF Increasing, Range
<1>8. \A y \in InHistory : SameIn(given, y, x) => y < x
  <2>1. ASSUME NEW y \in InHistory, SameIn(given, y, x)
        PROVE  y < x
    <3>1. y \in 1..n /\ given[y] = given[x] /\ y # x
      BY <1>5, <1>6, <2>1 DEF SameIn, StageInv
    <3>2. SameQueue(x, y)
      BY <1>5, <1>6, <3>1 DEF SameQueue
    <3>3. x \notin 1..y - 1
      BY <1>5, <1>6, <2>1, <3>1, <3>2 DEF StageInv, KeepTheirOrder, StagesInOrder
    <3> QED
      BY <1>5, <1>6, <3>1, <3>3
  <2> QED
    BY <2>1
<1>9. InputsOf(history') = InputsOf(history) \union {x} /\ OrderedIn(history', given)
  <2>1. x \in Nat
    BY <1>5, <1>6
  <2>2. OrderedIn(history, given) /\ InHistory = InputsOf(history)
    BY HistoryOrder DEF StageInv, KeepTheirOrder
  <2>3. \A y \in InputsOf(history) : SameIn(given, y, x) => y < x
    BY <1>8, <2>2
  <2> QED
    BY <1>3, <2>1, <2>2, <2>3, InputAppended
<1>10. InHistory' = InHistory \union {x} /\ HistoryInOrder'
  <2>1. /\ InHistory = InputsOf(history)
        /\ (InHistory = InputsOf(history))'
        /\ (HistoryInOrder <=> OrderedIn(history, given))'
    BY HistoryOrder, PTL
  <2> QED
    BY <1>1, <1>9, <2>1
<1>11. StagesInOrder'
  <2>1. ASSUME NEW y \in 1..n, NEW m \in 1..y - 1, SameQueue(m, y)
        PROVE  /\ y \in Range(pending') => m \notin InQueue
               /\ y \in InHistory \union {x} => m \notin InQueue \union Range(pending')
    <3>1. /\ y \in Range(pending) => m \notin InQueue
          /\ y \in InHistory => m \notin InQueue \union Range(pending)
      BY <1>5, <2>1 DEF StageInv, KeepTheirOrder, StagesInOrder
    <3>2. y = x => m \notin Range(pending')
      BY <1>5, <1>6, <1>7, <2>1
    <3> QED
      BY <1>6, <3>1, <3>2
  <2> QED
    BY <1>1, <1>5, <1>10, <2>1 DEF StagesInOrder, SameQueue, InQueue
<1>12. KeepTheirOrder'
  BY <1>1, <1>7, <1>10, <1>11 DEF StageInv, KeepTheirOrder
<1>13. x \notin Range(pending')
  BY <1>6, <1>7
<1>14. InHistory' \subseteq 0..Len(given)
  BY <1>2, <1>5, <1>6, <1>10 DEF StageInv
<1> QED
  BY <1>1, <1>5, <1>6, <1>10, <1>12, <1>13, <1>14 DEF StageInv, InQueue

(* A poll takes from the front of the steering or of the follow-ups.       *)
LEMMA SteeringTaken ==
    ASSUME StageInv, Quiet(history, history'), UNCHANGED <<given, lost, followUp>>,
           pending = <<>>, pending' = Peek(steering), steering' = Rest(steering)
    PROVE  StageInv'
<1>1. DOMAIN given \in SUBSET Nat
  BY LenProperties DEF StageInv
<1>2. steering \in Seq(DOMAIN given) /\ Increasing(steering)
  BY DEF StageInv, KeepTheirOrder
<1>3. followUp \in Seq(DOMAIN given) /\ Increasing(followUp)
  BY DEF StageInv, KeepTheirOrder
<1>4. /\ pending' \in Seq(DOMAIN given) /\ steering' \in Seq(DOMAIN given)
      /\ Increasing(pending') /\ Increasing(steering')
      /\ Range(steering) = Range(pending') \union Range(steering')
      /\ \A x \in Range(pending'), y \in Range(steering') : x < y
  <2>1. PICK D : D = DOMAIN given
    OBVIOUS
  <2>2. PICK q : q = steering
    OBVIOUS
  <2> QED
    BY <1>1, <1>2, <2>1, <2>2, PeekRest
<1>5. \A x \in Range(steering), y \in Range(followUp) : given[x] # given[y]
  BY DEF StageInv
<1>6. Range(pending) = {}
  BY DEF Range
<1>7. /\ Range(steering') \subseteq Range(steering)
      /\ Range(followUp') \subseteq Range(followUp)
      /\ Range(pending') \union InQueue' = InQueue
  BY <1>4 DEF InQueue
<1>8. \A x \in Range(pending'), y \in InQueue' : x < y \/ given[x] # given[y]
  BY <1>4, <1>5 DEF InQueue
<1>9. {steering', followUp', pending'} \subseteq Seq(DOMAIN given)
  BY <1>3, <1>4
<1> QED
  BY <1>3, <1>4, <1>6, <1>7, <1>8, <1>9, InputTaken

LEMMA FollowUpTaken ==
    ASSUME StageInv, Quiet(history, history'), UNCHANGED <<given, lost, steering>>,
           pending = <<>>, pending' = Peek(followUp), followUp' = Rest(followUp)
    PROVE  StageInv'
<1>1. DOMAIN given \in SUBSET Nat
  BY LenProperties DEF StageInv
<1>2. followUp \in Seq(DOMAIN given) /\ Increasing(followUp)
  BY DEF StageInv, KeepTheirOrder
<1>3. steering \in Seq(DOMAIN given) /\ Increasing(steering)
  BY DEF StageInv, KeepTheirOrder
<1>4. /\ pending' \in Seq(DOMAIN given) /\ followUp' \in Seq(DOMAIN given)
      /\ Increasing(pending') /\ Increasing(followUp')
      /\ Range(followUp) = Range(pending') \union Range(followUp')
      /\ \A x \in Range(pending'), y \in Range(followUp') : x < y
  <2>1. PICK D : D = DOMAIN given
    OBVIOUS
  <2>2. PICK q : q = followUp
    OBVIOUS
  <2> QED
    BY <1>1, <1>2, <2>1, <2>2, PeekRest
<1>5. \A x \in Range(followUp), y \in Range(steering) : given[x] # given[y]
  BY DEF StageInv
<1>6. Range(pending) = {}
  BY DEF Range
<1>7. /\ Range(steering') \subseteq Range(steering)
      /\ Range(followUp') \subseteq Range(followUp)
      /\ Range(pending') \union InQueue' = InQueue
  BY <1>4 DEF InQueue
<1>8. \A x \in Range(pending'), y \in InQueue' : x < y \/ given[x] # given[y]
  BY <1>4, <1>5 DEF InQueue
<1>9. {steering', followUp', pending'} \subseteq Seq(DOMAIN given)
  BY <1>3, <1>4
<1> QED
  BY <1>3, <1>4, <1>6, <1>7, <1>8, <1>9, InputTaken

LEMMA SameHistory ==
    ASSUME DialogueInv, UNCHANGED history
    PROVE  /\ Quiet(history, history') /\ WellFormed(history')
           /\ Len(history) \in Nat /\ Places' = Places
  BY LenProperties DEF DialogueInv, WellFormed, Quiet, Places

(* What a step may do to the calls that are not answered yet               *)
LEMMA CallsKept ==
    ASSUME CallsInv, Len(history) \in Nat, Len(history') \in Nat,
           Len(history) <= Len(history'),
           \A i \in Places : history'[i] = history[i],
           start' = start,
           pc' = "stream" \/ ~signal' => pc = "stream" \/ ~signal,
           \A i \in Len(history) + 1..Len(history') :
              history'[i].type = "assistant" /\ ~history'[i].hard =>
                \A c \in 1..history'[i].calls :
                   pc' = "tools" /\ i = last' /\ c \in calls',
           pc = "tools" /\ (pc' = "stream" \/ ~signal') =>
              /\ last' = last
              /\ \A c \in calls :
                    \/ pc' = "tools" /\ c \in calls'
                    \/ \E j \in Places' : history'[j] = Result(last, c)
    PROVE  CallsInv'
<1>1. SUFFICES ASSUME pc' = "stream" \/ ~signal',
                      NEW i \in Places', IsA(i, "assistant")', i > start',
                      ~(history[i].hard)', NEW c \in 1..(history[i].calls)'
               PROVE  \/ Answered(i, c)'
                      \/ pc' = "tools" /\ i = last' /\ c \in calls'
  BY DEF CallsInv
<1>2. CASE i \in Places
  <2>1. /\ history'[i] = history[i] /\ IsA(i, "assistant") /\ i > start
        /\ ~history[i].hard /\ c \in 1..history[i].calls
    BY <1>1, <1>2 DEF IsA
  <2>2. Answered(i, c) \/ (pc = "tools" /\ i = last /\ c \in calls)
    BY <1>1, <1>2, <2>1 DEF CallsInv
  <2>3. ASSUME Answered(i, c)
        PROVE  Answered(i, c)'
    <3>1. PICK j \in Places : history[j] = Result(i, c)
      BY <2>3 DEF Answered
    <3>2. j \in Places' /\ history'[j] = Result(i, c)
      BY <3>1 DEF Places
    <3> QED
      BY <3>2 DEF Answered
  <2>4. CASE pc = "tools" /\ i = last /\ c \in calls
    <3>1. (pc' = "tools" /\ c \in calls') \/ \E j \in Places' : history'[j] = Result(i, c)
      BY <1>1, <2>4
    <3>2. last' = i
      BY <1>1, <2>4
    <3> QED
      BY <3>1, <3>2 DEF Answered
  <2> QED
    BY <2>2, <2>3, <2>4
<1>3. CASE i \in Len(history) + 1..Len(history')
  BY <1>1, <1>3 DEF IsA
<1>4. i \in Places \/ i \in Len(history) + 1..Len(history')
  BY <1>1 DEF Places
<1> QED
  BY <1>2, <1>3, <1>4

(* A run begins with no call of its own.                                   *)
LEMMA CallsFresh ==
    ASSUME DialogueInv, UNCHANGED history, start' = Len(history)
    PROVE  CallsInv'
<1>1. Len(history) \in Nat /\ Places' = 1..Len(history)
  BY SameHistory DEF Places
<1> QED
  BY <1>1 DEF CallsInv

LEMMA RecoverStays ==
    ASSUME RecoverInv,
           pc' = "recover" => pc = "recover" /\ UNCHANGED <<history, last>>
    PROVE  RecoverInv'
  BY DEF RecoverInv, Places

LEMMA DialogueBegins == DialogueInit => DialogueInv
<1> SUFFICES ASSUME DialogueInit
             PROVE  DialogueInv
  OBVIOUS
<1>1. /\ given = <<>> /\ steering = <<>> /\ followUp = <<>> /\ pending = <<>>
      /\ lost = {} /\ DOMAIN given = {} /\ Len(given) = 0
      /\ Range(steering) = {} /\ Range(followUp) = {} /\ Range(pending) = {}
  BY DEF DialogueInit, Range
<1>2. WellFormed(<<>>)
  <2>1. <<>> \in Seq(Entries) /\ Len(<<>>) = 0
    BY EmptySeq
  <2> QED
    BY <2>1 DEF WellFormed
<1>3. /\ Input(0) \in Entries /\ Input(0).type = "input" /\ Input(0).m = 0
  <2>1. 0 \in Nat
    OBVIOUS
  <2> QED
    BY <2>1, EntryTypes
<1>r. PICK r \in Entries :
         r = Assistant(0, FALSE) /\ r.type = "assistant" /\ r.calls = 0
  <2>1. 0 \in Nat /\ FALSE \in BOOLEAN
    OBVIOUS
  <2> QED
    BY <2>1, ResponseEntry, Zenon
<1>s. /\ Restored = <<Input(0), r>>
      /\ r \in Entries /\ r.type = "assistant" /\ r.calls = 0
  BY <1>r, Zenon DEF Restored
<1>4. WellFormed(Restored)
  <2>1. PICK a, b : a = Input(0) /\ b = r
    OBVIOUS
  <2>2. <<a, b>> \in Seq(Entries) /\ Len(<<a, b>>) = 2
    BY <1>3, <1>s, <2>1
  <2>3. \A i \in 1..2 : <<a, b>>[i].type \in {"input", "assistant"}
    <3>1. \A i \in 1..2 : i = 1 \/ i = 2
      OBVIOUS
    <3>2. <<a, b>>[1] = a /\ <<a, b>>[2] = b
      OBVIOUS
    <3> QED
      BY <1>3, <1>s, <2>1, <3>1, <3>2
  <2>4. Restored = <<a, b>>
    BY <1>s, <2>1
  <2>5. PICK h : h = Restored
    OBVIOUS
  <2>6. WellFormed(h)
    BY <2>2, <2>3, <2>4, <2>5 DEF WellFormed
  <2> QED
    BY <2>5, <2>6
<1>5. WellFormed(history) /\ Len(history) \in Nat
  <2>1. history = <<>> \/ history = Restored
    BY DEF DialogueInit
  <2>2. WellFormed(history)
    BY <1>2, <1>4, <2>1
  <2> QED
    BY <2>2, LenProperties DEF WellFormed
<1>6. \A i \in Places : history[i].type = "input" => history[i].m = 0
  <2>1. CASE history = <<>>
    BY <2>1 DEF Places
  <2>2. CASE history = Restored
    <3>1. PICK a, b : a = Input(0) /\ b = r
      OBVIOUS
    <3>2. history = <<a, b>> /\ Len(history) = 2
      BY <1>s, <2>2, <3>1
    <3>3. Places = {1, 2} /\ history[1] = a /\ history[2] = b
      BY <3>2 DEF Places
    <3> QED
      BY <1>3, <1>s, <3>1, <3>3
  <2> QED
    BY <2>1, <2>2 DEF DialogueInit
<1>7. \A i \in Places : history[i].type = "assistant" => 1..history[i].calls = {}
  <2>1. CASE history = <<>>
    BY <2>1 DEF Places
  <2>2. CASE history = Restored
    <3>1. PICK a, b : a = Input(0) /\ b = r
      OBVIOUS
    <3>2. history = <<a, b>> /\ Len(history) = 2
      BY <1>s, <2>2, <3>1
    <3>3. Places = {1, 2} /\ history[1] = a /\ history[2] = b
      BY <3>2 DEF Places
    <3> QED
      BY <1>3, <1>s, <3>1, <3>3
  <2> QED
    BY <2>1, <2>2 DEF DialogueInit
<1>8. StageInv
  <2>1. InHistory \subseteq {0}
    BY <1>6 DEF InHistory, IsA
  <2>2. KeepTheirOrder
    BY <1>1 DEF KeepTheirOrder, StagesInOrder, HistoryInOrder, Increasing, SameQueue
  <2>3. <<>> \in Seq({}) /\ <<>> \in Seq(Queues)
    BY EmptySeq
  <2> QED
    BY <1>1, <2>1, <2>2, <2>3 DEF StageInv, InQueue
<1>9. FieldsInv /\ FlagsInv /\ PointInv /\ CountInv /\ DeliveredInv
  <2>1. /\ pc = "idle" /\ last = 0 /\ start = 0 /\ failing = 0 /\ delivered = 0
        /\ attempt = 0 /\ calls = {} /\ ~recovered /\ pending = <<>>
        /\ {more, signal, stop, retry, recovered, skip} \subseteq BOOLEAN
    BY DEF DialogueInit
  <2>2. MaxRetries \in Nat /\ Spent = 0
    BY <2>1, AgentLoopAssumption DEF Spent
  <2>3. FieldsInv
    BY <1>5, <2>1, <2>2 DEF FieldsInv, Points
  <2>4. PointInv
    BY <2>1 DEF PointInv, Judged
  <2>5. CountInv
    BY <2>1, <2>2 DEF CountInv, Judged
  <2>6. FlagsInv
    BY <2>1 DEF FlagsInv
  <2>7. DeliveredInv
    BY <2>1 DEF DeliveredInv
  <2> QED
    BY <2>3, <2>4, <2>5, <2>6, <2>7
<1>10. CallsInv /\ RecoverInv
  BY <1>7 DEF DialogueInit, CallsInv, RecoverInv, IsA
<1> QED
  BY <1>5, <1>8, <1>9, <1>10 DEF DialogueInv

(* What one poll can deliver                                               *)
LEMMA PollBounded ==
    ASSUME StageInv
    PROVE  /\ Len(Peek(steering)) \in Nat
           /\ Mode = "one-at-a-time" => Len(Peek(steering)) <= 1
<1>1. DOMAIN given \in SUBSET Nat
  BY LenProperties DEF StageInv
<1>2. steering \in Seq(DOMAIN given) /\ Increasing(steering)
  BY DEF StageInv, KeepTheirOrder
<1>3. PICK D, q : D = DOMAIN given /\ q = steering
  OBVIOUS
<1> QED
  BY <1>1, <1>2, <1>3, PeekRest

LEMMA Polls ==
    ASSUME StageInv
    PROVE  /\ Peek(steering) = <<>> <=> steering = <<>>
           /\ steering = <<>> => Rest(steering) = <<>> /\ Len(Peek(steering)) = 0
           /\ Peek(followUp) = <<>> <=> followUp = <<>>
<1>1. DOMAIN given \in SUBSET Nat
  BY LenProperties DEF StageInv
<1>2. /\ steering \in Seq(DOMAIN given) /\ Increasing(steering)
      /\ followUp \in Seq(DOMAIN given) /\ Increasing(followUp)
  BY DEF StageInv, KeepTheirOrder
<1>3. PICK D : D = DOMAIN given
  OBVIOUS
<1>4. PICK q : q = steering
  OBVIOUS
<1>5. PICK f : f = followUp
  OBVIOUS
<1>6. /\ Peek(q) = <<>> <=> q = <<>>
      /\ q = <<>> => Rest(q) = <<>> /\ Len(Peek(q)) = 0
  BY <1>1, <1>2, <1>3, <1>4, PeekRest
<1>7. Peek(f) = <<>> <=> f = <<>>
  BY <1>1, <1>2, <1>3, <1>5, PeekRest
<1> QED
  BY <1>4, <1>5, <1>6, <1>7

-----------------------------------------------------------------------------
(* Callers: input, an abort and a new run                                  *)

(* A queue grows while the run is where it was.                            *)
LEMMA QueueingKeeps ==
    ASSUME DialogueInv, Steer \/ FollowUp
    PROVE  DialogueInv'
<1>1. UNCHANGED <<history, pc, loopVars, runVars, ghostVars>>
  BY DEF Steer, FollowUp
<1>2. /\ UNCHANGED <<history, pc, pending, next, skip, calls, more, decision>>
      /\ UNCHANGED <<signal, stop, last, reason, attempt, retry, recovered>>
      /\ UNCHANGED <<lost, start, delivered, failing>>
  BY <1>1 DEF loopVars, runVars, ghostVars
<1>3. StageInv'
  <2>1. StageInv /\ history \in Seq(Entries)
    BY DEF DialogueInv, WellFormed
  <2>2. CASE Steer
    <3>1. Placed("steering") /\ Accept("steering") /\ "steering" \in Queues
      BY <1>2, <2>2 DEF Steer, Placed, Queues
    <3> QED
      BY <1>2, <2>1, <3>1, InputAccepted
  <2>3. CASE FollowUp
    <3>1. Placed("followUp") /\ Accept("followUp") /\ "followUp" \in Queues
      BY <1>2, <2>3 DEF FollowUp, Placed, Queues
    <3> QED
      BY <1>2, <2>1, <3>1, InputAccepted
  <2> QED
    BY <2>2, <2>3
<1>4. WellFormed(history') /\ FieldsInv' /\ FlagsInv' /\ PointInv'
  BY <1>2 DEF DialogueInv, FieldsInv, FlagsInv, PointInv
<1>5. CallsInv' /\ RecoverInv'
  BY <1>2 DEF DialogueInv, CallsInv, RecoverInv, Places, Answered, IsA
<1>6. CountInv' /\ DeliveredInv'
  BY <1>2 DEF DialogueInv, CountInv, DeliveredInv, NoneDelivered, Spent
<1> QED
  BY <1>3, <1>4, <1>5, <1>6 DEF DialogueInv

LEMMA AbortKeeps ==
    ASSUME DialogueInv, Abort
    PROVE  DialogueInv'
<1>1. /\ UNCHANGED <<history, pc, pending, next, skip, calls, more, decision>>
      /\ UNCHANGED <<stop, last, reason, attempt, retry, recovered>>
      /\ UNCHANGED <<lost, start, delivered, failing, inputVars>>
      /\ signal' = TRUE
  BY DEF Abort, loopVars
<1>2. Quiet(history, history') /\ WellFormed(history')
  BY <1>1, SameHistory
<1>3. StageInv'
  BY <1>1, <1>2, NothingMoves DEF DialogueInv
<1>4. FieldsInv' /\ FlagsInv' /\ PointInv'
  BY <1>1 DEF DialogueInv, FieldsInv, FlagsInv, PointInv
<1>5. CallsInv' /\ RecoverInv'
  BY <1>1 DEF DialogueInv, CallsInv, RecoverInv, Places, Answered, IsA
<1>6. CountInv' /\ DeliveredInv'
  BY <1>1 DEF DialogueInv, CountInv, DeliveredInv, NoneDelivered, Spent
<1> QED
  BY <1>2, <1>3, <1>4, <1>5, <1>6 DEF DialogueInv

LEMMA BeginPromptKeeps ==
    ASSUME DialogueInv, BeginPrompt
    PROVE  DialogueInv'
<1>1. /\ pc = "idle" /\ pc' = "start" /\ UNCHANGED <<history, lost, failing, recovered>>
      /\ Accept("prompt") /\ pending' = <<Len(given')>>
      /\ UNCHANGED <<steering, followUp>>
      /\ next' = "loop" /\ skip' = FALSE /\ calls' = {} /\ more' = TRUE
      /\ signal' = FALSE /\ stop' = FALSE /\ last' = 0 /\ attempt' = 0 /\ retry' = FALSE
      /\ start' = Len(history) /\ delivered' = 0
  BY DEF BeginPrompt, BeginRun, NewLoop
<1>2. Quiet(history, history') /\ WellFormed(history') /\ Len(history) \in Nat
  BY <1>1, SameHistory
<1>3. StageInv'
  <2>1. pending = <<>>
    BY <1>1 DEF DialogueInv, PointInv
  <2>2. Range(pending) = {}
    BY <2>1 DEF Range
  <2>3. StageInv /\ history \in Seq(Entries) /\ "prompt" \in Queues
    BY DEF DialogueInv, WellFormed, Queues
  <2>4. UNCHANGED <<history, lost>> /\ Placed("prompt") /\ Accept("prompt")
    BY <1>1, <2>2 DEF Placed
  <2> QED
    BY <2>3, <2>4, InputAccepted
<1>4. FieldsInv' /\ FlagsInv' /\ PointInv'
  <2>1. FieldsInv'
    BY <1>1, <1>2, AgentLoopAssumption DEF DialogueInv, FieldsInv, Points
  <2>2. FlagsInv'
    BY <1>1, Zenon DEF DialogueInv, FlagsInv
  <2>3. PointInv'
    BY <1>1, Zenon DEF PointInv, Judged
  <2> QED
    BY <2>1, <2>2, <2>3
<1>5. CallsInv' /\ RecoverInv'
  BY <1>1, CallsFresh DEF RecoverInv
<1>6. CountInv' /\ DeliveredInv'
  BY <1>1 DEF DialogueInv, CountInv, DeliveredInv, Spent, Judged
<1> QED
  BY <1>2, <1>3, <1>4, <1>5, <1>6 DEF DialogueInv

LEMMA ContinueKeeps ==
    ASSUME DialogueInv, Continue_
    PROVE  DialogueInv'
<1>1. /\ pc = "idle" /\ pc' = "commit" /\ UNCHANGED <<history, lost, given, failing, recovered>>
      /\ next' = "loop" /\ calls' = {} /\ more' = TRUE
      /\ signal' = FALSE /\ stop' = FALSE /\ last' = 0 /\ attempt' = 0 /\ retry' = FALSE
      /\ start' = Len(history)
  BY DEF Continue_, BeginRun, NewLoop
<1>2. \/ /\ pending' = Peek(steering) /\ skip' = TRUE /\ steering' = Rest(steering)
         /\ UNCHANGED followUp /\ delivered' = Len(Peek(steering))
      \/ /\ pending' = Peek(followUp) /\ skip' = FALSE /\ followUp' = Rest(followUp)
         /\ UNCHANGED steering /\ delivered' = 0
      \/ /\ pending' = <<>> /\ skip' = FALSE /\ delivered' = 0
         /\ UNCHANGED <<steering, followUp>>
  BY DEF Continue_, NewLoop
<1>3. Quiet(history, history') /\ WellFormed(history') /\ Len(history) \in Nat
  BY <1>1, SameHistory
<1>4. pending = <<>> /\ StageInv
  BY <1>1 DEF DialogueInv, PointInv
<1>5. StageInv'
  <2>1. CASE pending' = Peek(steering) /\ steering' = Rest(steering) /\ UNCHANGED followUp
    BY <1>1, <1>3, <1>4, <2>1, SteeringTaken
  <2>2. CASE pending' = Peek(followUp) /\ followUp' = Rest(followUp) /\ UNCHANGED steering
    BY <1>1, <1>3, <1>4, <2>2, FollowUpTaken
  <2>3. CASE pending' = <<>> /\ UNCHANGED <<steering, followUp>>
    BY <1>1, <1>3, <1>4, <2>3, NothingMoves DEF inputVars
  <2> QED
    BY <1>2, <2>1, <2>2, <2>3
<1>6. /\ Len(Peek(steering)) \in Nat
      /\ Mode = "one-at-a-time" => Len(Peek(steering)) <= 1
  BY PollBounded DEF DialogueInv
<1>7. /\ delivered' \in Nat
      /\ Mode = "one-at-a-time" => delivered' <= 1
  <2>1. delivered' = Len(Peek(steering)) \/ delivered' = 0
    BY <1>2
  <2> QED
    BY <1>6, <2>1
<1>11. skip' \in BOOLEAN /\ (skip' \/ delivered' = 0)
  BY <1>2, Zenon
<1>8. FieldsInv' /\ FlagsInv' /\ PointInv'
  <2>1. FieldsInv'
    BY <1>1, <1>3, <1>7, AgentLoopAssumption DEF DialogueInv, FieldsInv, Points
  <2>2. FlagsInv'
    BY <1>1, <1>11, Zenon DEF DialogueInv, FlagsInv
  <2>3. PointInv'
    BY <1>1, Zenon DEF PointInv, Judged
  <2> QED
    BY <2>1, <2>2, <2>3
<1>9. CallsInv' /\ RecoverInv'
  BY <1>1, CallsFresh DEF RecoverInv
<1>10. CountInv' /\ DeliveredInv'
  <2>1. NoneDelivered' => ~skip'
    BY <1>1, Zenon DEF NoneDelivered, Judged
  <2>2. DeliveredInv'
    BY <1>7, <1>11, <2>1 DEF DeliveredInv
  <2>3. CountInv'
    BY <1>1, AgentLoopAssumption DEF DialogueInv, CountInv, Spent, Judged
  <2> QED
    BY <2>2, <2>3
<1> QED
  BY <1>3, <1>5, <1>8, <1>9, <1>10 DEF DialogueInv

-----------------------------------------------------------------------------
(* The end of a run, and what interrupts it                                *)

(* An exception drops what is on its way and touches nothing else.         *)
LEMMA RaiseKeeps ==
    ASSUME DialogueInv, NEW to \in {"failed", "settle"}, Raise(to),
           UNCHANGED <<history, inputVars, last, reason, attempt, retry, recovered,
                       start, delivered, failing>>,
           signal' \in BOOLEAN, CallsInv'
    PROVE  DialogueInv'
<1>1. /\ UNCHANGED <<history, last, reason, attempt, retry, recovered,
                     start, delivered, failing, next, skip, calls, more, decision>>
      /\ pc' = to /\ to \in {"failed", "settle"} /\ pending' = <<>> /\ stop' = TRUE
      /\ lost' = lost \union Range(pending)
  BY DEF Raise
<1>2. WellFormed(history') /\ StageInv'
  BY <1>1, PendingDropped DEF DialogueInv
<1>3. FieldsInv'
  BY <1>1 DEF DialogueInv, FieldsInv, Points
<1>4. FlagsInv'
  BY <1>1, Zenon DEF DialogueInv, FlagsInv
<1>5. PointInv' /\ RecoverInv'
  BY <1>1, Zenon DEF PointInv, Judged, RecoverInv
<1>6. CountInv'
  BY <1>1 DEF DialogueInv, CountInv, Judged, Spent
<1>7. DeliveredInv'
  BY <1>1 DEF DialogueInv, DeliveredInv, NoneDelivered, Judged
<1> QED
  BY <1>2, <1>3, <1>4, <1>5, <1>6, <1>7 DEF DialogueInv

LEMMA HistoryKeepsCalls ==
    ASSUME DialogueInv, UNCHANGED <<history, start>>, pc # "tools",
           pc' = "stream" \/ ~signal' => pc = "stream" \/ ~signal
    PROVE  CallsInv'
<1>1. Len(history) \in Nat /\ Len(history') = Len(history)
  BY SameHistory
<1> QED
  BY <1>1, CallsKept DEF DialogueInv

LEMMA ThrowKeeps ==
    ASSUME DialogueInv, Throw
    PROVE  DialogueInv'
<1>1. /\ Raise("failed")
      /\ UNCHANGED <<history, inputVars, last, reason, attempt, retry, recovered,
                     start, delivered, failing>>
      /\ signal /\ signal' = signal
  BY DEF Throw
<1>2. pc' = "failed"
  BY <1>1 DEF Raise
<1>3. signal' \in BOOLEAN
  BY <1>1 DEF DialogueInv, FlagsInv
<1>4. CallsInv'
  BY <1>1, <1>2 DEF CallsInv
<1> QED
  BY <1>1, <1>3, <1>4, RaiseKeeps

LEMMA HookFailsKeeps ==
    ASSUME DialogueInv, HookFails
    PROVE  DialogueInv'
<1>1. /\ Raise("failed")
      /\ UNCHANGED <<history, inputVars, last, reason, attempt, retry, recovered,
                     start, delivered, failing>>
      /\ ~signal /\ signal' = signal /\ pc # "tools"
  BY DEF HookFails
<1>2. signal' \in BOOLEAN
  BY <1>1 DEF DialogueInv, FlagsInv
<1>3. CallsInv'
  <2>1. UNCHANGED <<history, start>>
    BY <1>1
  <2> QED
    BY <1>1, <2>1, HistoryKeepsCalls
<1> QED
  BY <1>1, <1>2, <1>3, RaiseKeeps

LEMMA ListenerFailsKeeps ==
    ASSUME DialogueInv, ListenerFails
    PROVE  DialogueInv'
<1>1. /\ Raise("settle")
      /\ UNCHANGED <<history, inputVars, last, reason, attempt, retry, recovered,
                     start, delivered, failing>>
      /\ signal' = (signal \/ ~Ending)
  BY DEF ListenerFails
<1>2. signal' \in BOOLEAN
  BY <1>1, Zenon
<1>3. pc' = "settle"
  BY <1>1 DEF Raise
<1>4. CallsInv'
  <2>1. CASE Ending
    <3>1. UNCHANGED <<history, start>> /\ pc # "tools" /\ (~signal' => ~signal)
      BY <1>1, <2>1 DEF Ending
    <3> QED
      BY <1>3, <3>1, HistoryKeepsCalls
  <2>2. CASE ~Ending
    BY <1>1, <1>3, <2>2 DEF CallsInv
  <2> QED
    BY <2>1, <2>2
<1> QED
  BY <1>1, <1>2, <1>4, RaiseKeeps

(* The history with a response at its end                                  *)
LEMMA ResponseAdded ==
    ASSUME DialogueInv, NEW n \in Nat, NEW why,
           history' = Append(history, Assistant(n, why \in HardExits))
    PROVE  /\ WellFormed(history') /\ Quiet(history, history')
           /\ Len(history) \in Nat /\ Len(history') = Len(history) + 1
           /\ \A i \in Places : history'[i] = history[i]
           /\ \A i \in Len(history) + 1..Len(history') :
                 /\ i = Len(history') /\ history'[i].calls = n
                 /\ why \in HardExits => history'[i].hard
           /\ Newest(history', Len(history'))
<1>1. WellFormed(history) /\ history \in Seq(Entries)
  BY DEF DialogueInv, WellFormed
<1>2. PICK e \in Entries :
         /\ e = Assistant(n, why \in HardExits)
         /\ e.type = "assistant" /\ e.calls = n
         /\ why \in HardExits => e.hard
  <2>1. (why \in HardExits) \in BOOLEAN
    OBVIOUS
  <2> QED
    BY <2>1, ResponseEntry, Zenon
<1>2a. history' = Append(history, e)
  BY <1>2, Zenon
<1>2b. /\ e \in Entries /\ e.type = "assistant" /\ e.calls = n
       /\ why \in HardExits => e.hard
  BY <1>2, Zenon
<1>3. PICK g, k : g = history' /\ k = Len(history)
  OBVIOUS
<1>4. /\ k \in Nat /\ Len(g) = k + 1 /\ \A i \in 1..k : g[i] = history[i]
      /\ g[k + 1] = e
  BY <1>1, <1>2a, <1>2b, <1>3, HistoryAppended
<1>5. WellFormed(g)
  BY <1>1, <1>2a, <1>2b, <1>3, SpokenKeeps DEF Spoken
<1>6. Quiet(history, g)
  BY <1>2b, <1>3, <1>4 DEF Quiet
<1>7. Newest(g, k + 1)
  BY <1>2b, <1>3, <1>4 DEF Newest
<1>8. \A i \in k + 1..k + 1 : i = k + 1
  BY <1>4
<1> QED
  BY <1>2b, <1>3, <1>4, <1>5, <1>6, <1>7, <1>8 DEF Places

LEMMA HandleFailureKeeps ==
    ASSUME DialogueInv, HandleFailure
    PROVE  DialogueInv'
<1>1. /\ pc = "failed" /\ pc' = "settle"
      /\ UNCHANGED <<inputVars, pending, next, skip, calls, more, signal, stop, lost,
                     start, delivered>>
      /\ last' = Len(history') /\ attempt' \in {attempt, 0} /\ failing' = 0
  BY DEF HandleFailure, CommitResponse, loopVars
<1>2. recovered' \in BOOLEAN /\ retry' \in BOOLEAN
  BY Zenon DEF HandleFailure, CommitResponse
<1>3. /\ WellFormed(history') /\ Quiet(history, history')
      /\ Len(history) \in Nat /\ Len(history') = Len(history) + 1
      /\ \A i \in Places : history'[i] = history[i]
      /\ \A i \in Len(history) + 1..Len(history') : history'[i].calls = 0
  <2>1. 0 \in Nat
    OBVIOUS
  <2>2. PICK why : history' = Append(history, Assistant(0, why \in HardExits))
    BY Zenon DEF HandleFailure, CommitResponse
  <2> QED
    BY <2>1, <2>2, ResponseAdded
<1>4. StageInv'
  BY <1>1, <1>3, NothingMoves DEF DialogueInv
<1>5. FieldsInv'
  BY <1>1, <1>3, AgentLoopAssumption DEF DialogueInv, FieldsInv, Points
<1>6. FlagsInv'
  BY <1>1, <1>2, Zenon DEF DialogueInv, FlagsInv
<1>7. PointInv' /\ RecoverInv'
  BY <1>1, Zenon DEF DialogueInv, PointInv, Judged, RecoverInv
<1>8. CallsInv'
  <2>1. \A i \in Len(history) + 1..Len(history') : 1..history'[i].calls = {}
    BY <1>3
  <2>2. /\ pc' = "stream" \/ ~signal' => pc = "stream" \/ ~signal
        /\ pc # "tools" /\ start' = start /\ CallsInv
    BY <1>1 DEF DialogueInv
  <2>3. \A i \in Len(history) + 1..Len(history') :
           history'[i].type = "assistant" =>
             \A c \in 1..history'[i].calls :
                pc' = "tools" /\ i = last' /\ c \in calls'
    BY <2>1
  <2>4. /\ Len(history) \in Nat /\ Len(history') \in Nat
        /\ Len(history) <= Len(history')
    BY <1>3
  <2> QED
    BY <1>3, <2>2, <2>3, <2>4, CallsKept
<1>9. CountInv'
  BY <1>1, AgentLoopAssumption DEF CountInv, Judged, Spent
<1>10. DeliveredInv'
  BY <1>1 DEF DialogueInv, DeliveredInv, NoneDelivered, Judged
<1> QED
  BY <1>3, <1>4, <1>5, <1>6, <1>7, <1>8, <1>9, <1>10 DEF DialogueInv

LEMMA SettleKeeps ==
    ASSUME DialogueInv, Settle
    PROVE  DialogueInv'
<1>1. /\ pc = "settle" /\ pc' = "idle" /\ UNCHANGED <<history, inputVars, lost, recovered>>
      /\ pending' = <<>> /\ next' = "loop" /\ skip' = FALSE /\ calls' = {} /\ more' = TRUE
      /\ signal' = FALSE /\ stop' = FALSE /\ last' = 0 /\ attempt' = 0 /\ retry' = FALSE
      /\ start' = Len(history) /\ delivered' = 0 /\ failing' = 0
  BY DEF Settle, BeginRun, NewLoop
<1>2. Quiet(history, history') /\ WellFormed(history') /\ Len(history) \in Nat
  BY <1>1, SameHistory
<1>3. StageInv'
  <2>1. pending = <<>>
    BY <1>1 DEF DialogueInv, PointInv
  <2> QED
    BY <1>1, <1>2, <2>1, NothingMoves DEF DialogueInv
<1>4. FieldsInv'
  BY <1>1, <1>2, AgentLoopAssumption DEF FieldsInv, Points
<1>5. FlagsInv'
  BY <1>1, Zenon DEF DialogueInv, FlagsInv
<1>6. PointInv' /\ RecoverInv'
  BY <1>1, Zenon DEF PointInv, Judged, RecoverInv
<1>7. CallsInv'
  BY <1>1, CallsFresh
<1>8. CountInv'
  BY <1>1, AgentLoopAssumption DEF CountInv, Judged, Spent
<1>9. DeliveredInv'
  BY <1>1 DEF DeliveredInv
<1> QED
  BY <1>2, <1>3, <1>4, <1>5, <1>6, <1>7, <1>8, <1>9 DEF DialogueInv

-----------------------------------------------------------------------------
(* The steps that write nothing but input or a compaction                  *)

(* The history with an entry that is neither an input nor a response       *)
LEMMA CompactionKeeps ==
    ASSUME DialogueInv, history' \in AutoCompacted
    PROVE  /\ WellFormed(history') /\ Quiet(history, history')
           /\ Len(history) \in Nat /\ Len(history') \in Nat
           /\ Len(history) <= Len(history')
           /\ \A i \in Places : history'[i] = history[i]
           /\ \A i \in Len(history) + 1..Len(history') :
                 history'[i].type = "compaction"
           /\ signal => history' = history
<1>1. WellFormed(history) /\ Len(history) \in Nat
  BY LenProperties DEF DialogueInv, WellFormed
<1>2. history' = history \/ (~signal /\ history' \in Compacted)
  BY Zenon DEF AutoCompacted, Over
<1>3. CASE history' = history
  <2>1. \A i \in Len(history) + 1..Len(history) : FALSE
    BY <1>1
  <2> QED
    BY <1>1, <1>3, <2>1, SameHistory
<1>4. CASE ~signal /\ history' \in Compacted
  <2>1. PICK g : g = history'
    OBVIOUS
  <2>2. /\ WellFormed(g) /\ Len(g) = Len(history) + 1
        /\ \A i \in 1..Len(history) : g[i] = history[i]
        /\ g[Len(g)].type = "compaction"
    BY <1>1, <1>4, <2>1, CompactedKeeps
  <2>3. \A i \in Len(history) + 1..Len(g) : i = Len(g)
    BY <1>1, <2>2
  <2>4. \A i \in Len(history) + 1..Len(g) : g[i].type = "compaction"
    BY <2>2, <2>3
  <2>5. Len(g) \in Nat /\ Len(history) <= Len(g)
    BY <1>1, <2>2
  <2>6. Quiet(history, g)
    BY <1>1, <2>2, <2>4, <2>5 DEF Quiet
  <2> QED
    BY <1>1, <1>4, <2>1, <2>2, <2>4, <2>5, <2>6 DEF Places
<1> QED
  BY <1>2, <1>3, <1>4

(* What such a step leaves of the calls                                    *)
LEMMA CompactionKeepsCalls ==
    ASSUME DialogueInv, history' \in AutoCompacted, start' = start, pc # "tools",
           pc' = "stream" \/ ~signal' => pc = "stream" \/ ~signal
    PROVE  CallsInv'
<1>1. /\ Len(history) \in Nat /\ Len(history') \in Nat /\ Len(history) <= Len(history')
      /\ \A i \in Places : history'[i] = history[i]
      /\ \A i \in Len(history) + 1..Len(history') :
            history'[i].type = "compaction"
  BY CompactionKeeps
<1>2. \A i \in Len(history) + 1..Len(history') :
         history'[i].type = "assistant" =>
           \A c \in 1..history'[i].calls :
              pc' = "tools" /\ i = last' /\ c \in calls'
  BY <1>1
<1> QED
  BY <1>1, <1>2, CallsKept DEF DialogueInv

LEMMA StartPromptKeeps ==
    ASSUME DialogueInv, StartPrompt
    PROVE  DialogueInv'
<1>1. /\ pc = "start" /\ pc' = "commit" /\ UNCHANGED <<inputVars, lost>>
      /\ UNCHANGED <<pending, next, skip, calls, more, decision>>
      /\ UNCHANGED <<signal, stop, last, reason, attempt, retry, recovered>>
      /\ UNCHANGED <<start, delivered, failing>>
      /\ history' \in AutoCompacted
  BY DEF StartPrompt, loopVars, runVars, ghostVars, AutoCompacted
<1>2. /\ WellFormed(history') /\ Quiet(history, history')
      /\ Len(history) \in Nat /\ Len(history') \in Nat /\ Len(history) <= Len(history')
  BY <1>1, CompactionKeeps
<1>3. StageInv'
  BY <1>1, <1>2, NothingMoves DEF DialogueInv
<1>4. FieldsInv'
  BY <1>1, <1>2 DEF DialogueInv, FieldsInv, Points
<1>5. FlagsInv'
  BY <1>1, Zenon DEF DialogueInv, FlagsInv
<1>6. PointInv' /\ RecoverInv'
  BY <1>1, Zenon DEF PointInv, Judged, RecoverInv
<1>7. CallsInv'
  BY <1>1, CompactionKeepsCalls
<1>8. failing = 0 /\ delivered = 0
  <2>1. failing = 0
    BY <1>1 DEF DialogueInv, CountInv
  <2>2. NoneDelivered
    BY <1>1 DEF NoneDelivered
  <2> QED
    BY <2>1, <2>2 DEF DialogueInv, DeliveredInv
<1>9. CountInv'
  BY <1>1, <1>8, AgentLoopAssumption DEF DialogueInv, FieldsInv, CountInv, Judged, Spent
<1>10. DeliveredInv'
  BY <1>1, <1>8 DEF DialogueInv, DeliveredInv
<1> QED
  BY <1>2, <1>3, <1>4, <1>5, <1>6, <1>7, <1>9, <1>10 DEF DialogueInv

LEMMA CommitInputKeeps ==
    ASSUME DialogueInv, CommitInput
    PROVE  DialogueInv'
<1>1. /\ pc = "commit" /\ pc' = "commit" /\ UNCHANGED <<inputVars, lost>>
      /\ UNCHANGED <<next, skip, calls, more, decision>>
      /\ UNCHANGED <<signal, stop, last, reason, attempt, retry>>
      /\ UNCHANGED <<start, delivered>>
      /\ pending # <<>> /\ pending' = Tail(pending)
      /\ history' = Append(history, Input(Head(pending)))
      /\ recovered' = FALSE /\ failing' = 0
  BY DEF CommitInput
<1>2. WellFormed(history) /\ history \in Seq(Entries) /\ StageInv
  BY DEF DialogueInv, WellFormed
<1>3. PICK x, g, k : x = Head(pending) /\ g = history' /\ k = Len(history)
  OBVIOUS
<1>4. /\ x \in Nat
      /\ Input(x) \in Entries /\ Input(x).type = "input"
  <2>1. pending \in Seq(DOMAIN given) /\ DOMAIN given \subseteq Nat
    BY <1>2, LenProperties DEF StageInv
  <2>2. x \in Nat
    BY <1>1, <1>3, <2>1, HeadTailProperties
  <2> QED
    BY <2>2, EntryTypes
<1>5. /\ k \in Nat /\ Len(g) = k + 1 /\ \A i \in 1..k : g[i] = history[i]
      /\ g[k + 1].type = "input"
  BY <1>1, <1>2, <1>3, <1>4, HistoryAppended
<1>6. WellFormed(g)
  BY <1>1, <1>2, <1>3, <1>4, SpokenKeeps DEF Spoken
<1>7. StageInv'
  BY <1>1, <1>2, InputCommitted
<1>8. FieldsInv'
  BY <1>1, <1>3, <1>5 DEF DialogueInv, FieldsInv, Points
<1>9. FlagsInv'
  BY <1>1, Zenon DEF DialogueInv, FlagsInv
<1>10. PointInv' /\ RecoverInv'
  BY <1>1, Zenon DEF PointInv, Judged, RecoverInv
<1>11. CallsInv'
  <2>1. \A i \in k + 1..Len(g) : g[i].type = "input"
    BY <1>5
  <2>2. \A i \in k + 1..Len(g) :
           g[i].type = "assistant" =>
             \A c \in 1..g[i].calls :
                pc' = "tools" /\ i = last' /\ c \in calls'
    BY <2>1
  <2>3. Len(g) \in Nat /\ k <= Len(g)
    BY <1>5
  <2> QED
    BY <1>1, <1>3, <1>5, <2>2, <2>3, CallsKept DEF DialogueInv, Places
<1>12. CountInv'
  BY <1>1, AgentLoopAssumption DEF DialogueInv, FieldsInv, CountInv, Judged, Spent
<1>13. DeliveredInv'
  BY <1>1 DEF DialogueInv, DeliveredInv, NoneDelivered, Judged
<1> QED
  BY <1>3, <1>6, <1>7, <1>8, <1>9, <1>10, <1>11, <1>12, <1>13 DEF DialogueInv

LEMMA EnterLoopKeeps ==
    ASSUME DialogueInv, EnterLoop
    PROVE  DialogueInv'
<1>1. /\ pc = "commit" /\ pc' = "commit" /\ UNCHANGED <<history, followUp, given, lost>>
      /\ UNCHANGED <<calls, more, decision>>
      /\ UNCHANGED <<signal, stop, last, reason, attempt, retry, recovered>>
      /\ UNCHANGED <<start, failing>>
      /\ pending = <<>> /\ next = "loop" /\ next' = "request" /\ skip' = FALSE
  BY DEF EnterLoop, runVars
<1>2. \/ skip /\ UNCHANGED <<pending, steering, delivered>>
      \/ /\ ~skip /\ pending' = Peek(steering) /\ steering' = Rest(steering)
         /\ delivered' = delivered + Len(Peek(steering))
  BY DEF EnterLoop, SkipInitialPoll
<1>3. Quiet(history, history') /\ WellFormed(history') /\ Len(history) \in Nat
  BY <1>1, SameHistory
<1>4. StageInv
  BY DEF DialogueInv
<1>5. StageInv'
  <2>1. CASE pending' = Peek(steering) /\ steering' = Rest(steering)
    BY <1>1, <1>3, <1>4, <2>1, SteeringTaken
  <2>2. CASE UNCHANGED <<pending, steering>>
    BY <1>1, <1>3, <1>4, <2>2, NothingMoves DEF inputVars
  <2> QED
    BY <1>2, <2>1, <2>2
<1>6. /\ delivered' \in Nat
      /\ Mode = "one-at-a-time" => delivered' <= 1
  <2>1. /\ Len(Peek(steering)) \in Nat
        /\ Mode = "one-at-a-time" => Len(Peek(steering)) <= 1
    BY <1>4, PollBounded
  <2>2. ~skip => NoneDelivered
    BY <1>1, Zenon DEF NoneDelivered
  <2>3. \/ delivered' = delivered
        \/ delivered = 0 /\ delivered' = delivered + Len(Peek(steering))
    BY <1>2, <2>2, Zenon DEF DialogueInv, DeliveredInv
  <2>4. /\ delivered \in Nat
        /\ Mode = "one-at-a-time" => delivered <= 1
    BY DEF DialogueInv, DeliveredInv, FieldsInv
  <2> QED
    BY <2>1, <2>3, <2>4
<1>7. FieldsInv'
  BY <1>1, <1>3, <1>6 DEF DialogueInv, FieldsInv, Points
<1>8. FlagsInv'
  BY <1>1, Zenon DEF DialogueInv, FlagsInv
<1>9. PointInv' /\ RecoverInv'
  BY <1>1, Zenon DEF PointInv, Judged, RecoverInv
<1>10. CallsInv'
  <2>1. UNCHANGED <<history, start>> /\ pc # "tools"
    BY <1>1
  <2>2. pc' = "stream" \/ ~signal' => pc = "stream" \/ ~signal
    BY <1>1
  <2> QED
    BY <2>1, <2>2, HistoryKeepsCalls
<1>11. CountInv'
  BY <1>1 DEF DialogueInv, CountInv, Judged, Spent
<1>12. DeliveredInv'
  <2>1. ~NoneDelivered'
    BY <1>1, Zenon DEF NoneDelivered, Judged
  <2> QED
    BY <1>6, <2>1 DEF DeliveredInv
<1> QED
  BY <1>3, <1>5, <1>7, <1>8, <1>9, <1>10, <1>11, <1>12 DEF DialogueInv

LEMMA RequestKeeps ==
    ASSUME DialogueInv, Request
    PROVE  DialogueInv'
<1>1. /\ pc = "commit" /\ pc' = "stream" /\ UNCHANGED <<history, inputVars, lost>>
      /\ UNCHANGED <<pending, next, skip, calls, more, decision>>
      /\ UNCHANGED <<signal, stop, last, reason, attempt, retry, recovered>>
      /\ UNCHANGED <<start, failing>>
      /\ pending = <<>> /\ ~signal /\ delivered' = 0
  BY DEF Request, runVars, loopVars
<1>2. Quiet(history, history') /\ WellFormed(history') /\ Len(history) \in Nat
  BY <1>1, SameHistory
<1>3. StageInv'
  BY <1>1, <1>2, NothingMoves DEF DialogueInv
<1>4. FieldsInv'
  BY <1>1, <1>2 DEF DialogueInv, FieldsInv, Points
<1>5. FlagsInv'
  BY <1>1, Zenon DEF DialogueInv, FlagsInv
<1>6. PointInv' /\ RecoverInv'
  BY <1>1, Zenon DEF PointInv, Judged, RecoverInv
<1>7. CallsInv'
  <2>1. UNCHANGED <<history, start>> /\ pc # "tools"
    BY <1>1
  <2>2. pc' = "stream" \/ ~signal' => pc = "stream" \/ ~signal
    BY <1>1
  <2> QED
    BY <2>1, <2>2, HistoryKeepsCalls
<1>8. CountInv'
  BY <1>1 DEF DialogueInv, CountInv, Judged, Spent
<1>9. DeliveredInv'
  BY <1>1 DEF DeliveredInv
<1> QED
  BY <1>2, <1>3, <1>4, <1>5, <1>6, <1>7, <1>8, <1>9 DEF DialogueInv

-----------------------------------------------------------------------------
(* A turn                                                                  *)

LEMMA CallsOfBounded ==
    ASSUME NEW why, NEW n \in CallsOf(why)
    PROVE  n \in Nat /\ 1..n \subseteq 1..MaxCalls
<1>1. MaxCalls \in Nat
  BY AgentLoopAssumption
<1>2. n = 0 \/ n \in 0..MaxCalls
  BY <1>1 DEF CallsOf
<1> QED
  BY <1>1, <1>2

LEMMA RespondKeeps ==
    ASSUME DialogueInv, Respond
    PROVE  DialogueInv'
<1>1. PICK why, n :
         /\ n \in CallsOf(why)
         /\ CommitResponse(why, n)
         /\ failing' = IF why \in Failed \union {"length"} THEN failing + 1 ELSE 0
         /\ calls' = IF signal \/ why \in HardExits THEN {} ELSE 1..n
  BY DEF Respond
<1>2. /\ pc = "stream" /\ UNCHANGED <<inputVars, lost>>
      /\ UNCHANGED <<pending, next, skip, decision, signal, stop>>
      /\ UNCHANGED <<start, delivered>>
      /\ pc' = IF calls' = {} THEN "finish" ELSE "tools"
      /\ more' = FALSE
  BY DEF Respond
<1>3. /\ history' = Append(history, Assistant(n, why \in HardExits))
      /\ last' = Len(history') /\ reason' = why
      /\ attempt' = IF why \in Failed THEN attempt ELSE 0
  BY <1>1 DEF CommitResponse
<1>4. /\ recovered' \in BOOLEAN /\ retry' \in BOOLEAN
      /\ why \in Failed \union {"length"} => recovered' = recovered
  BY <1>1, Zenon DEF CommitResponse, DialogueInv, FlagsInv, Truncated
<1>5. n \in Nat /\ 1..n \subseteq 1..MaxCalls
  BY <1>1, CallsOfBounded
<1>6. /\ WellFormed(history') /\ Quiet(history, history')
      /\ Len(history) \in Nat /\ Len(history') = Len(history) + 1
      /\ \A i \in Places : history'[i] = history[i]
      /\ \A i \in Len(history) + 1..Len(history') :
            /\ i = Len(history') /\ history'[i].calls = n
            /\ why \in HardExits => history'[i].hard
      /\ Newest(history', Len(history'))
  BY <1>3, <1>5, ResponseAdded
<1>7. pending = <<>> /\ delivered = 0
  <2>1. pending = <<>>
    BY <1>2 DEF DialogueInv, PointInv
  <2>2. NoneDelivered
    BY <1>2 DEF NoneDelivered
  <2> QED
    BY <2>1, <2>2 DEF DialogueInv, DeliveredInv
<1>8. StageInv'
  BY <1>2, <1>6, NothingMoves DEF DialogueInv
<1>9. FieldsInv'
  <2>1. pc' \in Points /\ failing' \in Nat /\ delivered' \in Nat /\ start' \in Nat
    BY <1>1, <1>2 DEF DialogueInv, FieldsInv, Points
  <2>2. attempt' \in 0..MaxRetries
    BY <1>3, AgentLoopAssumption DEF DialogueInv, FieldsInv
  <2>3. calls' \subseteq 1..MaxCalls
    BY <1>1, <1>5
  <2>4. last' \in 0..Len(history')
    BY <1>3, <1>6
  <2> QED
    BY <2>1, <2>2, <2>3, <2>4 DEF FieldsInv
<1>10. FlagsInv'
  BY <1>2, <1>4, Zenon DEF DialogueInv, FlagsInv
<1>11. PointInv'
  <2>1. pc' = "tools" => calls' # {} /\ reason' # "error"
    <3>1. why = "error" => calls' = {}
      BY <1>1 DEF HardExits, Failed
    <3> QED
      BY <1>2, <1>3, <3>1
  <2>2. pc' \in {"finish", "tools"} /\ pending' = <<>>
    BY <1>2, <1>7
  <2> QED
    BY <1>3, <1>6, <2>1, <2>2 DEF PointInv
<1>12. RecoverInv'
  BY <1>2 DEF RecoverInv
<1>13. CallsInv'
  <2>1. CASE signal
    BY <1>2, <2>1 DEF CallsInv
  <2>2. CASE ~signal
    <3>1. \A i \in Len(history) + 1..Len(history') :
             history'[i].type = "assistant" /\ ~history'[i].hard =>
               \A c \in 1..history'[i].calls :
                  pc' = "tools" /\ i = last' /\ c \in calls'
      <4>1. SUFFICES ASSUME NEW i \in Len(history) + 1..Len(history'),
                            ~history'[i].hard, NEW c \in 1..history'[i].calls
                     PROVE  pc' = "tools" /\ i = last' /\ c \in calls'
        OBVIOUS
      <4>2. i = last' /\ c \in 1..n /\ why \notin HardExits
        BY <1>3, <1>6, <4>1
      <4>3. c \in calls'
        BY <1>1, <2>2, <4>2
      <4> QED
        BY <1>2, <4>2, <4>3
    <3>2. /\ Len(history) \in Nat /\ Len(history') \in Nat
          /\ Len(history) <= Len(history')
      BY <1>6
    <3>3. pc # "tools" /\ start' = start /\ CallsInv /\ pc = "stream"
      BY <1>2 DEF DialogueInv
    <3> QED
      BY <1>6, <3>1, <3>2, <3>3, CallsKept
  <2> QED
    BY <2>1, <2>2
<1>14. CountInv'
  <2>1. /\ failing <= Spent + attempt /\ failing \in Nat /\ attempt \in 0..MaxRetries
        /\ MaxRetries \in Nat /\ Spent \in Nat
    BY <1>2, <1>7, AgentLoopAssumption DEF DialogueInv, CountInv, FieldsInv, Spent
  <2>2. Spent' \in Nat /\ pc' \in {"finish", "tools"}
    BY <1>2, AgentLoopAssumption DEF Spent
  <2>3. CASE why \in Failed \union {"length"}
    <3>1. Spent' = Spent /\ failing' = failing + 1
      BY <1>1, <1>4, <2>3 DEF Spent
    <3>2. reason' = "error" => attempt' = attempt
      BY <1>3 DEF Failed
    <3>3. reason' \in Failed \union {"length"}
      BY <1>3, <2>3
    <3> QED
      BY <2>1, <2>2, <3>1, <3>2, <3>3 DEF CountInv
  <2>4. CASE why \notin Failed \union {"length"}
    <3>1. failing' = 0 /\ reason' # "error"
      BY <1>1, <1>3, <2>4 DEF Failed
    <3>2. failing' <= Spent' + MaxRetries + 1
      <4>1. PICK s : s = Spent'
        OBVIOUS
      <4>2. s \in Nat /\ MaxRetries \in Nat
        BY <2>1, <2>2, <4>1
      <4>3. 0 <= s + MaxRetries + 1
        BY <4>2
      <4> QED
        BY <3>1, <4>1, <4>3
    <3>3. pc' \notin {"idle", "start", "prepare", "commit", "stream", "omit", "wait", "recover"}
      BY <2>2
    <3> QED
      BY <3>1, <3>2, <3>3 DEF CountInv
  <2> QED
    BY <2>3, <2>4
<1>15. DeliveredInv'
  BY <1>2, <1>7 DEF DeliveredInv
<1> QED
  BY <1>6, <1>8, <1>9, <1>10, <1>11, <1>12, <1>13, <1>14, <1>15 DEF DialogueInv

LEMMA CommitResultKeeps ==
    ASSUME DialogueInv, CommitResult
    PROVE  DialogueInv'
<1>1. PICK c : c = CHOOSE x \in calls : \A y \in calls : x <= y
  OBVIOUS
<1>2. /\ pc = "tools" /\ UNCHANGED <<inputVars, lost>>
      /\ UNCHANGED <<pending, next, skip, decision>>
      /\ UNCHANGED <<signal, stop, last, reason, attempt, retry, recovered>>
      /\ UNCHANGED <<start, delivered, failing>>
      /\ history' = Append(history, Result(last, c))
      /\ calls' = calls \ {c} \/ (signal /\ calls' = {})
      /\ pc' = IF calls' = {} THEN "finish" ELSE "tools"
  BY <1>1 DEF CommitResult, CallResolves, runVars, ghostVars
<1>3. more' \in BOOLEAN
  BY Zenon DEF CommitResult
<1>4. /\ calls \subseteq 1..MaxCalls /\ calls # {} /\ reason # "error"
      /\ Newest(history, last) /\ WellFormed(history) /\ pending = <<>>
  BY <1>2 DEF DialogueInv, FieldsInv, PointInv
<1>5. c \in calls /\ c \in Nat
  <2>1. calls \in SUBSET Nat
    BY <1>4
  <2>2. \E x \in calls : \A y \in calls : x <= y
    BY <1>4, <2>1, SmallestExists
  <2> QED
    BY <1>1, <2>1, <2>2
<1>6. WellFormed(history') /\ Newest(history', last)
  <2>1. PICK a, h : a = last /\ h = history
    OBVIOUS
  <2>2. WellFormed(Append(h, Result(a, c))) /\ Newest(Append(h, Result(a, c)), a)
    BY <1>4, <1>5, <2>1, ResultKeeps
  <2> QED
    BY <1>2, <2>1, <2>2
<1>7. /\ Len(history) \in Nat /\ Len(history') = Len(history) + 1
      /\ \A i \in 1..Len(history) : history'[i] = history[i]
      /\ history'[Len(history) + 1] = Result(last, c)
      /\ Result(last, c).type = "result"
  <2>1. last \in Nat
    BY <1>4, LenProperties DEF Newest, WellFormed
  <2>2. Result(last, c) \in Entries /\ Result(last, c).type = "result"
    BY <1>5, <2>1, EntryTypes
  <2>3. history \in Seq(Entries)
    BY <1>4 DEF WellFormed
  <2>4. PICK e : e = Result(last, c)
    OBVIOUS
  <2> QED
    BY <1>2, <2>2, <2>3, <2>4, HistoryAppended
<1>8. \A i \in Len(history) + 1..Len(history') :
         i = Len(history) + 1 /\ history'[i].type = "result"
  BY <1>7
<1>9. StageInv'
  <2>1. Quiet(history, history')
    BY <1>7, <1>8 DEF Quiet
  <2> QED
    BY <1>2, <2>1, NothingMoves DEF DialogueInv
<1>10. FieldsInv'
  <2>1. calls' \subseteq 1..MaxCalls /\ pc' \in Points
    BY <1>2, <1>4 DEF Points
  <2>2. last' \in 0..Len(history')
    BY <1>2, <1>7 DEF DialogueInv, FieldsInv
  <2> QED
    BY <1>2, <2>1, <2>2 DEF DialogueInv, FieldsInv
<1>11. FlagsInv'
  BY <1>2, <1>3, Zenon DEF DialogueInv, FlagsInv
<1>12. PointInv' /\ RecoverInv'
  BY <1>2, <1>4, <1>6 DEF PointInv, RecoverInv
<1>13. CallsInv'
  <2>1. CASE signal
    BY <1>2, <2>1 DEF CallsInv
  <2>2. CASE ~signal
    <3>1. ASSUME NEW d \in calls
          PROVE  \/ pc' = "tools" /\ d \in calls'
                 \/ \E j \in Places' : history'[j] = Result(last, d)
      <4>1. CASE d = c
        <5>1. Len(history) + 1 \in Places'
          BY <1>7 DEF Places
        <5> QED
          BY <1>7, <4>1, <5>1
      <4>2. CASE d # c
        BY <1>2, <2>2, <3>1, <4>2
      <4> QED
        BY <4>1, <4>2
    <3>2. /\ Len(history) \in Nat /\ Len(history') \in Nat
          /\ Len(history) <= Len(history')
          /\ \A i \in Places : history'[i] = history[i]
      BY <1>7 DEF Places
    <3>3. start' = start /\ CallsInv /\ last' = last /\ ~signal
      BY <1>2, <2>2 DEF DialogueInv
    <3>4. \A i \in Len(history) + 1..Len(history') : history'[i].type # "assistant"
      BY <1>8
    <3> QED
      BY <3>1, <3>2, <3>3, <3>4, CallsKept
  <2> QED
    BY <2>1, <2>2
<1>14. CountInv'
  BY <1>2 DEF DialogueInv, CountInv, Judged, Spent
<1>15. DeliveredInv'
  BY <1>2 DEF DialogueInv, DeliveredInv, NoneDelivered, Judged
<1> QED
  BY <1>6, <1>9, <1>10, <1>11, <1>12, <1>13, <1>14, <1>15 DEF DialogueInv

LEMMA FinishTurnKeeps ==
    ASSUME DialogueInv, FinishTurn
    PROVE  DialogueInv'
<1>1. /\ pc = "finish" /\ pc' = "turned" /\ UNCHANGED <<history, inputVars, lost>>
      /\ UNCHANGED <<pending, next, skip, calls, more>>
      /\ UNCHANGED <<signal, last, reason, attempt, retry, recovered>>
      /\ UNCHANGED <<start, delivered, failing>>
  BY DEF FinishTurn, ghostVars
<1>2. stop' \in BOOLEAN
  BY Zenon DEF FinishTurn
<1>3. reason \in Failed \union {"length"} => decision' = "end"
  BY DEF FinishTurn, HardExits
<1>4. Quiet(history, history') /\ WellFormed(history') /\ Len(history) \in Nat
  BY <1>1, SameHistory
<1>5. StageInv'
  BY <1>1, <1>4, NothingMoves DEF DialogueInv
<1>6. FieldsInv'
  BY <1>1, <1>4 DEF DialogueInv, FieldsInv, Points
<1>7. FlagsInv'
  BY <1>1, <1>2, Zenon DEF DialogueInv, FlagsInv
<1>8. PointInv' /\ RecoverInv'
  BY <1>1, <1>3 DEF DialogueInv, PointInv, Judged, RecoverInv
<1>9. CallsInv'
  <2>1. UNCHANGED <<history, start>> /\ pc # "tools"
    BY <1>1
  <2>2. pc' = "stream" \/ ~signal' => pc = "stream" \/ ~signal
    BY <1>1
  <2> QED
    BY <2>1, <2>2, HistoryKeepsCalls
<1>10. CountInv'
  BY <1>1 DEF DialogueInv, CountInv, Judged, Spent
<1>11. DeliveredInv'
  BY <1>1 DEF DialogueInv, DeliveredInv, NoneDelivered, Judged
<1> QED
  BY <1>4, <1>5, <1>6, <1>7, <1>8, <1>9, <1>10, <1>11 DEF DialogueInv

LEMMA AfterTurnKeeps ==
    ASSUME DialogueInv, AfterTurn
    PROVE  DialogueInv'
<1>1. /\ pc = "turned" /\ pc' \in {"ended", "prepare"}
      /\ UNCHANGED <<history, given, lost>> /\ UNCHANGED <<skip, calls>>
      /\ UNCHANGED <<signal, stop, last, reason, attempt, retry, recovered>>
      /\ UNCHANGED <<start, failing>>
      /\ next' = "request" /\ more' = TRUE
  BY DEF AfterTurn, runVars
<1>2. /\ pending = <<>> /\ delivered = 0 /\ Newest(history, last) /\ StageInv
      /\ reason \in Failed \union {"length"} => decision = "end"
      /\ reason = "error" => last = Len(history)
      /\ reason \notin Failed \union {"length"} => failing = 0
      /\ reason = "error" => failing <= Spent + attempt + 1
  <2>1. NoneDelivered
    BY <1>1 DEF NoneDelivered, Judged
  <2> QED
    BY <1>1, <2>1 DEF DialogueInv, PointInv, CountInv, DeliveredInv, Judged
<1>3. /\ Len(Peek(steering)) \in Nat
      /\ Mode = "one-at-a-time" => Len(Peek(steering)) <= 1
      /\ Peek(steering) = <<>> <=> steering = <<>>
      /\ steering = <<>> => Rest(steering) = <<>> /\ Len(Peek(steering)) = 0
  BY <1>2, PollBounded, Polls
<1>4. \/ /\ TurnIsLast /\ pc' = "ended" /\ UNCHANGED <<pending, steering, followUp, delivered>>
      \/ /\ ~TurnIsLast /\ steering # <<>> /\ pc' = "prepare"
         /\ pending' = Peek(steering) /\ steering' = Rest(steering)
         /\ UNCHANGED followUp /\ delivered' = Len(Peek(steering))
      \/ /\ ~TurnIsLast /\ steering = <<>> /\ steering' = steering
         /\ pending' = <<>> /\ UNCHANGED followUp /\ delivered' = 0
      \/ /\ ~TurnIsLast /\ steering = <<>> /\ steering' = steering
         /\ pending' = Peek(followUp) /\ followUp' = Rest(followUp) /\ delivered' = 0
         /\ pending' # <<>> => pc' = "prepare"
  <2>1. CASE TurnIsLast
    BY <2>1 DEF AfterTurn
  <2>2. CASE ~TurnIsLast /\ steering # <<>>
    BY <1>3, <2>2 DEF AfterTurn
  <2>3. CASE ~TurnIsLast /\ steering = <<>> /\ more
    BY <1>3, <2>3 DEF AfterTurn
  <2>4. CASE ~TurnIsLast /\ steering = <<>> /\ ~more
    BY <1>3, <2>4 DEF AfterTurn
  <2> QED
    BY <2>1, <2>2, <2>3, <2>4
<1>5. Quiet(history, history') /\ WellFormed(history') /\ Len(history) \in Nat
  BY <1>1, SameHistory
<1>6. StageInv'
  <2>1. CASE UNCHANGED <<pending, steering, followUp>>
    BY <1>1, <1>2, <1>5, <2>1, NothingMoves DEF inputVars
  <2>2. CASE /\ pending' = Peek(steering) /\ steering' = Rest(steering)
             /\ UNCHANGED followUp
    BY <1>1, <1>2, <1>5, <2>2, SteeringTaken
  <2>3. CASE /\ pending' = Peek(followUp) /\ followUp' = Rest(followUp)
             /\ UNCHANGED steering
    BY <1>1, <1>2, <1>5, <2>3, FollowUpTaken
  <2> QED
    BY <1>2, <1>4, <2>1, <2>2, <2>3
<1>7. /\ delivered' \in Nat
      /\ Mode = "one-at-a-time" => delivered' <= 1
      /\ pc' = "ended" => delivered' = 0 /\ pending' = <<>>
      /\ pc' = "prepare" /\ pending' = <<>> => delivered' = 0
      /\ pc' = "prepare" => ~TurnIsLast
  BY <1>2, <1>3, <1>4
<1>8. FieldsInv'
  BY <1>1, <1>5, <1>7 DEF DialogueInv, FieldsInv, Points
<1>9. FlagsInv'
  BY <1>1, Zenon DEF DialogueInv, FlagsInv
<1>10. PointInv' /\ RecoverInv'
  BY <1>1, <1>2, <1>7 DEF PointInv, Judged, RecoverInv
<1>11. CallsInv'
  <2>1. UNCHANGED <<history, start>> /\ pc # "tools"
    BY <1>1
  <2>2. pc' = "stream" \/ ~signal' => pc = "stream" \/ ~signal
    BY <1>1
  <2> QED
    BY <2>1, <2>2, HistoryKeepsCalls
<1>12. CountInv'
  <2>1. pc' = "prepare" => failing = 0
    BY <1>2, <1>7 DEF TurnIsLast
  <2> QED
    BY <1>1, <1>2, <2>1 DEF DialogueInv, CountInv, Judged, Spent
<1>13. DeliveredInv'
  <2>1. NoneDelivered' => pc' = "ended" \/ (pc' = "prepare" /\ pending' = <<>>)
    BY <1>1 DEF NoneDelivered, Judged
  <2> QED
    BY <1>7, <2>1 DEF DeliveredInv
<1> QED
  BY <1>5, <1>6, <1>8, <1>9, <1>10, <1>11, <1>12, <1>13 DEF DialogueInv

LEMMA PrepareTurnKeeps ==
    ASSUME DialogueInv, PrepareTurn
    PROVE  DialogueInv'
<1>1. /\ pc = "prepare" /\ pc' = "commit" /\ UNCHANGED <<followUp, given, lost>>
      /\ UNCHANGED <<next, skip, calls, more, decision>>
      /\ UNCHANGED <<signal, stop, last, reason, attempt, retry, recovered>>
      /\ UNCHANGED <<start, failing>>
      /\ history' \in AutoCompacted /\ next = "request"
  BY DEF PrepareTurn, runVars, DialogueInv, PointInv
<1>2. \/ UNCHANGED <<pending, steering, delivered>>
      \/ /\ pending = <<>> /\ pending' = Peek(steering) /\ steering' = Rest(steering)
         /\ delivered' = delivered + Len(Peek(steering))
  BY DEF PrepareTurn, PollAgain
<1>3. /\ WellFormed(history') /\ Quiet(history, history')
      /\ Len(history) \in Nat /\ Len(history') \in Nat /\ Len(history) <= Len(history')
  BY <1>1, CompactionKeeps
<1>4. StageInv
  BY DEF DialogueInv
<1>5. StageInv'
  <2>1. CASE /\ pending = <<>> /\ pending' = Peek(steering)
             /\ steering' = Rest(steering)
    BY <1>1, <1>3, <1>4, <2>1, SteeringTaken
  <2>2. CASE UNCHANGED <<pending, steering>>
    BY <1>1, <1>3, <1>4, <2>2, NothingMoves DEF inputVars
  <2> QED
    BY <1>2, <2>1, <2>2
<1>6. /\ delivered' \in Nat
      /\ Mode = "one-at-a-time" => delivered' <= 1
  <2>1. /\ Len(Peek(steering)) \in Nat
        /\ Mode = "one-at-a-time" => Len(Peek(steering)) <= 1
    BY <1>4, PollBounded
  <2>2. pending = <<>> => delivered = 0
    BY <1>1 DEF DialogueInv, DeliveredInv, NoneDelivered
  <2>3. /\ delivered \in Nat
        /\ Mode = "one-at-a-time" => delivered <= 1
    BY DEF DialogueInv, DeliveredInv, FieldsInv
  <2> QED
    BY <1>2, <2>1, <2>2, <2>3
<1>7. FieldsInv'
  BY <1>1, <1>3, <1>6 DEF DialogueInv, FieldsInv, Points
<1>8. FlagsInv'
  BY <1>1, Zenon DEF DialogueInv, FlagsInv
<1>9. PointInv' /\ RecoverInv'
  BY <1>1 DEF PointInv, Judged, RecoverInv
<1>10. CallsInv'
  <2>1. start' = start /\ pc # "tools"
    BY <1>1
  <2>2. pc' = "stream" \/ ~signal' => pc = "stream" \/ ~signal
    BY <1>1
  <2> QED
    BY <1>1, <2>1, <2>2, CompactionKeepsCalls
<1>11. CountInv'
  BY <1>1, AgentLoopAssumption DEF DialogueInv, FieldsInv, CountInv, Judged, Spent
<1>12. DeliveredInv'
  <2>1. ~NoneDelivered'
    BY <1>1 DEF NoneDelivered, Judged
  <2> QED
    BY <1>6, <2>1 DEF DeliveredInv
<1> QED
  BY <1>3, <1>5, <1>7, <1>8, <1>9, <1>10, <1>11, <1>12 DEF DialogueInv

-----------------------------------------------------------------------------
(* After a loop has ended                                                  *)

LEMMA SelectNextKeeps ==
    ASSUME DialogueInv, SelectNext
    PROVE  DialogueInv'
<1>1. /\ pc = "ended" /\ UNCHANGED <<history, inputVars, lost>>
      /\ UNCHANGED <<pending, next, skip, calls, more, decision>>
      /\ UNCHANGED <<signal, stop, last, reason, recovered>>
      /\ UNCHANGED <<start, delivered, failing>>
  BY DEF SelectNext, loopVars, ghostVars
<1>2. \/ pc' = "settle" /\ attempt' = attempt
      \/ pc' = "check" /\ attempt' = attempt
      \/ /\ pc' = "omit" /\ reason = "error" /\ attempt < MaxRetries
         /\ attempt' = attempt + 1
  BY DEF SelectNext, ShouldRetry
<1>3. retry' \in BOOLEAN
  BY Zenon DEF SelectNext, DialogueInv, FlagsInv
<1>4. /\ pending = <<>> /\ delivered = 0 /\ Newest(history, last)
      /\ reason = "error" => last = Len(history)
      /\ reason \notin Failed \union {"length"} => failing = 0
      /\ reason = "error" => failing <= Spent + attempt + 1
  <2>1. NoneDelivered
    BY <1>1 DEF NoneDelivered, Judged
  <2> QED
    BY <1>1, <2>1 DEF DialogueInv, PointInv, CountInv, DeliveredInv, Judged
<1>5. Quiet(history, history') /\ WellFormed(history') /\ Len(history) \in Nat
  BY <1>1, SameHistory
<1>6. StageInv'
  BY <1>1, <1>5, NothingMoves DEF DialogueInv
<1>7. FieldsInv'
  <2>1. pc' \in Points /\ attempt' \in 0..MaxRetries
    BY <1>2, AgentLoopAssumption DEF DialogueInv, FieldsInv, Points
  <2> QED
    BY <1>1, <2>1 DEF DialogueInv, FieldsInv
<1>8. FlagsInv'
  BY <1>1, <1>3, Zenon DEF DialogueInv, FlagsInv
<1>9. PointInv' /\ RecoverInv'
  BY <1>1, <1>2, <1>4 DEF PointInv, Judged, RecoverInv
<1>10. CallsInv'
  <2>1. UNCHANGED <<history, start>> /\ pc # "tools"
    BY <1>1
  <2>2. pc' = "stream" \/ ~signal' => pc = "stream" \/ ~signal
    BY <1>1, <1>2
  <2> QED
    BY <2>1, <2>2, HistoryKeepsCalls
<1>11. CountInv'
  <2>1. /\ Spent' = Spent /\ Spent \in Nat /\ attempt \in 0..MaxRetries /\ failing \in Nat
        /\ MaxRetries \in Nat /\ failing <= Spent + MaxRetries + 1
    BY <1>1, AgentLoopAssumption DEF DialogueInv, FieldsInv, CountInv, Spent
  <2>2. pc' # "omit" => attempt' = attempt
    BY <1>2
  <2>3. pc' = "omit" => failing <= Spent + attempt'
    BY <1>2, <1>4, <2>1
  <2>4. pc' \in {"settle", "check", "omit"}
    BY <1>2
  <2> QED
    BY <1>1, <1>4, <2>1, <2>2, <2>3, <2>4 DEF CountInv
<1>12. DeliveredInv'
  BY <1>1, <1>4 DEF DialogueInv, DeliveredInv
<1> QED
  BY <1>5, <1>6, <1>7, <1>8, <1>9, <1>10, <1>11, <1>12 DEF DialogueInv

LEMMA OmitFailedKeeps ==
    ASSUME DialogueInv, OmitFailed
    PROVE  DialogueInv'
<1>1. /\ pc = "omit" /\ pc' = "wait" /\ UNCHANGED <<inputVars, lost>>
      /\ UNCHANGED <<pending, next, skip, calls, more, decision>>
      /\ UNCHANGED <<signal, stop, last, reason, attempt, retry, recovered>>
      /\ UNCHANGED <<start, delivered, failing>>
      /\ history' = Append(history, Omission(last))
  BY DEF OmitFailed, loopVars, runVars, ghostVars
<1>2. /\ pending = <<>> /\ delivered = 0 /\ Newest(history, last)
      /\ last = Len(history) /\ WellFormed(history)
      /\ failing <= Spent + attempt
  <2>1. NoneDelivered
    BY <1>1 DEF NoneDelivered, Judged
  <2> QED
    BY <1>1, <2>1 DEF DialogueInv, PointInv, CountInv, DeliveredInv, Judged
<1>3. PICK h, g, a : h = history /\ g = history' /\ a = last
  OBVIOUS
<1>4. /\ a \in Nat /\ a = Len(h) /\ a >= 1 /\ g \in Seq(Entries) /\ Len(g) = a + 1
      /\ \A i \in 1..a : g[i] = h[i]
      /\ g[a + 1].type = "omission" /\ g[a + 1].target = a
  <2>1. a \in Nat /\ a = Len(h) /\ a >= 1 /\ h \in Seq(Entries)
    BY <1>2, <1>3, LenProperties DEF Newest, WellFormed
  <2>2. /\ Omission(a) \in Entries /\ Omission(a).type = "omission"
        /\ Omission(a).target = a
    <3>1. a \in Nat /\ 0 \in Nat
      BY <2>1
    <3> QED
      BY <3>1, EntryTypes
  <2>3. PICK e : e = Omission(a)
    OBVIOUS
  <2>4. g = Append(h, e)
    BY <1>1, <1>3, <2>3
  <2>5. /\ g \in Seq(Entries) /\ Len(g) = Len(h) + 1
        /\ \A i \in 1..Len(h) : g[i] = h[i]
        /\ g[Len(h) + 1] = e
    BY <2>1, <2>2, <2>3, <2>4, HistoryAppended
  <2> QED
    BY <2>1, <2>2, <2>3, <2>5
<1>5. WellFormed(g)
  <2>1. WellFormed(h) /\ Newest(h, a)
    BY <1>2, <1>3
  <2>2. 1 \in Nat /\ Len(g) = Len(h) + 1
    BY <1>4
  <2>3. \A j \in Len(h) + 1..Len(g) : j = a + 1
    BY <1>4
  <2>4. \A j \in Len(h) + 1..Len(g) :
           g[j].type = "omission" /\ g[j].target \in a..Len(h)
    BY <1>4, <2>3
  <2>5. \A i \in a..Len(h) : \E j \in Len(h) + 1..Len(g) : Omits(g, j, i)
    <3>1. ASSUME NEW i \in a..Len(h)
          PROVE  Omits(g, a + 1, i)
      <4>1. i = a
        BY <1>4, <3>1
      <4> QED
        BY <1>4, <4>1 DEF Omits
    <3>2. a + 1 \in Len(h) + 1..Len(g)
      BY <1>4
    <3> QED
      BY <3>1, <3>2
  <2>6. \A j, m \in Len(h) + 1..Len(g) : ~(g[j].target < g[m].target)
    BY <1>4, <2>3
  <2> QED
    BY <1>4, <2>1, <2>2, <2>4, <2>5, <2>6, OmissionsAppended
<1>6. Quiet(h, g)
  <2>1. \A i \in a + 1..a + 1 : i = a + 1
    BY <1>4
  <2> QED
    BY <1>4, <2>1 DEF Quiet
<1>7. StageInv'
  BY <1>1, <1>3, <1>6, NothingMoves DEF DialogueInv
<1>8. FieldsInv'
  BY <1>1, <1>3, <1>4 DEF DialogueInv, FieldsInv, Points
<1>9. FlagsInv'
  BY <1>1, Zenon DEF DialogueInv, FlagsInv
<1>10. PointInv' /\ RecoverInv'
  BY <1>1, <1>2 DEF PointInv, Judged, RecoverInv
<1>11. CallsInv'
  <2>1. \A i \in Len(h) + 1..Len(g) : g[i].type # "assistant"
    <3>1. \A i \in Len(h) + 1..Len(g) : i = a + 1
      BY <1>4
    <3> QED
      BY <1>4, <3>1
  <2>2. Len(h) \in Nat /\ Len(g) \in Nat /\ Len(h) <= Len(g)
    BY <1>4
  <2>3. \A i \in Places : history'[i] = history[i]
    BY <1>3, <1>4 DEF Places
  <2>4. CallsInv /\ start' = start /\ pc # "tools"
    BY <1>1 DEF DialogueInv
  <2>5. pc' = "stream" \/ ~signal' => pc = "stream" \/ ~signal
    BY <1>1
  <2> QED
    BY <1>3, <2>1, <2>2, <2>3, <2>4, <2>5, CallsKept
<1>12. CountInv'
  BY <1>1, <1>2 DEF DialogueInv, CountInv, Judged, Spent
<1>13. DeliveredInv'
  BY <1>1, <1>2 DEF DialogueInv, DeliveredInv
<1> QED
  BY <1>3, <1>5, <1>7, <1>8, <1>9, <1>10, <1>11, <1>12, <1>13 DEF DialogueInv

LEMMA WaitForRetryKeeps ==
    ASSUME DialogueInv, WaitForRetry
    PROVE  DialogueInv'
<1>1. /\ pc = "wait" /\ UNCHANGED <<history, inputVars, lost>>
      /\ UNCHANGED <<signal, stop, last, reason, attempt, retry, recovered>>
      /\ UNCHANGED <<start, delivered, failing>>
  BY DEF WaitForRetry, runVars, ghostVars
<1>2. /\ pending = <<>> /\ delivered = 0 /\ failing <= Spent + attempt
  <2>1. NoneDelivered
    BY <1>1 DEF NoneDelivered
  <2> QED
    BY <1>1, <2>1 DEF DialogueInv, PointInv, CountInv, DeliveredInv, Judged
<1>3. /\ pc' \in {"settle", "commit"} /\ pending' = <<>>
      /\ calls' \in {calls, {}}
  BY <1>2 DEF WaitForRetry, NewLoop, loopVars
<1>4. skip' \in BOOLEAN /\ more' \in BOOLEAN
  BY Zenon DEF WaitForRetry, NewLoop, loopVars, DialogueInv, FlagsInv
<1>5. Quiet(history, history') /\ WellFormed(history') /\ Len(history) \in Nat
  BY <1>1, SameHistory
<1>6. StageInv'
  BY <1>1, <1>2, <1>3, <1>5, NothingMoves DEF DialogueInv
<1>7. FieldsInv'
  BY <1>1, <1>3 DEF DialogueInv, FieldsInv, Points
<1>8. FlagsInv'
  BY <1>1, <1>4, Zenon DEF DialogueInv, FlagsInv
<1>9. PointInv' /\ RecoverInv'
  BY <1>3 DEF PointInv, Judged, RecoverInv
<1>10. CallsInv'
  <2>1. UNCHANGED <<history, start>> /\ pc # "tools"
    BY <1>1
  <2>2. pc' = "stream" \/ ~signal' => pc = "stream" \/ ~signal
    BY <1>1, <1>3
  <2> QED
    BY <2>1, <2>2, HistoryKeepsCalls
<1>11. CountInv'
  BY <1>1, <1>2, <1>3 DEF DialogueInv, CountInv, Judged, Spent
<1>12. DeliveredInv'
  BY <1>1, <1>2 DEF DialogueInv, DeliveredInv
<1> QED
  BY <1>5, <1>6, <1>7, <1>8, <1>9, <1>10, <1>11, <1>12 DEF DialogueInv

(* The response that could not be used is omitted with its results.        *)
LEMMA UnusableOmitted ==
    ASSUME DialogueInv, Newest(history, last), history' \in Omitting(Unusable),
           last' = last
    PROVE  /\ WellFormed(history') /\ Quiet(history, history')
           /\ Len(history) \in Nat /\ Len(history') \in Nat
           /\ Len(history) <= Len(history')
           /\ \A i \in Places : history'[i] = history[i]
           /\ \A i \in Len(history) + 1..Len(history') :
                 history'[i].type = "omission"
           /\ last \in Places'
           /\ \A r \in Places' : r = last \/ AnswersTo(history', r, last) =>
                \E o \in Places' :
                   Omits(history', o, r) /\ OmissionsOnly(history', o, Len(history'))
<1>1. PICK h, g, a, l : h = history /\ g = history' /\ a = last /\ l = Len(history)
  OBVIOUS
<1>2. /\ WellFormed(h) /\ l \in Nat /\ a \in 1..l /\ Newest(h, a) /\ l = Len(h)
      /\ \A i \in a + 1..l : AnswersTo(h, i, a)
  BY <1>1, LenProperties DEF DialogueInv, WellFormed, Newest
<1>3. Unusable = a..l
  <2>1. \A i \in a + 1..l : IsA(i, "result") /\ history[i].of = last
    BY <1>1, <1>2 DEF AnswersTo, IsA
  <2>2. Unusable = {a} \union (a + 1..l)
    BY <1>1, <2>1 DEF Unusable
  <2> QED
    BY <1>2, <2>2
<1>4. Cardinality(a..l) \in Nat
  <2>1. a \in Int /\ l \in Int
    BY <1>2
  <2>2. IsFiniteSet(a..l)
    BY <2>1, FS_Interval
  <2> QED
    BY <2>2, FS_CardinalityType
<1>5. PICK n \in Nat : n = Cardinality(a..l)
  BY <1>4
<1>6. PICK f : /\ f \in [1..n -> a..l] /\ Range(f) = a..l /\ Increasing(f)
               /\ g = h \o [k \in DOMAIN f |-> Omission(f[k])]
  BY <1>1, <1>3, <1>5 DEF Omitting
<1>7. g = h \o [k \in 1..n |-> Omission(f[k])]
  BY <1>6
<1>8. /\ WellFormed(g) /\ Len(g) = l + n
      /\ \A i \in 1..l : g[i] = h[i]
      /\ OmissionsOnly(g, l + 1, Len(g))
      /\ \A i \in a..l : \E j \in l + 1..Len(g) : Omits(g, j, i)
  <2>1. /\ f \in [1..n -> a..Len(h)] /\ Range(f) = a..Len(h) /\ Increasing(f)
        /\ WellFormed(h) /\ Newest(h, a)
    BY <1>2, <1>6
  <2>2. PICK s : s = [k \in 1..n |-> Omission(f[k])]
    OBVIOUS
  <2>3. /\ s \in [1..n -> Entries] /\ \A k \in 1..n : s[k] = Omission(f[k])
        /\ g = h \o s
    <3>1. \A k \in 1..n : f[k] \in a..l /\ f[k] \in Nat
      <4>1. \A k \in 1..n : f[k] \in a..l
        BY <1>6
      <4>2. \A i \in a..l : i \in Nat
        BY <1>2
      <4> QED
        BY <4>1, <4>2
    <3>2. \A k \in 1..n : Omission(f[k]) \in Entries
      BY <3>1, EntryTypes
    <3> QED
      BY <1>7, <2>2, <3>2
  <2>4. OmissionsOf(s, n, f, a..Len(h))
    BY <2>1, <2>3 DEF OmissionsOf
  <2>5. /\ WellFormed(g) /\ Len(g) = Len(h) + n
        /\ \A i \in 1..Len(h) : g[i] = h[i]
        /\ OmissionsOnly(g, Len(h) + 1, Len(g))
        /\ \A i \in a..Len(h) :
              \E j \in Len(h) + 1..Len(g) : Omits(g, j, i)
    <3>1. WellFormed(h) /\ Newest(h, a) /\ OmissionsOf(s, n, f, a..Len(h)) /\ g = h \o s
      BY <2>1, <2>3, <2>4
    <3>2. WellFormed(g)
      BY <3>1, OmissionsKeep
    <3>3. Len(g) = Len(h) + n
      BY <3>1, OmissionsKeep
    <3>4. \A i \in 1..Len(h) : g[i] = h[i]
      BY <3>1, OmissionsKeep
    <3>5. OmissionsOnly(g, Len(h) + 1, Len(g))
      BY <3>1, OmissionsKeep
    <3>6. \A i \in a..Len(h) :
              \E j \in Len(h) + 1..Len(g) : Omits(g, j, i)
      BY <3>1, OmissionsKeep
    <3> QED
      BY <3>2, <3>3, <3>4, <3>5, <3>6
  <2> QED
    BY <1>2, <2>5
<1>9. \A i \in l + 1..Len(g) : g[i].type = "omission"
  BY <1>8 DEF OmissionsOnly
<1>10. Len(g) \in Nat /\ l <= Len(g)
  BY <1>2, <1>8
<1>11. Quiet(h, g)
  BY <1>2, <1>8, <1>9, <1>10 DEF Quiet
<1>12. ASSUME NEW r \in 1..Len(g), r = a \/ AnswersTo(g, r, a)
       PROVE  \E o \in 1..Len(g) : Omits(g, o, r) /\ OmissionsOnly(g, o, Len(g))
  <2>1. r \in a..l
    <3>1. CASE r = a
      BY <1>2, <3>1
    <3>2. CASE AnswersTo(g, r, a)
      <4>1. r \notin l + 1..Len(g)
        BY <1>9, <3>2 DEF AnswersTo
      <4>2. a \in 1..r - 1
        BY <1>8, <1>12, <3>2 DEF AnswersTo, WellFormed
      <4> QED
        BY <1>2, <1>10, <1>12, <4>1, <4>2
    <3> QED
      BY <1>12, <3>1, <3>2
  <2>2. PICK o \in l + 1..Len(g) : Omits(g, o, r)
    BY <1>8, <2>1
  <2>3. o \in 1..Len(g) /\ \A k \in o..Len(g) : k \in l + 1..Len(g)
    BY <1>2, <1>10, <2>2
  <2> QED
    BY <1>9, <2>2, <2>3 DEF OmissionsOnly
<1>13. a \in 1..Len(g)
  BY <1>2, <1>10
<1> QED
  BY <1>1, <1>2, <1>8, <1>9, <1>10, <1>11, <1>12, <1>13 DEF Places

LEMMA CheckResponseKeeps ==
    ASSUME DialogueInv, CheckResponse
    PROVE  DialogueInv'
<1>1. /\ pc = "check" /\ UNCHANGED <<inputVars, lost>>
      /\ UNCHANGED <<pending, next, skip, calls, more, decision>>
      /\ UNCHANGED <<signal, stop, last, reason, attempt, retry>>
      /\ UNCHANGED <<start, delivered, failing>>
  BY DEF CheckResponse, loopVars, ghostVars
<1>2. \/ /\ pc' \in {"settle", "drain"} /\ recovered' = recovered
         /\ history' \in AutoCompacted
      \/ /\ pc' = "recover" /\ recovered' = TRUE /\ ~recovered
         /\ history' \in Omitting(Unusable)
  BY DEF CheckResponse, AutoCompacted
<1>3. /\ pending = <<>> /\ delivered = 0 /\ Newest(history, last)
  <2>1. NoneDelivered
    BY <1>1 DEF NoneDelivered, Judged
  <2> QED
    BY <1>1, <2>1 DEF DialogueInv, PointInv, DeliveredInv, Judged
<1>4. /\ WellFormed(history') /\ Quiet(history, history')
      /\ Len(history) \in Nat /\ Len(history') \in Nat /\ Len(history) <= Len(history')
      /\ \A i \in Places : history'[i] = history[i]
      /\ \A i \in Len(history) + 1..Len(history') : history'[i].type # "assistant"
  <2>1. CASE history' \in AutoCompacted
    BY <2>1, CompactionKeeps
  <2>2. CASE history' \in Omitting(Unusable)
    BY <1>1, <1>3, <2>2, UnusableOmitted
  <2> QED
    BY <1>2, <2>1, <2>2
<1>5. StageInv'
  BY <1>1, <1>4, NothingMoves DEF DialogueInv
<1>6. FieldsInv'
  BY <1>1, <1>2, <1>4 DEF DialogueInv, FieldsInv, Points
<1>7. recovered' \in BOOLEAN
  BY <1>2, Zenon DEF DialogueInv, FlagsInv
<1>8. FlagsInv'
  BY <1>1, <1>7, Zenon DEF DialogueInv, FlagsInv
<1>9. PointInv'
  BY <1>1, <1>2, <1>3 DEF PointInv, Judged
<1>10. RecoverInv'
  <2>1. CASE pc' # "recover"
    BY <2>1 DEF RecoverInv
  <2>2. CASE history' \in Omitting(Unusable)
    <3>1. /\ last \in Places'
          /\ \A r \in Places' : r = last \/ AnswersTo(history', r, last) =>
               \E o \in Places' :
                  Omits(history', o, r) /\ OmissionsOnly(history', o, Len(history'))
      BY <1>1, <1>3, <2>2, UnusableOmitted
    <3> QED
      BY <1>1, <3>1 DEF RecoverInv
  <2> QED
    BY <1>2, <2>1, <2>2
<1>11. CallsInv'
  <2>1. CallsInv /\ start' = start /\ pc # "tools"
    BY <1>1 DEF DialogueInv
  <2>2. pc' = "stream" \/ ~signal' => pc = "stream" \/ ~signal
    BY <1>1, <1>2
  <2> QED
    BY <1>4, <2>1, <2>2, CallsKept
<1>12. CountInv'
  <2>1. /\ failing \in Nat /\ MaxRetries \in Nat
        /\ failing <= Spent + MaxRetries + 1
    BY AgentLoopAssumption DEF DialogueInv, FieldsInv, CountInv
  <2>2. CASE pc' \in {"settle", "drain"} /\ recovered' = recovered
    BY <1>1, <2>1, <2>2 DEF CountInv, Judged, Spent
  <2>3. CASE pc' = "recover" /\ recovered' = TRUE /\ ~recovered
    <3>1. Spent = 0 /\ Spent' = MaxRetries + 1
      BY <2>3 DEF Spent
    <3>2. failing' <= MaxRetries + 1 /\ failing' <= Spent' + MaxRetries + 1
      BY <1>1, <2>1, <3>1
    <3> QED
      BY <2>3, <3>2 DEF CountInv, Judged
  <2> QED
    BY <1>2, <2>2, <2>3
<1>13. DeliveredInv'
  BY <1>1, <1>3 DEF DialogueInv, DeliveredInv
<1> QED
  BY <1>4, <1>5, <1>6, <1>8, <1>9, <1>10, <1>11, <1>12, <1>13 DEF DialogueInv

LEMMA RecoverKeeps ==
    ASSUME DialogueInv, Recover
    PROVE  DialogueInv'
<1>1. /\ pc = "recover" /\ UNCHANGED <<inputVars, lost>>
      /\ UNCHANGED <<signal, stop, last, reason, attempt, retry, recovered>>
      /\ UNCHANGED <<start, delivered, failing>>
  BY DEF Recover, runVars, ghostVars
<1>2. /\ pending = <<>> /\ delivered = 0 /\ recovered /\ failing <= MaxRetries + 1
  <2>1. NoneDelivered
    BY <1>1 DEF NoneDelivered
  <2> QED
    BY <1>1, <2>1 DEF DialogueInv, PointInv, CountInv, DeliveredInv, Judged
<1>3. /\ pc' \in {"commit", "drain"} /\ history' \in AutoCompacted /\ pending' = <<>>
      /\ calls' \in {calls, {}}
  <2>1. CASE ~Over /\ history' \in Compacted /\ NewLoop(<<>>, FALSE) /\ pc' = "commit"
    BY <2>1 DEF AutoCompacted, NewLoop
  <2>2. CASE pc' = "drain" /\ UNCHANGED <<history, loopVars>>
    BY <1>2, <2>2 DEF AutoCompacted, loopVars
  <2> QED
    BY <2>1, <2>2 DEF Recover
<1>4. skip' \in BOOLEAN /\ more' \in BOOLEAN
  BY Zenon DEF Recover, NewLoop, loopVars, DialogueInv, FlagsInv
<1>5. /\ WellFormed(history') /\ Quiet(history, history')
      /\ Len(history) \in Nat /\ Len(history') \in Nat /\ Len(history) <= Len(history')
  BY <1>3, CompactionKeeps
<1>6. StageInv'
  BY <1>1, <1>2, <1>3, <1>5, NothingMoves DEF DialogueInv
<1>7. FieldsInv'
  BY <1>1, <1>3, <1>5 DEF DialogueInv, FieldsInv, Points
<1>8. FlagsInv'
  BY <1>1, <1>4, Zenon DEF DialogueInv, FlagsInv
<1>9. PointInv' /\ RecoverInv'
  BY <1>3 DEF PointInv, Judged, RecoverInv
<1>10. CallsInv'
  <2>1. start' = start /\ pc # "tools"
    BY <1>1
  <2>2. pc' = "stream" \/ ~signal' => pc = "stream" \/ ~signal
    BY <1>1, <1>3
  <2> QED
    BY <1>3, <2>1, <2>2, CompactionKeepsCalls
<1>11. CountInv'
  <2>1. /\ failing' <= Spent' + MaxRetries + 1 /\ failing' <= Spent' + attempt'
        /\ attempt' \in Nat
    BY <1>1, <1>2, AgentLoopAssumption DEF DialogueInv, FieldsInv, Spent
  <2> QED
    BY <1>3, <2>1 DEF CountInv, Judged
<1>12. DeliveredInv'
  BY <1>1, <1>2 DEF DialogueInv, DeliveredInv
<1> QED
  BY <1>5, <1>6, <1>7, <1>8, <1>9, <1>10, <1>11, <1>12 DEF DialogueInv

LEMMA DrainKeeps ==
    ASSUME DialogueInv, Drain
    PROVE  DialogueInv'
<1>1. /\ pc = "drain" /\ UNCHANGED <<history, given, lost>>
      /\ UNCHANGED <<signal, stop, last, reason, attempt, retry, recovered>>
      /\ UNCHANGED <<start, failing>>
  BY DEF Drain, runVars
<1>2. pending = <<>> /\ delivered = 0 /\ StageInv
  <2>1. NoneDelivered
    BY <1>1 DEF NoneDelivered
  <2> QED
    BY <1>1, <2>1 DEF DialogueInv, PointInv, DeliveredInv
<1>3. /\ Len(Peek(steering)) \in Nat
      /\ Mode = "one-at-a-time" => Len(Peek(steering)) <= 1
      /\ Peek(steering) = <<>> <=> steering = <<>>
      /\ Peek(followUp) = <<>> <=> followUp = <<>>
      /\ steering = <<>> => Rest(steering) = <<>> /\ Len(Peek(steering)) = 0
  BY <1>2, PollBounded, Polls
<1>4. \/ pc' = "settle" /\ UNCHANGED <<loopVars, steering, followUp, delivered>>
      \/ /\ pc' = "commit" /\ steering # <<>> /\ skip' = TRUE /\ calls' = {} /\ more' = TRUE
         /\ pending' = Peek(steering) /\ steering' = Rest(steering)
         /\ UNCHANGED followUp /\ delivered' = Len(Peek(steering))
      \/ /\ pc' = "commit" /\ followUp # <<>> /\ skip' = FALSE /\ calls' = {} /\ more' = TRUE
         /\ pending' = Peek(followUp) /\ followUp' = Rest(followUp)
         /\ UNCHANGED steering /\ delivered' = 0
  <2>1. CASE steering # <<>>
    BY <2>1 DEF Drain, NewLoop
  <2>2. CASE steering = <<>>
    BY <1>3, <2>2 DEF Drain, NewLoop
  <2> QED
    BY <2>1, <2>2
<1>5. Quiet(history, history') /\ WellFormed(history') /\ Len(history) \in Nat
  BY <1>1, SameHistory
<1>6. StageInv'
  <2>1. CASE UNCHANGED <<loopVars, steering, followUp>>
    BY <1>1, <1>2, <1>5, <2>1, NothingMoves DEF inputVars, loopVars
  <2>2. CASE /\ pending' = Peek(steering) /\ steering' = Rest(steering)
             /\ UNCHANGED followUp
    BY <1>1, <1>2, <1>5, <2>2, SteeringTaken
  <2>3. CASE /\ pending' = Peek(followUp) /\ followUp' = Rest(followUp)
             /\ UNCHANGED steering
    BY <1>1, <1>2, <1>5, <2>3, FollowUpTaken
  <2> QED
    BY <1>4, <2>1, <2>2, <2>3
<1>7. /\ delivered' \in Nat
      /\ Mode = "one-at-a-time" => delivered' <= 1
  BY <1>2, <1>3, <1>4
<1>8. \/ pc' = "settle" /\ pending' = <<>> /\ calls' = calls /\ delivered' = 0
      \/ pc' = "commit" /\ pending' # <<>> /\ calls' = {}
  BY <1>2, <1>3, <1>4 DEF loopVars
<1>9. /\ skip' \in BOOLEAN /\ more' \in BOOLEAN
      /\ pc' = "settle" \/ skip' \/ delivered' = 0
  BY <1>4, Zenon DEF loopVars, DialogueInv, FlagsInv
<1>10. FieldsInv'
  BY <1>1, <1>5, <1>7, <1>8 DEF DialogueInv, FieldsInv, Points
<1>11. FlagsInv'
  BY <1>1, <1>9, Zenon DEF DialogueInv, FlagsInv
<1>12. PointInv' /\ RecoverInv'
  BY <1>8 DEF PointInv, Judged, RecoverInv
<1>13. CallsInv'
  <2>1. UNCHANGED <<history, start>> /\ pc # "tools"
    BY <1>1
  <2>2. pc' = "stream" \/ ~signal' => pc = "stream" \/ ~signal
    BY <1>1, <1>8
  <2> QED
    BY <2>1, <2>2, HistoryKeepsCalls
<1>14. CountInv'
  BY <1>1, <1>8 DEF DialogueInv, CountInv, Judged, Spent
<1>15. DeliveredInv'
  <2>1. NoneDelivered' => delivered' = 0
    BY <1>8, <1>9, Zenon DEF NoneDelivered, Judged
  <2> QED
    BY <1>7, <2>1 DEF DeliveredInv
<1> QED
  BY <1>5, <1>6, <1>10, <1>11, <1>12, <1>13, <1>14, <1>15 DEF DialogueInv

-----------------------------------------------------------------------------
(* The theorems of the dialogue                                            *)

LEMMA DialogueStepKeeps == DialogueInv /\ [DialogueNext]_dialogueVars => DialogueInv'
<1> SUFFICES ASSUME DialogueInv, [DialogueNext]_dialogueVars
             PROVE  DialogueInv'
  OBVIOUS
<1>1. CASE Steer \/ FollowUp
  BY <1>1, QueueingKeeps
<1>2. CASE Abort
  BY <1>2, AbortKeeps
<1>3. CASE BeginPrompt \/ Continue_
  BY <1>3, BeginPromptKeeps, ContinueKeeps
<1>4. CASE HookFails \/ ListenerFails \/ Throw
  BY <1>4, HookFailsKeeps, ListenerFailsKeeps, ThrowKeeps
<1>5. CASE StartPrompt \/ CommitInput \/ EnterLoop \/ Request
  BY <1>5, StartPromptKeeps, CommitInputKeeps, EnterLoopKeeps, RequestKeeps
<1>6. CASE Respond \/ CommitResult \/ FinishTurn
  BY <1>6, RespondKeeps, CommitResultKeeps, FinishTurnKeeps
<1>7. CASE AfterTurn \/ PrepareTurn
  BY <1>7, AfterTurnKeeps, PrepareTurnKeeps
<1>8. CASE SelectNext \/ OmitFailed \/ WaitForRetry
  BY <1>8, SelectNextKeeps, OmitFailedKeeps, WaitForRetryKeeps
<1>9. CASE CheckResponse \/ Recover \/ Drain
  BY <1>9, CheckResponseKeeps, RecoverKeeps, DrainKeeps
<1>10. CASE HandleFailure \/ Settle
  BY <1>10, HandleFailureKeeps, SettleKeeps
<1>11. CASE UNCHANGED dialogueVars
  <2>1. UNCHANGED <<history, pc, inputVars, loopVars, runVars, ghostVars>>
    BY <1>11 DEF dialogueVars
  <2>2. /\ UNCHANGED <<pending, next, skip, calls, more, decision>>
        /\ UNCHANGED <<signal, stop, last, reason, attempt, retry, recovered>>
        /\ UNCHANGED <<lost, start, delivered, failing>>
    BY <2>1 DEF loopVars, runVars, ghostVars
  <2>3. Quiet(history, history') /\ WellFormed(history')
    BY <2>1, SameHistory
  <2>4. StageInv'
    BY <2>1, <2>2, <2>3, NothingMoves DEF DialogueInv
  <2>5. FieldsInv' /\ FlagsInv' /\ PointInv'
    BY <2>1, <2>2 DEF DialogueInv, FieldsInv, FlagsInv, PointInv
  <2>6. CallsInv' /\ RecoverInv'
    BY <2>1, <2>2 DEF DialogueInv, CallsInv, RecoverInv, Places, Answered, IsA
  <2>7. CountInv' /\ DeliveredInv'
    BY <2>1, <2>2 DEF DialogueInv, CountInv, DeliveredInv, NoneDelivered, Spent
  <2> QED
    BY <2>3, <2>4, <2>5, <2>6, <2>7 DEF DialogueInv
<1> QED
  BY <1>1, <1>2, <1>3, <1>4, <1>5, <1>6, <1>7, <1>8, <1>9, <1>10, <1>11
  DEF DialogueNext, DialogueStep

LEMMA DialogueInvariant == DialogueSpec => []DialogueInv
  BY DialogueBegins, DialogueStepKeeps, PTL DEF DialogueSpec

(* The requests of a run each show a context in which calls and results    *)
(* are paired, an unusable response and its results are gone from it when  *)
(* the recovery compacts, and without an answer or new input the agent     *)
(* calls the model a bounded number of times: loop.py, _auto_compact and   *)
(* _check_response_compaction of agent.py.                                 *)
THEOREM RequestsAreSound == DialogueSpec => []RequestsSound
<1>1. DialogueInv => RequestsSound
  <2> SUFFICES ASSUME DialogueInv
               PROVE  RequestsSound
    OBVIOUS
  <2>1. ContextPaired /\ RecoveryOmits
    BY PairedContext, RecoveryKept
  <2>2. RequestsBounded
    <3>1. failing <= Spent + MaxRetries + 1 /\ MaxRetries \in Nat /\ failing \in Nat
      BY AgentLoopAssumption DEF DialogueInv, CountInv, FieldsInv
    <3>2. CASE recovered
      <4>1. failing <= MaxRetries + 1 + MaxRetries + 1
        BY <3>1, <3>2 DEF Spent
      <4>2. MaxRetries + 1 + MaxRetries + 1 = (MaxRetries + 1) * 2
        BY <3>1
      <4> QED
        BY <3>2, <4>1, <4>2 DEF RequestsBounded
    <3>3. CASE ~recovered
      <4>1. failing <= MaxRetries + 1
        BY <3>1, <3>3 DEF Spent
      <4>2. MaxRetries + 1 = (MaxRetries + 1) * 1
        BY <3>1
      <4> QED
        BY <3>3, <4>1, <4>2 DEF RequestsBounded
    <3> QED
      BY <3>2, <3>3
  <2>3. DialogueTypeOK
    <3>1. /\ steering \in Seq(DOMAIN given) /\ followUp \in Seq(DOMAIN given)
          /\ pending \in Seq(DOMAIN given) /\ DOMAIN given = 1..Len(given)
      BY LenProperties DEF DialogueInv, StageInv
    <3>2. /\ Range(steering) \subseteq 1..Len(given)
          /\ Range(followUp) \subseteq 1..Len(given)
          /\ Range(pending) \subseteq 1..Len(given)
      BY <3>1, RangeIn
    <3> QED
      BY <3>2 DEF DialogueInv, FieldsInv, FlagsInv, DialogueTypeOK
  <2> QED
    BY <2>1, <2>2, <2>3 DEF RequestsSound, RecoveryBounded
<1> QED
  BY <1>1, DialogueInvariant, PTL

(* What becomes of queued input: each input is in its queue, on its way,   *)
(* in the history or dropped with an interrupted turn, in one of them only *)
(* and behind the earlier ones of its queue; in the mode one-at-a-time a   *)
(* request carries one steering message; and after an abort no request is  *)
(* sent and no queue is drained: _PendingMessageQueue and run_agent_loop.  *)
THEOREM InputsStayInOrder == DialogueSpec => InputsInOrder
<1>1. DialogueInv => InputsOnceInOrder /\ OneSteeringPerRequest
  <2> SUFFICES ASSUME DialogueInv
               PROVE  InputsOnceInOrder /\ OneSteeringPerRequest
    OBVIOUS
  <2>1. ASSUME NEW m \in DOMAIN given
        PROVE  \E s \in DOMAIN Stages :
                 \A t \in DOMAIN Stages : m \in Stages[t] <=> t = s
    <3>1. PICK A, B, C, D : /\ A = InQueue /\ B = Range(pending)
                            /\ C = InHistory /\ D = lost
      OBVIOUS
    <3>2. /\ m \in A \union B \union C \union D
          /\ A \intersect (B \union C \union D) = {}
          /\ B \intersect (C \union D) = {} /\ C \intersect D = {}
      BY <2>1, <3>1 DEF DialogueInv, StageInv
    <3>3. Stages = <<A, B, C, D>>
      BY <3>1 DEF Stages
    <3>4. /\ DOMAIN Stages = 1..4 /\ Stages[1] = A /\ Stages[2] = B
          /\ Stages[3] = C /\ Stages[4] = D
      BY <3>3
    <3>5. \A t \in 1..4 : t = 1 \/ t = 2 \/ t = 3 \/ t = 4
      OBVIOUS
    <3>6. 1 \in 1..4 /\ 2 \in 1..4 /\ 3 \in 1..4 /\ 4 \in 1..4
      OBVIOUS
    <3>7. CASE m \in A
      <4>1. \A t \in 1..4 : m \in Stages[t] <=> t = 1
        BY <3>2, <3>4, <3>5, <3>7
      <4> QED
        BY <3>4, <3>6, <4>1
    <3>8. CASE m \in B
      <4>1. \A t \in 1..4 : m \in Stages[t] <=> t = 2
        BY <3>2, <3>4, <3>5, <3>8
      <4> QED
        BY <3>4, <3>6, <4>1
    <3>9. CASE m \in C
      <4>1. \A t \in 1..4 : m \in Stages[t] <=> t = 3
        BY <3>2, <3>4, <3>5, <3>9
      <4> QED
        BY <3>4, <3>6, <4>1
    <3>10. CASE m \in D
      <4>1. \A t \in 1..4 : m \in Stages[t] <=> t = 4
        BY <3>2, <3>4, <3>5, <3>10
      <4> QED
        BY <3>4, <3>6, <4>1
    <3> QED
      BY <3>2, <3>7, <3>8, <3>9, <3>10
  <2> QED
    BY <2>1 DEF DialogueInv, StageInv, DeliveredInv, InputsOnceInOrder,
                OneSteeringPerRequest
<1>2. DialogueInv /\ [DialogueNext]_dialogueVars =>
        [signal /\ signal' =>
          /\ ~(pc # "stream" /\ pc' = "stream")
          /\ Len(steering') >= Len(steering)
          /\ Len(followUp') >= Len(followUp)]_dialogueVars
  <2> SUFFICES ASSUME DialogueInv, DialogueNext, signal, signal'
               PROVE  /\ ~(pc # "stream" /\ pc' = "stream")
                      /\ Len(steering') >= Len(steering)
                      /\ Len(followUp') >= Len(followUp)
    OBVIOUS
  <2>1. Len(steering) \in Nat /\ Len(followUp) \in Nat
    BY LenProperties DEF DialogueInv, StageInv
  <2>2. CASE Steer \/ FollowUp
    <3>1. /\ \A x : Len(Append(steering, x)) >= Len(steering)
          /\ \A x : Len(Append(followUp, x)) >= Len(followUp)
      BY DEF DialogueInv, StageInv
    <3> QED
      BY <2>1, <2>2, <3>1 DEF Steer, FollowUp
  <2>3. CASE Abort \/ BeginPrompt \/ Continue_ \/ HookFails
    BY <2>3 DEF Abort, BeginPrompt, Continue_, HookFails, BeginRun
  <2>4. CASE ListenerFails \/ Throw
    <3>1. /\ steering' = steering /\ followUp' = followUp
          /\ pc' \in {"settle", "failed"}
      BY <2>4 DEF ListenerFails, Throw, Raise, inputVars
    <3> QED
      BY <2>1, <3>1
  <2>5. CASE StartPrompt \/ CommitInput \/ EnterLoop \/ Request
    BY <2>1, <2>5 DEF StartPrompt, CommitInput, EnterLoop, Request, inputVars
  <2>6. CASE Respond \/ CommitResult \/ FinishTurn
    <3>1. /\ steering' = steering /\ followUp' = followUp
          /\ pc' \in {"finish", "tools", "turned"}
      BY <2>6 DEF Respond, CommitResult, FinishTurn, inputVars
    <3> QED
      BY <2>1, <3>1
  <2>7. CASE AfterTurn \/ PrepareTurn
    BY <2>1, <2>7 DEF AfterTurn, PrepareTurn, TurnIsLast
  <2>8. CASE SelectNext \/ OmitFailed \/ WaitForRetry
    BY <2>1, <2>8 DEF SelectNext, OmitFailed, WaitForRetry, inputVars
  <2>9. CASE CheckResponse \/ Recover \/ Drain
    BY <2>1, <2>9 DEF CheckResponse, Recover, Drain, Over, inputVars
  <2>10. CASE HandleFailure \/ Settle
    BY <2>1, <2>10 DEF HandleFailure, Settle, BeginRun, inputVars
  <2> QED
    BY <2>2, <2>3, <2>4, <2>5, <2>6, <2>7, <2>8, <2>9, <2>10
    DEF DialogueNext, DialogueStep
<1>3. DialogueSpec => AbortConsumesNothing
  BY <1>2, DialogueInvariant, PTL DEF DialogueSpec, AbortConsumesNothing
<1>4. DialogueSpec => [](InputsOnceInOrder /\ OneSteeringPerRequest)
  BY <1>1, DialogueInvariant, PTL
<1> QED
  BY <1>3, <1>4 DEF InputsInOrder

=============================================================================

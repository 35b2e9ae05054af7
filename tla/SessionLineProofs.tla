------------------------- MODULE SessionLineProofs -------------------------
(***************************************************************************)
(* Proofs about SessionLine, for every finite set of mutations, and about  *)
(* the harness on it (HarnessLanes), for every set of lane names: the       *)
(* harness's steps are steps of the line, so that what is proved of the     *)
(* line holds under it, and HInv relates its calls, its lane lock and its   *)
(* lanes to where their mutations are.                                      *)
(***************************************************************************)
EXTENDS HarnessLanes, FiniteSetTheorems, SequenceTheorems, TLAPS

-----------------------------------------------------------------------------
(* The inductive invariant                                                 *)

(* The mutation has the line, be it for its callback or for its end.       *)
Runs(m) == pc[m] \in {"running", "committing"} \/ end[m] = "pending"

(* Where a mutation is, what it has started.                               *)
MutationInv ==
    \A m \in Mutations :
        /\ pc[m] # "new" => via[m] # "none"
        /\ end[m] # "none" => pc[m] \in {"ending", "gone"}
        /\ pc[m] = "ending" => end[m] # "none"
        /\ pc[m] \in {"new", "waiting", "running"} => commit[m] = "none"
        /\ commit[m] = "inFlight" => Runs(m)
        /\ pc[m] = "gone" /\ end[m] = "pending" /\ via[m] = "mutate"
                => m \in abandoned

(* The line belongs to the one that runs.                                  *)
HolderInv == \A m \in Mutations : holder = <<m>> <=> Runs(m)

(* Nobody waits twice, and who waits does nothing else.                    *)
WaitersInv ==
    /\ \A i \in DOMAIN waiters :
            waiters[i] # Repo => pc[waiters[i]] = "waiting"
    /\ \A i, j \in DOMAIN waiters : waiters[i] = waiters[j] => i = j

(* What a mutation read stays true until its commit is settled.            *)
ReadInv ==
    \A m \in Mutations :
        Runs(m) /\ commit[m] # "settled" => seen[m] = stored

(* What is over admits nobody any more.                                    *)
OverInv ==
    /\ state = "closed" => active = 0
    /\ retired => holder = <<>>

IInv ==
    /\ TypeOK
    /\ MutationInv
    /\ HolderInv
    /\ WaitersInv
    /\ ReadInv
    /\ OverInv
    /\ NoLostUpdate
    /\ AdmissionsCounted

LEMMA InitInv == Init => IInv
  <1> SUFFICES ASSUME Init PROVE IInv
    OBVIOUS
  <1>1. Cardinality(Mutations) \in Nat
    BY SessionLineAssumption, FS_CardinalityType
  <1>2. {m \in Mutations : Admitted(m)} = {}
    BY DEF Init, Admitted
  <1>3. AdmissionsCounted
    BY <1>2, FS_EmptySet DEF AdmissionsCounted, Init
  <1>4. retired \in BOOLEAN
    BY Zenon DEF Init
  <1>5. TypeOK
    BY <1>1, <1>4 DEF TypeOK, Init
  <1>6. MutationInv /\ HolderInv /\ WaitersInv /\ ReadInv /\ OverInv
    BY DEF Init, MutationInv, HolderInv, WaitersInv, ReadInv, OverInv, Runs
  <1> QED
    BY <1>3, <1>5, <1>6 DEF IInv, Init, NoLostUpdate

-----------------------------------------------------------------------------
(* Admissions                                                              *)

(* A step that admits or releases one mutation and counts it.              *)
LEMMA AdmissionStep ==
    ASSUME AdmissionsCounted, NEW m \in Mutations,
           \A n \in Mutations : n # m => (Admitted(n)' <=> Admitted(n)),
           active' = IF Admitted(m)' THEN IF Admitted(m) THEN active
                                          ELSE active + 1
                     ELSE IF Admitted(m) THEN active - 1 ELSE active
    PROVE  AdmissionsCounted' /\ active' \in 0..Cardinality(Mutations)
  <1> DEFINE A == {n \in Mutations : Admitted(n)}
             B == {n \in Mutations : Admitted(n)'}
  <1>1. IsFiniteSet(A) /\ IsFiniteSet(B)
    BY SessionLineAssumption, FS_Subset
  <1>2. active = Cardinality(A)
    BY DEF AdmissionsCounted
  <1>3. Cardinality(B) \in 0..Cardinality(Mutations)
    <2>1. B \in SUBSET Mutations
      OBVIOUS
    <2> HIDE DEF A, B
    <2> QED
      BY <1>1, <2>1, SessionLineAssumption, FS_Subset, FS_CardinalityType
  <1>4. /\ m \in A <=> Admitted(m)
        /\ m \in B <=> Admitted(m)'
    OBVIOUS
  <1>5. \A n : n # m => (n \in A <=> n \in B)
    OBVIOUS
  <1> HIDE DEF A, B
  <1>6. Cardinality(A) \in Nat
    BY <1>1, FS_CardinalityType
  <1>7. CASE Admitted(m)' /\ ~Admitted(m)
    <2>1. B = A \union {m}
      BY <1>4, <1>5, <1>7
    <2> QED
      BY <1>1, <1>2, <1>3, <1>4, <1>7, <2>1, FS_AddElement
         DEF AdmissionsCounted, B
  <1>8. CASE ~Admitted(m)' /\ Admitted(m)
    <2>1. B = A \ {m}
      BY <1>4, <1>5, <1>8
    <2> QED
      BY <1>1, <1>2, <1>3, <1>4, <1>8, <2>1, FS_RemoveElement
         DEF AdmissionsCounted, B
  <1>9. CASE Admitted(m)' <=> Admitted(m)
    <2>1. B = A
      BY <1>4, <1>5, <1>9
    <2> QED
      BY <1>2, <1>3, <1>9, <2>1 DEF AdmissionsCounted, B
  <1> QED
    BY <1>7, <1>8, <1>9

(* A step that moves nobody in or out.                                     *)
LEMMA AdmissionsKept ==
    ASSUME IInv, UNCHANGED <<active, via>>,
           \A n \in Mutations : Admitted(n)' <=> Admitted(n)
    PROVE  AdmissionsCounted'
  <1>1. {n \in Mutations : Admitted(n)'} = {n \in Mutations : Admitted(n)}
    OBVIOUS
  <1> QED
    BY <1>1 DEF IInv, AdmissionsCounted

-----------------------------------------------------------------------------
(* The steps                                                               *)

LEMMA BeginStep ==
    ASSUME IInv, NEW m \in Mutations, NEW method \in {"mutate", "begin"},
           Begin(m, method)
    PROVE  IInv'
  <1>1. /\ TypeOK /\ MutationInv /\ HolderInv /\ WaitersInv /\ ReadInv
        /\ OverInv /\ NoLostUpdate /\ AdmissionsCounted
    BY DEF IInv
  <1>2. /\ state = "open" /\ pc[m] = "new" /\ ~retired /\ active' = active + 1
        /\ via' = [via EXCEPT ![m] = method]
        /\ pc' = [pc EXCEPT ![m] = "waiting"]
        /\ waiters' = Append(waiters, m)
        /\ state' = state /\ holder' = holder /\ retired' = retired
        /\ seen' = seen /\ commit' = commit /\ end' = end /\ stored' = stored
        /\ applied' = applied /\ abandoned' = abandoned
    BY DEF Begin, At, historyVars
  <1>3. /\ pc'[m] = "waiting" /\ via'[m] = method
        /\ \A n \in Mutations : n # m => pc'[n] = pc[n] /\ via'[n] = via[n]
    BY <1>1, <1>2 DEF TypeOK
  <1>4. end[m] = "none"
    BY <1>1, <1>2 DEF MutationInv, TypeOK
  <1>5. \A n \in Mutations : Runs(n)' <=> Runs(n)
    BY <1>2, <1>3 DEF Runs
  <1>6. AdmissionsCounted' /\ active' \in 0..Cardinality(Mutations)
    <2>1. Admitted(m)' /\ ~Admitted(m)
      BY <1>2, <1>3, <1>4 DEF Admitted
    <2>2. \A n \in Mutations : n # m => (Admitted(n)' <=> Admitted(n))
      BY <1>2, <1>3 DEF Admitted
    <2> QED
      BY <1>1, <1>2, <2>1, <2>2, AdmissionStep
  <1>7. waiters' \in Seq(Mutations \union {Repo})
    BY <1>1, <1>2 DEF TypeOK
  <1>8. TypeOK'
    BY <1>1, <1>2, <1>6, <1>7 DEF TypeOK
  <1>9. MutationInv' /\ HolderInv' /\ ReadInv' /\ OverInv'
    BY <1>1, <1>2, <1>3, <1>4, <1>5
       DEF MutationInv, HolderInv, ReadInv, OverInv, Runs
  <1>10. WaitersInv'
    <2>1. \A i \in DOMAIN waiters : waiters[i] # m /\ waiters[i] \in Mutations \union {Repo}
      BY <1>1, <1>2, SessionLineAssumption DEF WaitersInv, TypeOK
    <2> QED
      BY <1>1, <1>2, <1>3, <2>1, SessionLineAssumption DEF WaitersInv, TypeOK
  <1> QED
    BY <1>1, <1>2, <1>6, <1>8, <1>9, <1>10 DEF IInv, NoLostUpdate

(* What the line looks like once the first waiter left it.                 *)
LEMMA TakeLineLemma ==
    ASSUME IInv, NEW w \in Mutations \union {Repo}, TakeLine(w)
    PROVE  /\ holder = <<>>
           /\ \A n \in Mutations : ~Runs(n)
           /\ w # Repo => pc[w] = "waiting"
           /\ waiters' \in Seq(Mutations \union {Repo})
           /\ \A i \in DOMAIN waiters' :
                /\ waiters'[i] # w
                /\ waiters'[i] # Repo => pc[waiters'[i]] = "waiting"
           /\ \A i, j \in DOMAIN waiters' : waiters'[i] = waiters'[j] => i = j
  <1>1. /\ TypeOK /\ HolderInv /\ WaitersInv
    BY DEF IInv
  <1>2. /\ holder = <<>> /\ waiters # <<>> /\ w = Head(waiters)
        /\ waiters' = Tail(waiters)
        /\ waiters \in Seq(Mutations \union {Repo})
    BY <1>1 DEF TakeLine, TypeOK
  <1>3. \A n \in Mutations : ~Runs(n)
    BY <1>1, <1>2 DEF HolderInv
  <1>4. /\ waiters' \in Seq(Mutations \union {Repo})
        /\ \A i \in DOMAIN waiters' :
                i + 1 \in DOMAIN waiters /\ waiters'[i] = waiters[i + 1]
        /\ 1 \in DOMAIN waiters /\ w = waiters[1]
        /\ DOMAIN waiters' \subseteq Nat \ {0}
    BY <1>2
  <1>5. \A i \in DOMAIN waiters' : waiters'[i] # w
    BY <1>1, <1>4 DEF WaitersInv
  <1>6. \A i, j \in DOMAIN waiters' : waiters'[i] = waiters'[j] => i = j
    BY <1>1, <1>4 DEF WaitersInv
  <1> QED
    BY <1>1, <1>2, <1>3, <1>4, <1>5, <1>6 DEF WaitersInv

LEMMA GrantStep ==
    ASSUME IInv, NEW m \in Mutations, Grant(m)
    PROVE  IInv'
  <1>1. /\ TypeOK /\ MutationInv /\ HolderInv /\ WaitersInv /\ ReadInv
        /\ OverInv /\ NoLostUpdate /\ AdmissionsCounted
    BY DEF IInv
  <1>2. /\ TakeLine(m) /\ ~retired /\ holder' = <<m>>
        /\ pc' = [pc EXCEPT ![m] = "running"]
        /\ seen' = [seen EXCEPT ![m] = stored]
        /\ state' = state /\ active' = active /\ retired' = retired
        /\ via' = via /\ commit' = commit /\ end' = end /\ stored' = stored
        /\ applied' = applied /\ abandoned' = abandoned
    BY DEF Grant, At, historyVars, facadeVars
  <1>3. /\ pc[m] = "waiting" /\ \A n \in Mutations : ~Runs(n)
        /\ waiters' \in Seq(Mutations \union {Repo})
        /\ \A i \in DOMAIN waiters' :
                /\ waiters'[i] # m
                /\ waiters'[i] # Repo => pc[waiters'[i]] = "waiting"
        /\ \A i, j \in DOMAIN waiters' : waiters'[i] = waiters'[j] => i = j
    BY <1>2, TakeLineLemma, SessionLineAssumption
  <1>4. /\ pc'[m] = "running" /\ seen'[m] = stored
        /\ \A n \in Mutations : n # m => pc'[n] = pc[n] /\ seen'[n] = seen[n]
    BY <1>1, <1>2 DEF TypeOK
  <1>5. TypeOK'
    BY <1>1, <1>2, <1>3 DEF TypeOK
  <1>6. commit[m] = "none"
    BY <1>1, <1>3 DEF MutationInv, TypeOK
  <1>7. MutationInv' /\ OverInv'
    BY <1>1, <1>2, <1>3, <1>4, <1>6 DEF MutationInv, OverInv, Runs
  <1>8. HolderInv' /\ ReadInv'
    BY <1>1, <1>2, <1>3, <1>4 DEF HolderInv, ReadInv, Runs
  <1>9. WaitersInv'
    <2>1. \A i \in DOMAIN waiters' : waiters'[i] \in Mutations \union {Repo}
      BY <1>3
    <2> QED
      BY <1>3, <1>4, <2>1 DEF WaitersInv
  <1>10. AdmissionsCounted'
    <2>1. \A n \in Mutations : Admitted(n)' <=> Admitted(n)
      BY <1>2, <1>3, <1>4 DEF Admitted
    <2> QED
      BY <1>2, <2>1, AdmissionsKept
  <1> QED
    BY <1>1, <1>2, <1>5, <1>7, <1>8, <1>9, <1>10 DEF IInv, NoLostUpdate

(* A waiter leaves the line without having had it.                         *)
LEMMA LeaveStep ==
    ASSUME IInv, NEW m \in Mutations, pc[m] = "waiting",
           pc' = [pc EXCEPT ![m] = "gone"], active' = active - 1,
           UNCHANGED <<state, holder, retired, via, seen, commit, end, stored,
                       historyVars>>,
           waiters' \in Seq(Mutations \union {Repo}),
           \A i \in DOMAIN waiters' :
                /\ waiters'[i] # m
                /\ waiters'[i] # Repo => pc[waiters'[i]] = "waiting",
           \A i, j \in DOMAIN waiters' : waiters'[i] = waiters'[j] => i = j
    PROVE  IInv'
  <1>1. /\ TypeOK /\ MutationInv /\ HolderInv /\ WaitersInv /\ ReadInv
        /\ OverInv /\ NoLostUpdate /\ AdmissionsCounted
    BY DEF IInv
  <1>2. /\ state' = state /\ holder' = holder /\ retired' = retired
        /\ via' = via /\ seen' = seen /\ commit' = commit /\ end' = end
        /\ stored' = stored /\ applied' = applied /\ abandoned' = abandoned
    BY DEF historyVars
  <1>3. /\ pc'[m] = "gone"
        /\ \A n \in Mutations : n # m => pc'[n] = pc[n]
    BY <1>1 DEF TypeOK
  <1>4. end[m] = "none"
    BY <1>1 DEF MutationInv, TypeOK
  <1>5. \A n \in Mutations : Runs(n)' <=> Runs(n)
    BY <1>2, <1>3, <1>4 DEF Runs
  <1>6. Admitted(m) /\ AdmissionsCounted' /\ active' \in 0..Cardinality(Mutations)
    <2>1. ~Admitted(m)' /\ Admitted(m)
      BY <1>2, <1>3, <1>4 DEF Admitted
    <2>2. \A n \in Mutations : n # m => (Admitted(n)' <=> Admitted(n))
      BY <1>2, <1>3 DEF Admitted
    <2> QED
      BY <1>1, <2>1, <2>2, AdmissionStep
  <1>7. TypeOK'
    BY <1>1, <1>2, <1>6 DEF TypeOK
  <1>8. MutationInv' /\ HolderInv' /\ ReadInv'
    BY <1>1, <1>2, <1>3, <1>4, <1>5 DEF MutationInv, HolderInv, ReadInv, Runs
  <1>9. OverInv'
    <2>1. active - 1 \in Nat /\ active \in Nat
      BY <1>6, <1>7, <1>1 DEF TypeOK
    <2> QED
      BY <1>1, <1>2, <2>1 DEF OverInv
  <1>10. WaitersInv'
    <2>1. \A i \in DOMAIN waiters' : waiters'[i] \in Mutations \union {Repo}
      OBVIOUS
    <2> QED
      BY <1>3, <2>1 DEF WaitersInv
  <1> QED
    BY <1>1, <1>2, <1>6, <1>7, <1>8, <1>9, <1>10 DEF IInv, NoLostUpdate

LEMMA RefuseStep ==
    ASSUME IInv, NEW m \in Mutations, Refuse(m)
    PROVE  IInv'
  <1>1. TakeLine(m) /\ m # Repo
    BY SessionLineAssumption DEF Refuse
  <1>2. /\ pc' = [pc EXCEPT ![m] = "gone"] /\ active' = active - 1
        /\ UNCHANGED <<state, holder, retired, via, seen, commit, end, stored,
                       historyVars>>
    BY DEF Refuse, At, FinishAdmission
  <1> QED
    BY <1>1, <1>2, TakeLineLemma, LeaveStep

LEMMA RemoveAtFacts ==
    ASSUME NEW S, NEW s \in Seq(S), NEW k \in 1..Len(s)
    PROVE  /\ RemoveAt(s, k) \in Seq(S)
           /\ Len(RemoveAt(s, k)) = Len(s) - 1
           /\ \A i \in 1..(Len(s) - 1) :
                RemoveAt(s, k)[i] = s[IF i < k THEN i ELSE i + 1]
  <1> DEFINE a == SubSeq(s, 1, k - 1)
             b == SubSeq(s, k + 1, Len(s))
  <1>1. /\ a \in Seq(S) /\ Len(a) = k - 1
        /\ \A i \in 1..(k - 1) : a[i] = s[i]
    BY SubSeqProperties
  <1>2. /\ b \in Seq(S) /\ Len(b) = Len(s) - k
        /\ \A i \in 1..(Len(s) - k) : b[i] = s[k + i]
    BY SubSeqProperties
  <1>3. RemoveAt(s, k) = a \o b
    BY DEF RemoveAt
  <1> HIDE DEF a, b
  <1>4. /\ a \o b \in Seq(S) /\ Len(a \o b) = Len(s) - 1
        /\ \A i \in 1..(Len(s) - 1) :
                (a \o b)[i] = IF i <= k - 1 THEN a[i] ELSE b[i - (k - 1)]
    BY <1>1, <1>2, ConcatProperties
  <1>5. ASSUME NEW i \in 1..(Len(s) - 1)
        PROVE  (a \o b)[i] = s[IF i < k THEN i ELSE i + 1]
    <2>1. CASE i < k
      BY <1>1, <1>4, <2>1
    <2>2. CASE ~(i < k)
      <3>1. i - (k - 1) \in 1..(Len(s) - k) /\ k + (i - (k - 1)) = i + 1
        BY <2>2
      <3> QED
        BY <1>2, <1>4, <2>2, <3>1
    <2> QED
      BY <2>1, <2>2
  <1> QED
    BY <1>3, <1>4, <1>5

LEMMA CancelWaitingStep ==
    ASSUME IInv, NEW m \in Mutations, CancelWaiting(m)
    PROVE  IInv'
  <1>1. /\ pc[m] = "waiting"
        /\ pc' = [pc EXCEPT ![m] = "gone"] /\ active' = active - 1
        /\ UNCHANGED <<state, holder, retired, via, seen, commit, end, stored,
                       historyVars>>
    BY DEF CancelWaiting, At, FinishAdmission
  <1>2. PICK k \in DOMAIN waiters :
            waiters[k] = m /\ waiters' = RemoveAt(waiters, k)
    BY DEF CancelWaiting
  <1>3. waiters \in Seq(Mutations \union {Repo}) /\ WaitersInv
    BY DEF IInv, TypeOK
  <1>4. /\ waiters' \in Seq(Mutations \union {Repo})
        /\ Len(waiters') = Len(waiters) - 1
        /\ \A i \in DOMAIN waiters' :
                waiters'[i] = waiters[IF i < k THEN i ELSE i + 1]
    <2> DEFINE S == Mutations \union {Repo}
    <2>1. waiters \in Seq(S) /\ k \in 1..Len(waiters)
      BY <1>3
    <2> HIDE DEF S
    <2>2. /\ RemoveAt(waiters, k) \in Seq(S)
          /\ Len(RemoveAt(waiters, k)) = Len(waiters) - 1
          /\ \A i \in 1..(Len(waiters) - 1) :
                RemoveAt(waiters, k)[i] = waiters[IF i < k THEN i ELSE i + 1]
      BY <2>1, RemoveAtFacts
    <2>3. DOMAIN waiters' = 1..(Len(waiters) - 1)
      BY <1>2, <2>1, <2>2
    <2> QED
      BY <1>2, <2>2, <2>3 DEF S
  <1>5. \A i \in DOMAIN waiters' :
            /\ (IF i < k THEN i ELSE i + 1) \in DOMAIN waiters
            /\ (IF i < k THEN i ELSE i + 1) # k
    BY <1>2, <1>3, <1>4
  <1>6. \A i \in DOMAIN waiters' :
            /\ waiters'[i] # m
            /\ waiters'[i] # Repo => pc[waiters'[i]] = "waiting"
    BY <1>2, <1>3, <1>4, <1>5 DEF WaitersInv
  <1>7. \A i, j \in DOMAIN waiters' : waiters'[i] = waiters'[j] => i = j
    <2>1. SUFFICES ASSUME NEW i \in DOMAIN waiters', NEW j \in DOMAIN waiters',
                          waiters'[i] = waiters'[j]
                   PROVE  i = j
      OBVIOUS
    <2>2. (IF i < k THEN i ELSE i + 1) = (IF j < k THEN j ELSE j + 1)
      BY <1>3, <1>4, <1>5, <2>1 DEF WaitersInv
    <2>3. i \in Int /\ j \in Int /\ k \in Int
      BY <1>2, <1>3, <1>4
    <2> QED
      BY <2>2, <2>3
  <1> QED
    BY <1>1, <1>4, <1>6, <1>7, LeaveStep

(* The repository's close joins the line and takes it.                     *)
LEMMA RepoCloseStep ==
    ASSUME IInv, RepoClose
    PROVE  IInv'
  <1>1. /\ TypeOK /\ MutationInv /\ HolderInv /\ WaitersInv /\ ReadInv
        /\ OverInv /\ NoLostUpdate /\ AdmissionsCounted
    BY DEF IInv
  <1>2. /\ waiters' = Append(waiters, Repo)
        /\ \A i \in DOMAIN waiters : waiters[i] # Repo
        /\ state' = state /\ active' = active /\ holder' = holder
        /\ retired' = retired /\ via' = via /\ pc' = pc /\ seen' = seen
        /\ commit' = commit /\ end' = end /\ stored' = stored
        /\ applied' = applied /\ abandoned' = abandoned
    BY DEF RepoClose, facadeVars, historyVars
  <1>3. TypeOK'
    BY <1>1, <1>2 DEF TypeOK
  <1>4. WaitersInv'
    BY <1>1, <1>2 DEF TypeOK, WaitersInv
  <1>5. MutationInv' /\ HolderInv' /\ ReadInv' /\ OverInv' /\ NoLostUpdate'
    BY <1>1, <1>2
       DEF MutationInv, HolderInv, ReadInv, OverInv, NoLostUpdate, Runs
  <1>6. AdmissionsCounted'
    BY <1>2, AdmissionsKept DEF Admitted
  <1> QED
    BY <1>3, <1>4, <1>5, <1>6 DEF IInv

LEMMA RetireStep ==
    ASSUME IInv, Retire
    PROVE  IInv'
  <1>1. /\ TypeOK /\ MutationInv /\ HolderInv /\ WaitersInv /\ ReadInv
        /\ OverInv /\ NoLostUpdate /\ AdmissionsCounted
    BY DEF IInv
  <1>2. /\ TakeLine(Repo) /\ retired' = TRUE
        /\ state' = state /\ active' = active /\ holder' = holder
        /\ via' = via /\ pc' = pc /\ seen' = seen
        /\ commit' = commit /\ end' = end /\ stored' = stored
        /\ applied' = applied /\ abandoned' = abandoned
    BY DEF Retire, facadeVars, historyVars
  <1>3. /\ holder = <<>>
        /\ waiters' \in Seq(Mutations \union {Repo})
        /\ \A i \in DOMAIN waiters' :
                waiters'[i] # Repo => pc[waiters'[i]] = "waiting"
        /\ \A i, j \in DOMAIN waiters' : waiters'[i] = waiters'[j] => i = j
    BY <1>2, TakeLineLemma
  <1>4. retired' \in BOOLEAN
    BY <1>2, Zenon
  <1>5. TypeOK'
    BY <1>1, <1>2, <1>3, <1>4 DEF TypeOK
  <1>6. MutationInv' /\ HolderInv' /\ ReadInv' /\ NoLostUpdate'
    BY <1>1, <1>2 DEF MutationInv, HolderInv, ReadInv, NoLostUpdate, Runs
  <1>7. OverInv' /\ WaitersInv'
    BY <1>1, <1>2, <1>3 DEF OverInv, WaitersInv
  <1>8. AdmissionsCounted'
    BY <1>2, AdmissionsKept DEF Admitted
  <1> QED
    BY <1>5, <1>6, <1>7, <1>8 DEF IInv

(* Only a waiter matters to WaitersInv.                                    *)
LEMMA WaitersKept ==
    ASSUME IInv, waiters' = waiters,
           \A n \in Mutations : pc[n] = "waiting" => pc'[n] = "waiting"
    PROVE  WaitersInv'
  <1>1. \A i \in DOMAIN waiters : waiters[i] \in Mutations \union {Repo}
    BY DEF IInv, TypeOK
  <1> QED
    BY <1>1 DEF IInv, WaitersInv

LEMMA CommitStep ==
    ASSUME IInv, NEW m \in Mutations, Commit(m)
    PROVE  IInv'
  <1>1. /\ TypeOK /\ MutationInv /\ HolderInv /\ WaitersInv /\ ReadInv
        /\ OverInv /\ NoLostUpdate /\ AdmissionsCounted
    BY DEF IInv
  <1>2. /\ pc[m] = "running" /\ commit[m] = "none"
        /\ commit' = [commit EXCEPT ![m] = "inFlight"]
        /\ pc' = [pc EXCEPT ![m] = "committing"]
        /\ state' = state /\ active' = active /\ holder' = holder
        /\ waiters' = waiters /\ retired' = retired /\ via' = via
        /\ seen' = seen /\ end' = end /\ stored' = stored
        /\ applied' = applied /\ abandoned' = abandoned
    BY DEF Commit, At, facadeVars, lineVars, historyVars
  <1>3. /\ pc'[m] = "committing" /\ commit'[m] = "inFlight"
        /\ \A n \in Mutations : n # m => pc'[n] = pc[n] /\ commit'[n] = commit[n]
    BY <1>1, <1>2 DEF TypeOK
  <1>4. TypeOK'
    BY <1>1, <1>2 DEF TypeOK
  <1>5. MutationInv' /\ HolderInv' /\ ReadInv' /\ OverInv' /\ NoLostUpdate'
    BY <1>1, <1>2, <1>3
       DEF MutationInv, HolderInv, ReadInv, OverInv, NoLostUpdate, Runs
  <1>6. WaitersInv'
    BY <1>2, <1>3, WaitersKept
  <1>7. AdmissionsCounted'
    BY <1>2, <1>3, AdmissionsKept DEF Admitted
  <1> QED
    BY <1>4, <1>5, <1>6, <1>7 DEF IInv

(* Whoever settles the commit, its mutation still has the line: nothing    *)
(* was written since it read.                                              *)
LEMMA StorageStep ==
    ASSUME IInv, NEW m \in Mutations, NEW succeeds \in BOOLEAN,
           StorageSettles(m, succeeds)
    PROVE  IInv'
  <1>1. /\ TypeOK /\ MutationInv /\ HolderInv /\ WaitersInv /\ ReadInv
        /\ OverInv /\ NoLostUpdate /\ AdmissionsCounted
    BY DEF IInv
  <1>2. /\ commit[m] = "inFlight"
        /\ commit' = [commit EXCEPT ![m] = "settled"]
        /\ \/ stored' = seen[m] + 1 /\ applied' = applied + 1
           \/ stored' = stored /\ applied' = applied
        /\ state' = state /\ active' = active /\ holder' = holder
        /\ waiters' = waiters /\ retired' = retired /\ via' = via
        /\ pc' = pc /\ seen' = seen /\ end' = end /\ abandoned' = abandoned
    BY DEF StorageSettles, facadeVars, lineVars
  <1>3. Runs(m) /\ seen[m] = stored /\ \A n \in Mutations : Runs(n) => n = m
    BY <1>1, <1>2 DEF MutationInv, HolderInv, ReadInv
  <1>4. /\ commit'[m] = "settled"
        /\ \A n \in Mutations : n # m => commit'[n] = commit[n]
    BY <1>1, <1>2 DEF TypeOK
  <1>5. /\ stored \in Nat /\ applied \in Nat /\ stored' \in Nat
        /\ applied' \in Nat /\ stored' = applied'
    BY <1>1, <1>2, <1>3 DEF TypeOK, NoLostUpdate
  <1>6. TypeOK'
    BY <1>1, <1>2, <1>5 DEF TypeOK
  <1>7. pc[m] \notin {"new", "waiting", "running"}
    BY <1>1, <1>2 DEF MutationInv
  <1>8. MutationInv' /\ HolderInv' /\ OverInv' /\ ReadInv'
    BY <1>1, <1>2, <1>3, <1>4, <1>7
       DEF MutationInv, HolderInv, ReadInv, OverInv, Runs
  <1>9. WaitersInv'
    BY <1>2, WaitersKept
  <1>10. AdmissionsCounted'
    BY <1>2, AdmissionsKept DEF Admitted
  <1> QED
    BY <1>5, <1>6, <1>8, <1>9, <1>10 DEF IInv, NoLostUpdate

(* The callback returns or is cancelled, its commit perhaps under way.     *)
LEMMA EndStep ==
    ASSUME IInv, NEW m \in Mutations, Finish(m) \/ CancelCallback(m)
    PROVE  IInv'
  <1>1. /\ TypeOK /\ MutationInv /\ HolderInv /\ WaitersInv /\ ReadInv
        /\ OverInv /\ NoLostUpdate /\ AdmissionsCounted
    BY DEF IInv
  <1>2. /\ pc[m] \in {"running", "committing"}
        /\ end' = [end EXCEPT ![m] = "pending"]
        /\ pc' = [pc EXCEPT ![m] = "ending"]
        /\ state' = state /\ active' = active /\ holder' = holder
        /\ waiters' = waiters /\ retired' = retired /\ via' = via
        /\ seen' = seen /\ commit' = commit /\ stored' = stored
        /\ applied' = applied /\ abandoned' = abandoned
    BY DEF Finish, CancelCallback, End, At, facadeVars, lineVars, historyVars
  <1>3. /\ pc'[m] = "ending" /\ end'[m] = "pending"
        /\ \A n \in Mutations : n # m => pc'[n] = pc[n] /\ end'[n] = end[n]
    BY <1>1, <1>2 DEF TypeOK
  <1>4. TypeOK'
    BY <1>1, <1>2 DEF TypeOK
  <1>5. MutationInv' /\ HolderInv' /\ ReadInv' /\ OverInv' /\ NoLostUpdate'
    BY <1>1, <1>2, <1>3
       DEF MutationInv, HolderInv, ReadInv, OverInv, NoLostUpdate, Runs
  <1>6. WaitersInv'
    BY <1>2, <1>3, WaitersKept
  <1>7. via[m] \in {"mutate", "begin"}
    BY <1>1, <1>2 DEF MutationInv, TypeOK
  <1>8. AdmissionsCounted'
    BY <1>2, <1>3, <1>7, AdmissionsKept DEF Admitted
  <1> QED
    BY <1>4, <1>5, <1>6, <1>8 DEF IInv

LEMMA ReleaseStep ==
    ASSUME IInv, NEW m \in Mutations, Release(m)
    PROVE  IInv'
  <1>1. /\ TypeOK /\ MutationInv /\ HolderInv /\ WaitersInv /\ ReadInv
        /\ OverInv /\ NoLostUpdate /\ AdmissionsCounted
    BY DEF IInv
  <1>2. /\ end[m] = "pending" /\ commit[m] # "inFlight"
        /\ end' = [end EXCEPT ![m] = "done"]
        /\ holder' = <<>>
        /\ active' = IF via[m] = "begin" THEN active - 1 ELSE active
        /\ state' = state /\ waiters' = waiters /\ retired' = retired
        /\ via' = via /\ pc' = pc /\ seen' = seen /\ commit' = commit
        /\ stored' = stored /\ applied' = applied /\ abandoned' = abandoned
    BY DEF Release, Settled, FinishAdmission, historyVars
  <1>3. /\ end'[m] = "done"
        /\ \A n \in Mutations : n # m => end'[n] = end[n]
    BY <1>1, <1>2 DEF TypeOK
  <1>4. pc[m] \in {"ending", "gone"} /\ via[m] \in {"mutate", "begin"}
    BY <1>1, <1>2 DEF MutationInv, TypeOK
  <1>5. ~Runs(m)' /\ \A n \in Mutations : n # m => ~Runs(n) /\ ~Runs(n)'
    <2>1. Runs(m)
      BY <1>2 DEF Runs
    <2>2. \A n \in Mutations : n # m => ~Runs(n)
      BY <1>1, <2>1 DEF HolderInv
    <2> QED
      BY <1>2, <1>3, <1>4, <2>2 DEF Runs
  <1>6. AdmissionsCounted' /\ active' \in 0..Cardinality(Mutations)
    <2>1. \A n \in Mutations : n # m => (Admitted(n)' <=> Admitted(n))
      BY <1>2, <1>3 DEF Admitted
    <2>2. /\ via[m] = "begin" => Admitted(m) /\ ~Admitted(m)'
          /\ via[m] = "mutate" => (Admitted(m) <=> Admitted(m)')
      BY <1>2, <1>3, <1>4 DEF Admitted
    <2> QED
      BY <1>1, <1>2, <1>4, <2>1, <2>2, AdmissionStep
  <1>7. TypeOK'
    BY <1>1, <1>2, <1>6 DEF TypeOK
  <1>8. MutationInv'
    BY <1>1, <1>2, <1>3, <1>4, <1>5 DEF MutationInv, Runs
  <1>9. HolderInv' /\ ReadInv'
    BY <1>2, <1>5 DEF HolderInv, ReadInv
  <1>10. OverInv'
    <2>1. active \in Nat /\ active' \in Nat
      BY <1>1, <1>7 DEF TypeOK
    <2> QED
      BY <1>1, <1>2, <2>1 DEF OverInv
  <1>11. WaitersInv'
    BY <1>2, WaitersKept
  <1> QED
    BY <1>1, <1>2, <1>6, <1>7, <1>8, <1>9, <1>10, <1>11 DEF IInv, NoLostUpdate

(* The caller of the end returns, or is cancelled a second time.           *)
LEMMA ReturnStep ==
    ASSUME IInv, NEW m \in Mutations, Return(m) \/ CancelEnding(m)
    PROVE  IInv'
  <1>1. /\ TypeOK /\ MutationInv /\ HolderInv /\ WaitersInv /\ ReadInv
        /\ OverInv /\ NoLostUpdate /\ AdmissionsCounted
    BY DEF IInv
  <1>2. /\ pc[m] = "ending"
        /\ pc' = [pc EXCEPT ![m] = "gone"]
        /\ active' = IF via[m] = "mutate" THEN active - 1 ELSE active
        /\ abandoned \subseteq abandoned' /\ abandoned' \subseteq Mutations
        /\ via[m] = "mutate" /\ end[m] = "pending" => m \in abandoned'
        /\ state' = state /\ holder' = holder /\ waiters' = waiters
        /\ retired' = retired /\ via' = via /\ seen' = seen
        /\ commit' = commit /\ end' = end /\ stored' = stored
        /\ applied' = applied
    BY <1>1
       DEF Return, CancelEnding, At, LastsTheCall, FinishAdmission, lineVars,
           historyVars, TypeOK
  <1>3. /\ pc'[m] = "gone"
        /\ \A n \in Mutations : n # m => pc'[n] = pc[n]
    BY <1>1, <1>2 DEF TypeOK
  <1>4. via[m] \in {"mutate", "begin"} /\ end[m] \in {"pending", "done"}
    BY <1>1, <1>2 DEF MutationInv, TypeOK
  <1>5. \A n \in Mutations : Runs(n)' <=> Runs(n)
    BY <1>2, <1>3 DEF Runs
  <1>6. AdmissionsCounted' /\ active' \in 0..Cardinality(Mutations)
    <2>1. \A n \in Mutations : n # m => (Admitted(n)' <=> Admitted(n))
      BY <1>2, <1>3 DEF Admitted
    <2>2. /\ via[m] = "mutate" => Admitted(m) /\ ~Admitted(m)'
          /\ via[m] = "begin" => (Admitted(m) <=> Admitted(m)')
      BY <1>2, <1>3 DEF Admitted
    <2> QED
      BY <1>1, <1>2, <1>4, <2>1, <2>2, AdmissionStep
  <1>7. TypeOK'
    BY <1>1, <1>2, <1>6 DEF TypeOK
  <1>8. MutationInv' /\ HolderInv' /\ ReadInv'
    BY <1>1, <1>2, <1>3, <1>4, <1>5 DEF MutationInv, HolderInv, ReadInv, Runs
  <1>9. OverInv'
    <2>1. active \in Nat /\ active' \in Nat
      BY <1>1, <1>7 DEF TypeOK
    <2> QED
      BY <1>1, <1>2, <2>1 DEF OverInv
  <1>10. WaitersInv'
    BY <1>2, <1>3, WaitersKept
  <1> QED
    BY <1>1, <1>2, <1>6, <1>7, <1>8, <1>9, <1>10 DEF IInv, NoLostUpdate

LEMMA CloseStep ==
    ASSUME IInv, Close \/ Drain \/ UNCHANGED vars
    PROVE  IInv'
  <1>1. /\ TypeOK /\ MutationInv /\ HolderInv /\ WaitersInv /\ ReadInv
        /\ OverInv /\ NoLostUpdate /\ AdmissionsCounted
    BY DEF IInv
  <1>2. /\ active' = active /\ holder' = holder /\ waiters' = waiters
        /\ retired' = retired /\ via' = via /\ pc' = pc /\ seen' = seen
        /\ commit' = commit /\ end' = end /\ stored' = stored
        /\ applied' = applied /\ abandoned' = abandoned
        /\ state' \in {"open", "closing", "closed"}
        /\ state' = "closed" => active = 0
    BY <1>1
       DEF Close, Drain, Drained, vars, facadeVars, lineVars, historyVars,
           OverInv, TypeOK
  <1>3. TypeOK'
    BY <1>1, <1>2 DEF TypeOK
  <1>4. MutationInv' /\ HolderInv' /\ ReadInv' /\ OverInv' /\ NoLostUpdate'
    BY <1>1, <1>2
       DEF MutationInv, HolderInv, ReadInv, OverInv, NoLostUpdate, Runs
  <1>5. WaitersInv'
    BY <1>2, WaitersKept
  <1>6. AdmissionsCounted'
    BY <1>2, AdmissionsKept DEF Admitted
  <1> QED
    BY <1>3, <1>4, <1>5, <1>6 DEF IInv

-----------------------------------------------------------------------------
(* The theorems                                                            *)

LEMMA InvStep == IInv /\ [Next]_vars => IInv'
  <1> SUFFICES ASSUME IInv, [Next]_vars PROVE IInv'
    OBVIOUS
  <1>1. ASSUME NEW m \in Mutations, NEW method \in {"mutate", "begin"},
               Begin(m, method)
        PROVE  IInv'
    BY <1>1, BeginStep
  <1>2. ASSUME NEW m \in Mutations, Step(m)
        PROVE  IInv'
    BY <1>2, GrantStep, RefuseStep, StorageStep, EndStep, ReleaseStep,
       ReturnStep
       DEF Step
  <1>3. ASSUME NEW m \in Mutations,
               Commit(m) \/ CancelWaiting(m) \/ CancelCallback(m)
                    \/ CancelEnding(m)
        PROVE  IInv'
    BY <1>3, CommitStep, CancelWaitingStep, EndStep, ReturnStep
  <1>4. CASE RepoClose \/ Retire \/ Close \/ Drain \/ UNCHANGED vars
    BY <1>4, RepoCloseStep, RetireStep, CloseStep
  <1> QED
    BY <1>1, <1>2, <1>3, <1>4 DEF Next

LEMMA InvAlways == Spec => []IInv
  BY InitInv, InvStep, PTL DEF Spec

(* Every reachable state is well typed: the count of admissions stays      *)
(* between zero and the number of mutations.                               *)
THEOREM LineTypeCorrect == Spec => []TypeOK
  <1>1. IInv => TypeOK
    BY DEF IInv
  <1> QED
    BY <1>1, InvAlways, PTL

(* No commit overwrites another one it did not see, with any number of     *)
(* mutations, cancelled wherever they wait.                                *)
THEOREM UpdatesKept == Spec => []NoLostUpdate
  <1>1. IInv => NoLostUpdate
    BY DEF IInv
  <1> QED
    BY <1>1, InvAlways, PTL

(* The count of admissions is the number of mutations under way.           *)
THEOREM AdmissionsExact == Spec => []AdmissionsCounted
  <1>1. IInv => AdmissionsCounted
    BY DEF IInv
  <1> QED
    BY <1>1, InvAlways, PTL

(* A closed facade has nothing under way that its caller did not abandon.  *)
THEOREM CloseDrains == Spec => []ClosedDrained
  <1>1. ASSUME IInv PROVE ClosedDrained
    <2>1. SUFFICES ASSUME state = "closed", NEW m \in Mutations,
                          m \notin abandoned
                   PROVE  /\ pc[m] \notin {"waiting", "running", "committing"}
                          /\ commit[m] # "inFlight" /\ end[m] # "pending"
      BY DEF ClosedDrained
    <2>2. Cardinality({n \in Mutations : Admitted(n)}) = 0
      BY <1>1, <2>1 DEF IInv, OverInv, AdmissionsCounted
    <2>3. {n \in Mutations : Admitted(n)} = {}
      BY <2>2, SessionLineAssumption, FS_Subset, FS_EmptySet
    <2>4. ~Admitted(m)
      BY <2>3
    <2>5. end[m] # "pending"
      BY <1>1, <2>1, <2>4 DEF IInv, MutationInv, TypeOK, Admitted
    <2> QED
      BY <1>1, <2>4, <2>5 DEF IInv, MutationInv, Admitted, Runs
  <1> QED
    BY <1>1, InvAlways, PTL

(* After the repository's close nothing commits.                           *)
THEOREM RetiredStaysQuiet == Spec => RetiredQuiet
  <1>1. ASSUME IInv, [Next]_vars, retired
        PROVE  applied' = applied /\ \A m \in Mutations :
                    commit[m] # "inFlight" => commit'[m] # "inFlight"
    <2>1. /\ \A m \in Mutations : ~Runs(m) /\ commit[m] # "inFlight"
          /\ TypeOK
      BY <1>1 DEF IInv, OverInv, HolderInv, MutationInv
    <2>2. \A m \in Mutations :
            ~Commit(m) /\ \A succeeds \in BOOLEAN : ~StorageSettles(m, succeeds)
      BY <2>1 DEF Commit, StorageSettles, Runs
    <2>3. applied' = applied /\ commit' = commit
      BY <1>1, <2>2 DEF Next, Step, Begin, Grant, Refuse, Finish, Release, Return,
         CancelWaiting, CancelCallback, CancelEnding, RepoClose, Retire, Close, Drain,
         historyVars, vars
    <2> QED
      BY <2>3
  <1> QED
    BY <1>1, InvAlways, PTL DEF Spec, RetiredQuiet

(* What a close means, for any number of mutations: the count it waits for  *)
(* is exact, it leaves nothing under way that was not abandoned, and after  *)
(* the repository's own close nothing commits.                              *)
THEOREM LineClosesQuietly == Spec => ClosesQuietly
  BY LineTypeCorrect, AdmissionsExact, CloseDrains, RetiredStaysQuiet, PTL
     DEF ClosesQuietly, RetiredQuiet

-----------------------------------------------------------------------------
(* The lanes of the harness                                                *)

(* The mutation's call is in the session.                                  *)
Active(m) == pc[m] \in {"waiting", "running", "committing", "ending"}

(* What a call is about, and what it may rely on: an acquisition that is   *)
(* past the lane lock has it, publishes only what is stored, and was under *)
(* way when a fault struck; a drive has its lane.                          *)
CallInv(m) ==
    /\ call[m] = "none" =>
            pc[m] = "new" /\ kind[m] = "none" /\ outcome[m] = "none"
    /\ Active(m) => call[m] = "inside"
    /\ kind[m] = "lane" /\ outcome[m] \in {"found", "committed"} =>
            lane[m] \in laneStored
    /\ kind[m] = "lane" /\ call[m] \in {"inside", "faulting"} =>
            lockHolder = <<m>>
    /\ Driving(m) => lane[m] \in lanes
    /\ fault # "none" /\ kind[m] = "lane" /\ call[m] = "inside" =>
            m \in racing
    /\ fault = "emitting" /\ m \in faulter => call[m] = "faulting"
    /\ call[m] = "faulting" => fault # "none"

(* Who waits for the lane lock is an acquisition, and none passes it once  *)
(* the close did.                                                          *)
LockInv ==
    /\ \A i \in DOMAIN lockWaiters :
            lockWaiters[i] # CloseCall => kind[lockWaiters[i]] = "lane"
    /\ closing \in {"lanes", "session"} => lockHolder = <<>>

HInv ==
    /\ HarnessTypeOK
    /\ LanesAreStored
    /\ ClosedLanesRest
    /\ FaultSealsLanes
    /\ \A m \in Mutations : CallInv(m)
    /\ LockInv

(* A step of the session that concerns the harness only by the place of a   *)
(* mutation.                                                                *)
LEMMA SessionStep ==
    ASSUME IInv, HInv, TypeOK', UNCHANGED harnessVars,
           \A n \in Mutations :
                /\ Active(n)' => Active(n)
                /\ pc[n] = "new" => pc'[n] = "new"
    PROVE  HInv'
  <1>1. HarnessTypeOK'
    BY DEF HInv, HarnessTypeOK, harnessVars, callVars, lockVars, laneVars,
           faultVars
  <1>2. LanesAreStored'
    BY DEF HInv, LanesAreStored, CallInv, HarnessTypeOK, harnessVars,
           callVars, lockVars, laneVars, faultVars
  <1>3. ClosedLanesRest'
    BY DEF HInv, ClosedLanesRest, CallInv, LockInv, Driving, HarnessTypeOK,
           harnessVars, callVars, lockVars, laneVars, faultVars
  <1>4. FaultSealsLanes'
    BY DEF HInv, FaultSealsLanes, CallInv, HarnessTypeOK, harnessVars,
           callVars, lockVars, laneVars, faultVars
  <1>5. \A n \in Mutations : CallInv(n)'
    BY DEF HInv, HarnessTypeOK, CallInv, Driving, Active, LockInv,
           harnessVars, callVars, lockVars, laneVars, faultVars
  <1>6. LockInv'
    BY DEF HInv, HarnessTypeOK, LockInv, CloseCall, harnessVars, callVars,
           lockVars, laneVars, faultVars
  <1> QED
    BY <1>1, <1>2, <1>3, <1>4, <1>5, <1>6 DEF HInv

LEMMA LockTaken ==
    ASSUME NEW w, TakeLock(w), lockWaiters \in Seq(Mutations \union {CloseCall})
    PROVE  /\ lockHolder = <<>>
           /\ lockWaiters' \in Seq(Mutations \union {CloseCall})
           /\ \A i \in DOMAIN lockWaiters' : \E j \in DOMAIN lockWaiters :
                    lockWaiters'[i] = lockWaiters[j]
           /\ lockWaiters[1] = w /\ 1 \in DOMAIN lockWaiters
  <1>1. /\ lockHolder = <<>> /\ lockWaiters # <<>> /\ w = Head(lockWaiters)
        /\ lockWaiters' = Tail(lockWaiters)
    BY DEF TakeLock
  <1>2. /\ lockWaiters' \in Seq(Mutations \union {CloseCall})
        /\ \A i \in DOMAIN lockWaiters' :
                i + 1 \in DOMAIN lockWaiters /\ lockWaiters'[i] = lockWaiters[i + 1]
        /\ 1 \in DOMAIN lockWaiters /\ w = lockWaiters[1]
    BY <1>1
  <1> QED
    BY <1>1, <1>2

LEMMA CallLaneStep ==
    ASSUME IInv, HInv, TypeOK', NEW m \in Mutations, CallLane(m)
    PROVE  HInv'
  <1>v. UNCHANGED pc
    BY DEF vars, CallLane
  <1>c. /\ call'[m] = "queued" /\ \A n \in Mutations \ {m} : call'[n] = call[n]
        /\ call' \in [Mutations -> {"none", "queued", "inside", "faulting", "done"}]
    BY DEF HInv, HarnessTypeOK, To, CallLane
  <1>k. /\ call[m] = "none" /\ kind'[m] = "lane"
        /\ \A n \in Mutations \ {m} : kind'[n] = kind[n]
        /\ kind' \in [Mutations -> {"none", "lane", "drive", "host"}]
    BY DEF HInv, HarnessTypeOK, CallLane
  <1>w. /\ lockWaiters' \in Seq(Mutations \union {CloseCall})
        /\ \A i \in DOMAIN lockWaiters' :
                \/ i \in DOMAIN lockWaiters /\ lockWaiters'[i] = lockWaiters[i]
                \/ lockWaiters'[i] = m
    BY DEF HInv, HarnessTypeOK, CallLane
  <1>1. HarnessTypeOK'
    BY <1>v, <1>c, <1>k, <1>w
       DEF HInv, HarnessTypeOK, laneVars, faultVars, CallLane
  <1>2. LanesAreStored'
    BY <1>v, <1>c, <1>k, <1>w
       DEF HInv, LanesAreStored, CallInv, HarnessTypeOK, laneVars, faultVars,
           CallLane
  <1>3. ClosedLanesRest'
    BY <1>v, <1>c, <1>k, <1>w
       DEF HInv, ClosedLanesRest, CallInv, LockInv, Driving, HarnessTypeOK,
           laneVars, faultVars, CallLane
  <1>4. FaultSealsLanes'
    BY <1>v, <1>c, <1>k, <1>w
       DEF HInv, FaultSealsLanes, CallInv, HarnessTypeOK, laneVars, faultVars,
           CallLane
  <1>5. \A n \in Mutations : CallInv(n)'
    BY <1>v, <1>c, <1>k, <1>w
       DEF HInv, HarnessTypeOK, CallInv, Driving, Active, LockInv, laneVars,
           faultVars, CallLane
  <1>6. LockInv'
    BY <1>v, <1>c, <1>k, <1>w
       DEF HInv, HarnessTypeOK, LockInv, CloseCall, laneVars, faultVars,
           CallLane
  <1> QED
    BY <1>1, <1>2, <1>3, <1>4, <1>5, <1>6 DEF HInv

LEMMA LaneAtOnceStep ==
    ASSUME IInv, HInv, TypeOK', NEW m \in Mutations, LaneAtOnce(m)
    PROVE  HInv'
  <1>v. UNCHANGED pc
    BY DEF vars, LaneAtOnce
  <1>c. /\ call'[m] = "done" /\ \A n \in Mutations \ {m} : call'[n] = call[n]
        /\ call' \in [Mutations -> {"none", "queued", "inside", "faulting", "done"}]
    BY DEF HInv, HarnessTypeOK, To, LaneAtOnce
  <1>w. /\ lockHolder = <<>> /\ lockWaiters' \in Seq(Mutations \union {CloseCall})
        /\ \A i \in DOMAIN lockWaiters' : \E j \in DOMAIN lockWaiters :
                lockWaiters'[i] = lockWaiters[j]
        /\ m # CloseCall /\ kind[m] = "lane"
        /\ lockWaiters[1] = m /\ 1 \in DOMAIN lockWaiters
    BY LockTaken, SessionLineAssumption
       DEF HInv, HarnessTypeOK, LockInv, CloseCall, LaneAtOnce
  <1>1. HarnessTypeOK'
    BY <1>v, <1>c, <1>w
       DEF HInv, HarnessTypeOK, laneVars, faultVars, LaneAtOnce
  <1>2. LanesAreStored'
    BY <1>v, <1>c, <1>w
       DEF HInv, LanesAreStored, CallInv, HarnessTypeOK, laneVars, faultVars,
           LaneAtOnce
  <1>3. ClosedLanesRest'
    BY <1>v, <1>c, <1>w
       DEF HInv, ClosedLanesRest, CallInv, LockInv, Driving, HarnessTypeOK,
           laneVars, faultVars, LaneAtOnce
  <1>4. FaultSealsLanes'
    BY <1>v, <1>c, <1>w
       DEF HInv, FaultSealsLanes, CallInv, HarnessTypeOK, laneVars, faultVars,
           LaneAtOnce
  <1>5. \A n \in Mutations : CallInv(n)'
    BY <1>v, <1>c, <1>w
       DEF HInv, HarnessTypeOK, CallInv, Driving, Active, LockInv, laneVars,
           faultVars, LaneAtOnce
  <1>6. LockInv'
    BY <1>v, <1>c, <1>w
       DEF HInv, HarnessTypeOK, LockInv, CloseCall, laneVars, faultVars,
           LaneAtOnce
  <1> QED
    BY <1>1, <1>2, <1>3, <1>4, <1>5, <1>6 DEF HInv

LEMMA EnterLaneStep ==
    ASSUME IInv, HInv, TypeOK', NEW m \in Mutations, EnterLane(m)
    PROVE  HInv'
  <1>p. /\ pc[m] = "new" /\ pc'[m] = "waiting"
        /\ \A n \in Mutations \ {m} : pc'[n] = pc[n]
    BY DEF IInv, TypeOK, Begin, At, EnterLane
  <1>c. /\ call'[m] = "inside" /\ \A n \in Mutations \ {m} : call'[n] = call[n]
        /\ call' \in [Mutations -> {"none", "queued", "inside", "faulting", "done"}]
    BY DEF HInv, HarnessTypeOK, To, EnterLane
  <1>w. /\ lockHolder = <<>> /\ lockWaiters' \in Seq(Mutations \union {CloseCall})
        /\ \A i \in DOMAIN lockWaiters' : \E j \in DOMAIN lockWaiters :
                lockWaiters'[i] = lockWaiters[j]
        /\ m # CloseCall /\ kind[m] = "lane"
        /\ lockWaiters[1] = m /\ 1 \in DOMAIN lockWaiters
    BY LockTaken, SessionLineAssumption
       DEF HInv, HarnessTypeOK, LockInv, CloseCall, EnterLane
  <1>1. HarnessTypeOK'
    BY <1>p, <1>c, <1>w
       DEF HInv, HarnessTypeOK, laneVars, faultVars, EnterLane, Opened
  <1>2. LanesAreStored'
    BY <1>p, <1>c, <1>w
       DEF HInv, LanesAreStored, CallInv, HarnessTypeOK, laneVars, faultVars,
           EnterLane, Opened
  <1>3. ClosedLanesRest'
    BY <1>p, <1>c, <1>w
       DEF HInv, ClosedLanesRest, CallInv, LockInv, Driving, HarnessTypeOK,
           laneVars, faultVars, EnterLane, Opened
  <1>4. FaultSealsLanes'
    BY <1>p, <1>c, <1>w
       DEF HInv, FaultSealsLanes, CallInv, HarnessTypeOK, laneVars, faultVars,
           EnterLane, Opened
  <1>5. \A n \in Mutations : CallInv(n)'
    BY <1>p, <1>c, <1>w
       DEF HInv, HarnessTypeOK, CallInv, Driving, Active, LockInv, laneVars,
           faultVars, EnterLane, Opened
  <1>6. LockInv'
    BY <1>p, <1>c, <1>w
       DEF HInv, HarnessTypeOK, LockInv, CloseCall, laneVars, faultVars,
           EnterLane, Opened
  <1> QED
    BY <1>1, <1>2, <1>3, <1>4, <1>5, <1>6 DEF HInv

LEMMA CallDriveStep ==
    ASSUME IInv, HInv, TypeOK', NEW m \in Mutations, CallDrive(m)
    PROVE  HInv'
  <1>p. /\ pc[m] = "new" /\ pc'[m] = "waiting"
        /\ \A n \in Mutations \ {m} : pc'[n] = pc[n]
    BY DEF IInv, TypeOK, Begin, At, CallDrive
  <1>c. /\ call'[m] = "inside" /\ \A n \in Mutations \ {m} : call'[n] = call[n]
        /\ call' \in [Mutations -> {"none", "queued", "inside", "faulting", "done"}]
    BY DEF HInv, HarnessTypeOK, To, CallDrive
  <1>k. /\ call[m] = "none" /\ kind'[m] = "drive"
        /\ \A n \in Mutations \ {m} : kind'[n] = kind[n]
        /\ kind' \in [Mutations -> {"none", "lane", "drive", "host"}]
    BY DEF HInv, HarnessTypeOK, CallDrive
  <1>1. HarnessTypeOK'
    BY <1>p, <1>c, <1>k
       DEF HInv, HarnessTypeOK, lockVars, laneVars, faultVars, CallDrive
  <1>2. LanesAreStored'
    BY <1>p, <1>c, <1>k
       DEF HInv, LanesAreStored, CallInv, HarnessTypeOK, lockVars, laneVars,
           faultVars, CallDrive
  <1>3. ClosedLanesRest'
    BY <1>p, <1>c, <1>k
       DEF HInv, ClosedLanesRest, CallInv, LockInv, Driving, HarnessTypeOK,
           lockVars, laneVars, faultVars, CallDrive
  <1>4. FaultSealsLanes'
    BY <1>p, <1>c, <1>k
       DEF HInv, FaultSealsLanes, CallInv, HarnessTypeOK, lockVars, laneVars,
           faultVars, CallDrive
  <1>5. \A n \in Mutations : CallInv(n)'
    BY <1>p, <1>c, <1>k
       DEF HInv, HarnessTypeOK, CallInv, Driving, Active, LockInv, lockVars,
           laneVars, faultVars, CallDrive
  <1>6. LockInv'
    <2>1. \A i \in DOMAIN lockWaiters : lockWaiters[i] \in Mutations \union {CloseCall}
      BY DEF HInv, HarnessTypeOK
    <2>2. kind[m] = "none"
      BY <1>k DEF HInv, CallInv
    <2> QED
      BY <1>k, <2>1, <2>2 DEF HInv, LockInv, lockVars, CallDrive
  <1> QED
    BY <1>1, <1>2, <1>3, <1>4, <1>5, <1>6 DEF HInv

LEMMA CallHostStep ==
    ASSUME IInv, HInv, TypeOK', NEW m \in Mutations, CallHost(m)
    PROVE  HInv'
  <1>p. /\ pc[m] = "new" /\ pc'[m] = "waiting"
        /\ \A n \in Mutations \ {m} : pc'[n] = pc[n]
    BY DEF IInv, TypeOK, Begin, At, CallHost
  <1>c. /\ call'[m] = "inside" /\ \A n \in Mutations \ {m} : call'[n] = call[n]
        /\ call' \in [Mutations -> {"none", "queued", "inside", "faulting", "done"}]
    BY DEF HInv, HarnessTypeOK, To, CallHost
  <1>k. /\ call[m] = "none" /\ kind'[m] = "host"
        /\ \A n \in Mutations \ {m} : kind'[n] = kind[n]
        /\ kind' \in [Mutations -> {"none", "lane", "drive", "host"}]
    BY DEF HInv, HarnessTypeOK, CallHost
  <1>1. HarnessTypeOK'
    BY <1>p, <1>c, <1>k
       DEF HInv, HarnessTypeOK, lockVars, laneVars, faultVars, CallHost
  <1>2. LanesAreStored'
    BY <1>p, <1>c, <1>k
       DEF HInv, LanesAreStored, CallInv, HarnessTypeOK, lockVars, laneVars,
           faultVars, CallHost
  <1>3. ClosedLanesRest'
    BY <1>p, <1>c, <1>k
       DEF HInv, ClosedLanesRest, CallInv, LockInv, Driving, HarnessTypeOK,
           lockVars, laneVars, faultVars, CallHost
  <1>4. FaultSealsLanes'
    BY <1>p, <1>c, <1>k
       DEF HInv, FaultSealsLanes, CallInv, HarnessTypeOK, lockVars, laneVars,
           faultVars, CallHost
  <1>5. \A n \in Mutations : CallInv(n)'
    BY <1>p, <1>c, <1>k
       DEF HInv, HarnessTypeOK, CallInv, Driving, Active, LockInv, lockVars,
           laneVars, faultVars, CallHost
  <1>6. LockInv'
    <2>1. \A i \in DOMAIN lockWaiters : lockWaiters[i] \in Mutations \union {CloseCall}
      BY DEF HInv, HarnessTypeOK
    <2>2. kind[m] = "none"
      BY <1>k DEF HInv, CallInv
    <2> QED
      BY <1>k, <2>1, <2>2 DEF HInv, LockInv, lockVars, CallHost
  <1> QED
    BY <1>1, <1>2, <1>3, <1>4, <1>5, <1>6 DEF HInv

LEMMA RetiredLaneStep ==
    ASSUME IInv, HInv, TypeOK', NEW m \in Mutations, EnterRetired(m), TakeLock(m), Opened,
           lockHolder' = <<m>>, UNCHANGED kind
    PROVE  HInv'
  <1>v. UNCHANGED pc
    BY DEF vars, EnterRetired
  <1>c. /\ call'[m] = "faulting" /\ \A n \in Mutations \ {m} : call'[n] = call[n]
        /\ call' \in [Mutations -> {"none", "queued", "inside", "faulting", "done"}]
    BY DEF HInv, HarnessTypeOK, To, EnterRetired, StrikeFault
  <1>w. /\ lockHolder = <<>> /\ lockWaiters' \in Seq(Mutations \union {CloseCall})
        /\ \A i \in DOMAIN lockWaiters' : \E j \in DOMAIN lockWaiters :
                lockWaiters'[i] = lockWaiters[j]
        /\ m # CloseCall /\ kind[m] = "lane"
        /\ lockWaiters[1] = m /\ 1 \in DOMAIN lockWaiters
    BY LockTaken, SessionLineAssumption
       DEF HInv, HarnessTypeOK, LockInv, CloseCall, EnterRetired
  <1>1. HarnessTypeOK'
    BY <1>v, <1>c, <1>w
       DEF HInv, HarnessTypeOK, lockVars, EnterRetired, StrikeFault, Opened,
           FaultSeals
  <1>2. LanesAreStored'
    BY <1>v, <1>c, <1>w
       DEF HInv, LanesAreStored, CallInv, HarnessTypeOK, lockVars,
           EnterRetired, StrikeFault, Opened, FaultSeals
  <1>3. ClosedLanesRest'
    BY <1>v, <1>c, <1>w
       DEF HInv, ClosedLanesRest, CallInv, LockInv, Driving, HarnessTypeOK,
           lockVars, EnterRetired, StrikeFault, Opened, FaultSeals
  <1>4. FaultSealsLanes'
    BY <1>v, <1>c, <1>w
       DEF HInv, FaultSealsLanes, CallInv, HarnessTypeOK, lockVars,
           EnterRetired, StrikeFault, Opened, FaultSeals
  <1>5. \A n \in Mutations : CallInv(n)'
    BY <1>v, <1>c, <1>w
       DEF HInv, HarnessTypeOK, CallInv, Driving, Active, LockInv, lockVars,
           EnterRetired, StrikeFault, Opened, FaultSeals
  <1>6. LockInv'
    BY <1>v, <1>c, <1>w
       DEF HInv, HarnessTypeOK, LockInv, CloseCall, lockVars, EnterRetired,
           StrikeFault, Opened, FaultSeals
  <1> QED
    BY <1>1, <1>2, <1>3, <1>4, <1>5, <1>6 DEF HInv

LEMMA RetiredDriveStep ==
    ASSUME IInv, HInv, TypeOK', NEW m \in Mutations, EnterRetired(m), call[m] = "none",
           lane[m] \in lanes \ closedLanes,
           kind' = [kind EXCEPT ![m] = "drive"], UNCHANGED lockVars
    PROVE  HInv'
  <1>v. UNCHANGED pc
    BY DEF vars, EnterRetired
  <1>c. /\ call'[m] = "faulting" /\ \A n \in Mutations \ {m} : call'[n] = call[n]
        /\ call' \in [Mutations -> {"none", "queued", "inside", "faulting", "done"}]
    BY DEF HInv, HarnessTypeOK, To, EnterRetired, StrikeFault
  <1>k. /\ call[m] = "none" /\ kind'[m] = "drive"
        /\ \A n \in Mutations \ {m} : kind'[n] = kind[n]
        /\ kind' \in [Mutations -> {"none", "lane", "drive", "host"}]
    BY DEF HInv, HarnessTypeOK, EnterRetired
  <1>1. HarnessTypeOK'
    BY <1>v, <1>c, <1>k
       DEF HInv, HarnessTypeOK, lockVars, EnterRetired, StrikeFault,
           FaultSeals
  <1>2. LanesAreStored'
    BY <1>v, <1>c, <1>k
       DEF HInv, LanesAreStored, CallInv, HarnessTypeOK, lockVars,
           EnterRetired, StrikeFault, FaultSeals
  <1>3. ClosedLanesRest'
    BY <1>v, <1>c, <1>k
       DEF HInv, ClosedLanesRest, CallInv, LockInv, Driving, HarnessTypeOK,
           lockVars, EnterRetired, StrikeFault, FaultSeals
  <1>4. FaultSealsLanes'
    BY <1>v, <1>c, <1>k
       DEF HInv, FaultSealsLanes, CallInv, HarnessTypeOK, lockVars,
           EnterRetired, StrikeFault, FaultSeals
  <1>5. \A n \in Mutations : CallInv(n)'
    BY <1>v, <1>c, <1>k
       DEF HInv, HarnessTypeOK, CallInv, Driving, Active, LockInv, lockVars,
           EnterRetired, StrikeFault, FaultSeals
  <1>6. LockInv'
    <2>1. \A i \in DOMAIN lockWaiters : lockWaiters[i] \in Mutations \union {CloseCall}
      BY DEF HInv, HarnessTypeOK
    <2>2. kind[m] = "none"
      BY <1>k DEF HInv, CallInv
    <2> QED
      BY <1>k, <2>1, <2>2 DEF HInv, LockInv, lockVars, EnterRetired
  <1> QED
    BY <1>1, <1>2, <1>3, <1>4, <1>5, <1>6 DEF HInv

LEMMA EnterRetiredStep ==
    ASSUME IInv, HInv, TypeOK', NEW m \in Mutations, EnterRetired(m)
    PROVE  HInv'
  BY RetiredLaneStep, RetiredDriveStep DEF EnterRetired

LEMMA GrantedStep ==
    ASSUME IInv, HInv, TypeOK', NEW m \in Mutations, Granted(m)
    PROVE  HInv'
  <1>p. /\ pc[m] = "waiting" /\ pc'[m] = "running"
        /\ \A n \in Mutations \ {m} : pc'[n] = pc[n]
    BY TakeLineLemma, SessionLineAssumption
       DEF IInv, TypeOK, Granted, Grant, At
  <1>o. /\ outcome'[m] = IF kind[m] = "lane" /\ lane[m] \in laneStored
                         THEN "found" ELSE "none"
        /\ \A n \in Mutations \ {m} : outcome'[n] = outcome[n]
        /\ outcome' \in [Mutations -> {"none", "found", "committed", "failed"}]
    BY DEF HInv, HarnessTypeOK, Granted
  <1>1. HarnessTypeOK'
    BY <1>p, <1>o
       DEF HInv, HarnessTypeOK, lockVars, laneVars, faultVars, Granted
  <1>2. LanesAreStored'
    BY <1>p, <1>o
       DEF HInv, LanesAreStored, CallInv, HarnessTypeOK, lockVars, laneVars,
           faultVars, Granted
  <1>3. ClosedLanesRest'
    BY <1>p, <1>o
       DEF HInv, ClosedLanesRest, CallInv, LockInv, Driving, HarnessTypeOK,
           lockVars, laneVars, faultVars, Granted
  <1>4. FaultSealsLanes'
    BY <1>p, <1>o
       DEF HInv, FaultSealsLanes, CallInv, HarnessTypeOK, lockVars, laneVars,
           faultVars, Granted
  <1>5. \A n \in Mutations : CallInv(n)'
    BY <1>p, <1>o
       DEF HInv, HarnessTypeOK, CallInv, Driving, Active, LockInv, lockVars,
           laneVars, faultVars, Granted
  <1>6. LockInv'
    BY <1>p, <1>o
       DEF HInv, HarnessTypeOK, LockInv, CloseCall, lockVars, laneVars,
           faultVars, Granted
  <1> QED
    BY <1>1, <1>2, <1>3, <1>4, <1>5, <1>6 DEF HInv

LEMMA CommitEndsStep ==
    ASSUME IInv, HInv, TypeOK', NEW m \in Mutations, CommitEnds(m)
    PROVE  HInv'
  <1>s. PICK succeeds \in BOOLEAN :
            /\ StorageSettles(m, succeeds)
            /\ outcome' = [outcome EXCEPT ![m] = IF succeeds THEN "committed" ELSE "failed"]
            /\ laneStored' = IF succeeds /\ kind[m] = "lane"
                             THEN laneStored \union {lane[m]} ELSE laneStored
            /\ UNCHANGED <<call, kind, lane, cancelled, lockVars, lanes, sealed,
                           closedLanes, faultVars, closing>>
    BY DEF CommitEnds
  <1>p. pc' = pc /\ pc[m] # "new"
    BY <1>s DEF StorageSettles, IInv, MutationInv
  <1>o. /\ outcome'[m] = IF succeeds THEN "committed" ELSE "failed"
        /\ \A n \in Mutations \ {m} : outcome'[n] = outcome[n]
        /\ outcome' \in [Mutations -> {"none", "found", "committed", "failed"}]
    BY <1>s DEF HInv, HarnessTypeOK
  <1>1. HarnessTypeOK'
    BY <1>s, <1>p, <1>o DEF HInv, HarnessTypeOK, lockVars, faultVars
  <1>2. LanesAreStored'
    BY <1>s, <1>p, <1>o
       DEF HInv, LanesAreStored, CallInv, HarnessTypeOK, lockVars, faultVars
  <1>3. ClosedLanesRest'
    BY <1>s, <1>p, <1>o
       DEF HInv, ClosedLanesRest, CallInv, LockInv, Driving, HarnessTypeOK,
           lockVars, faultVars
  <1>4. FaultSealsLanes'
    BY <1>s, <1>p, <1>o
       DEF HInv, FaultSealsLanes, CallInv, HarnessTypeOK, lockVars, faultVars
  <1>5. \A n \in Mutations : CallInv(n)'
    BY <1>s, <1>p, <1>o
       DEF HInv, HarnessTypeOK, CallInv, Driving, Active, LockInv, lockVars,
           faultVars
  <1>6. LockInv'
    BY <1>s, <1>p, <1>o
       DEF HInv, HarnessTypeOK, LockInv, CloseCall, lockVars, faultVars
  <1> QED
    BY <1>1, <1>2, <1>3, <1>4, <1>5, <1>6 DEF HInv

(* A call leaves, with the lane lock if it has it: without an effect on the *)
(* lanes, with one more, or because of a first fault.                       *)
LEMMA LeaveCallStep ==
    ASSUME IInv, HInv, TypeOK', NEW m \in Mutations, Leave(m), call[m] # "none",
           pc'[m] \in {"new", "gone"},
           \A n \in Mutations \ {m} : pc'[n] = pc[n],
           UNCHANGED <<kind, lane, outcome, laneStored, closedLanes, sealed,
                       faulter, racing, closing>>,
           cancelled' \subseteq Mutations,
           lockWaiters' \in Seq(Mutations \union {CloseCall}),
           \A i \in DOMAIN lockWaiters' : \E j \in DOMAIN lockWaiters :
                lockWaiters'[i] = lockWaiters[j],
           \/ UNCHANGED fault
           \/ fault = "emitting" /\ fault' = "told",
           fault = "emitting" /\ m \in faulter => fault' = "told",
           \/ UNCHANGED lanes
           \/ /\ kind[m] = "lane" /\ call[m] = "inside"
              /\ outcome[m] \in {"found", "committed"}
              /\ lanes' = lanes \union {lane[m]}
    PROVE  HInv'
  <1>c. /\ call'[m] = "done" /\ \A n \in Mutations \ {m} : call'[n] = call[n]
        /\ call' \in [Mutations -> {"none", "queued", "inside", "faulting", "done"}]
    BY DEF HInv, HarnessTypeOK, To, Leave
  <1>h. lockHolder' = IF lockHolder = <<m>> THEN <<>> ELSE lockHolder
    BY DEF Leave, Unlock
  <1>u. \A n \in Mutations : n # m => <<n>> # <<m>>
    OBVIOUS
  <1>1. HarnessTypeOK'
    BY <1>c, <1>h, <1>u DEF HInv, HarnessTypeOK, Leave
  <1>2. LanesAreStored'
    BY <1>c, <1>h, <1>u DEF HInv, LanesAreStored, CallInv, HarnessTypeOK, Leave
  <1>3. ClosedLanesRest'
    BY <1>c, <1>h, <1>u
       DEF HInv, ClosedLanesRest, CallInv, LockInv, Driving, HarnessTypeOK,
           Leave
  <1>4. FaultSealsLanes'
    BY <1>c, <1>h, <1>u
       DEF HInv, FaultSealsLanes, CallInv, HarnessTypeOK, Leave
  <1>5. \A n \in Mutations : CallInv(n)'
    BY <1>c, <1>h, <1>u
       DEF HInv, HarnessTypeOK, CallInv, Driving, Active, LockInv, Leave
  <1>6. LockInv'
    BY <1>c, <1>h, <1>u DEF HInv, HarnessTypeOK, LockInv, CloseCall, Leave
  <1> QED
    BY <1>1, <1>2, <1>3, <1>4, <1>5, <1>6 DEF HInv

LEMMA StrikeStep ==
    ASSUME IInv, HInv, TypeOK', NEW m \in Mutations, StrikeFault(m), fault = "none", call[m] = "inside",
           pc'[m] = "gone",
           \A n \in Mutations \ {m} : pc'[n] = pc[n],
           UNCHANGED <<kind, lane, outcome, cancelled, lockVars, laneStored, lanes,
                       closedLanes, closing>>
    PROVE  HInv'
  <1>c. /\ call'[m] = "faulting" /\ \A n \in Mutations \ {m} : call'[n] = call[n]
        /\ call' \in [Mutations -> {"none", "queued", "inside", "faulting", "done"}]
    BY DEF HInv, HarnessTypeOK, To, StrikeFault
  <1>1. HarnessTypeOK'
    BY <1>c DEF HInv, HarnessTypeOK, lockVars, StrikeFault, FaultSeals
  <1>2. LanesAreStored'
    BY <1>c
       DEF HInv, LanesAreStored, CallInv, HarnessTypeOK, lockVars,
           StrikeFault, FaultSeals
  <1>3. ClosedLanesRest'
    BY <1>c
       DEF HInv, ClosedLanesRest, CallInv, LockInv, Driving, HarnessTypeOK,
           lockVars, StrikeFault, FaultSeals
  <1>4. FaultSealsLanes'
    BY <1>c
       DEF HInv, FaultSealsLanes, CallInv, HarnessTypeOK, lockVars,
           StrikeFault, FaultSeals
  <1>5. \A n \in Mutations : CallInv(n)'
    BY <1>c
       DEF HInv, HarnessTypeOK, CallInv, Driving, Active, LockInv, lockVars,
           StrikeFault, FaultSeals
  <1>6. LockInv'
    BY <1>c
       DEF HInv, HarnessTypeOK, LockInv, CloseCall, lockVars, StrikeFault,
           FaultSeals
  <1> QED
    BY <1>1, <1>2, <1>3, <1>4, <1>5, <1>6 DEF HInv

LEMMA CallReturnsStep ==
    ASSUME IInv, HInv, TypeOK', NEW m \in Mutations, CallReturns(m)
    PROVE  HInv'
  <1>p. /\ call[m] = "inside" /\ pc'[m] = "gone"
        /\ \A n \in Mutations \ {m} : pc'[n] = pc[n]
    BY DEF IInv, TypeOK, HInv, CallInv, Active, CallReturns, Return, At
  <1>1. /\ UNCHANGED <<kind, lane, outcome, cancelled, lockWaiters, laneStored,
                       closedLanes, closing>>
        /\ cancelled' \subseteq Mutations
        /\ lockWaiters' \in Seq(Mutations \union {CloseCall})
        /\ ~(fault = "emitting" /\ m \in faulter)
    BY <1>p DEF CallReturns, HInv, HarnessTypeOK, CallInv
  <1>2. CASE fault = "none" /\ StrikeFault(m) /\ UNCHANGED <<lockHolder, lanes>>
    BY <1>p, <1>1, <1>2, StrikeStep DEF lockVars
  <1>3. CASE /\ Leave(m) /\ UNCHANGED <<sealed, faultVars>>
             /\ \/ UNCHANGED lanes
                \/ /\ kind[m] = "lane"
                   /\ outcome[m] \in {"found", "committed"}
                   /\ lanes' = lanes \union {lane[m]}
    BY <1>p, <1>1, <1>3, LeaveCallStep DEF faultVars
  <1> QED
    BY <1>1, <1>2, <1>3 DEF CallReturns, RaiseFault, Acquired, faultVars

LEMMA CallRefusedStep ==
    ASSUME IInv, HInv, TypeOK', NEW m \in Mutations, CallRefused(m)
    PROVE  HInv'
  <1>t. pc[m] = "waiting"
    BY TakeLineLemma, SessionLineAssumption DEF CallRefused, Refuse
  <1>p. /\ call[m] = "inside" /\ pc'[m] = "gone"
        /\ \A n \in Mutations \ {m} : pc'[n] = pc[n]
    BY <1>t DEF IInv, TypeOK, HInv, CallInv, Active, CallRefused, Refuse, At
  <1>1. /\ UNCHANGED <<kind, lane, outcome, cancelled, lockWaiters, laneStored, lanes,
                       closedLanes, closing>>
        /\ cancelled' \subseteq Mutations
        /\ lockWaiters' \in Seq(Mutations \union {CloseCall})
        /\ ~(fault = "emitting" /\ m \in faulter)
    BY <1>p DEF CallRefused, HInv, HarnessTypeOK, CallInv
  <1>2. CASE fault = "none" /\ StrikeFault(m) /\ UNCHANGED lockHolder
    BY <1>p, <1>1, <1>2, StrikeStep DEF lockVars
  <1>3. CASE Leave(m) /\ UNCHANGED <<sealed, faultVars>>
    BY <1>p, <1>1, <1>3, LeaveCallStep DEF faultVars
  <1> QED
    BY <1>1, <1>2, <1>3 DEF CallRefused, RaiseFault, faultVars

LEMMA FaultToldStep ==
    ASSUME IInv, HInv, TypeOK', NEW m \in Mutations, FaultTold(m)
    PROVE  HInv'
  <1>1. /\ call[m] = "faulting" /\ ~Active(m) /\ pc' = pc
        /\ pc[m] \in {"new", "gone"}
    BY DEF FaultTold, HInv, CallInv, Active, vars, IInv, TypeOK
  <1>2. /\ cancelled' \subseteq Mutations
        /\ lockWaiters' = lockWaiters
        /\ lockWaiters' \in Seq(Mutations \union {CloseCall})
    BY DEF FaultTold, HInv, HarnessTypeOK
  <1> QED
    BY <1>1, <1>2, LeaveCallStep DEF FaultTold, laneVars

LEMMA CancelledStep ==
    ASSUME IInv, HInv, TypeOK', NEW m \in Mutations, cancelled' = cancelled \union {m},
           UNCHANGED <<call, kind, lane, outcome, lockHolder, lockWaiters, laneVars,
                       faultVars, closing>>,
           \A n \in Mutations :
                /\ Active(n)' => Active(n)
                /\ pc[n] = "new" <=> pc'[n] = "new"
    PROVE  HInv'
  <1>1. HarnessTypeOK'
    BY DEF HInv, HarnessTypeOK, laneVars, faultVars
  <1>2. LanesAreStored'
    BY DEF HInv, LanesAreStored, CallInv, HarnessTypeOK, laneVars, faultVars
  <1>3. ClosedLanesRest'
    BY DEF HInv, ClosedLanesRest, CallInv, LockInv, Driving, HarnessTypeOK,
           laneVars, faultVars
  <1>4. FaultSealsLanes'
    BY DEF HInv, FaultSealsLanes, CallInv, HarnessTypeOK, laneVars, faultVars
  <1>5. \A n \in Mutations : CallInv(n)'
    BY DEF HInv, HarnessTypeOK, CallInv, Driving, Active, LockInv, laneVars,
           faultVars
  <1>6. LockInv'
    BY DEF HInv, HarnessTypeOK, LockInv, CloseCall, laneVars, faultVars
  <1> QED
    BY <1>1, <1>2, <1>3, <1>4, <1>5, <1>6 DEF HInv

LEMMA CancelInsideStep ==
    ASSUME IInv, HInv, TypeOK', NEW m \in Mutations, CancelInside(m)
    PROVE  HInv'
  <1>1. CASE /\ CancelCallback(m) /\ cancelled' = cancelled \union {m}
             /\ UNCHANGED <<call, lockHolder>>
    <2>1. \A n \in Mutations : /\ Active(n)' => Active(n)
                               /\ pc[n] = "new" <=> pc'[n] = "new"
      BY <1>1 DEF CancelCallback, End, At, Active, IInv, TypeOK
    <2> QED
      BY <1>1, <2>1, CancelledStep DEF CancelInside
  <1>2. CASE /\ CancelWaiting(m) \/ CancelEnding(m)
             /\ Leave(m) /\ UNCHANGED cancelled
    <2>1. pc'[m] = "gone" /\ \A n \in Mutations \ {m} : pc'[n] = pc[n]
      BY <1>2 DEF CancelWaiting, CancelEnding, At, IInv, TypeOK
    <2>2. /\ call[m] = "inside" /\ ~(fault = "emitting" /\ m \in faulter)
          /\ UNCHANGED <<kind, lane, outcome, lockWaiters, laneVars, faultVars, closing>>
          /\ cancelled' \subseteq Mutations
          /\ lockWaiters' \in Seq(Mutations \union {CloseCall})
      BY <1>2 DEF CancelInside, HInv, CallInv, HarnessTypeOK
    <2> QED
      BY <1>2, <2>1, <2>2, LeaveCallStep DEF laneVars, faultVars
  <1> QED
    BY <1>1, <1>2 DEF CancelInside

LEMMA CancelQueuedStep ==
    ASSUME IInv, HInv, TypeOK', NEW m \in Mutations, CancelQueued(m)
    PROVE  HInv'
  <1>1. PICK k \in DOMAIN lockWaiters :
            lockWaiters[k] = m /\ lockWaiters' = RemoveAt(lockWaiters, k)
    BY DEF CancelQueued
  <1>2. lockWaiters \in Seq(Mutations \union {CloseCall})
    BY DEF HInv, HarnessTypeOK
  <1>3. /\ lockWaiters' \in Seq(Mutations \union {CloseCall})
        /\ \A i \in DOMAIN lockWaiters' : \E j \in DOMAIN lockWaiters :
                lockWaiters'[i] = lockWaiters[j]
    <2>1. k \in 1..Len(lockWaiters)
      BY <1>2
    <2>2. /\ RemoveAt(lockWaiters, k) \in Seq(Mutations \union {CloseCall})
          /\ Len(RemoveAt(lockWaiters, k)) = Len(lockWaiters) - 1
          /\ \A i \in 1..(Len(lockWaiters) - 1) :
                RemoveAt(lockWaiters, k)[i] = lockWaiters[IF i < k THEN i ELSE i + 1]
      BY <1>2, <2>1, RemoveAtFacts
    <2>3. DOMAIN lockWaiters' = 1..(Len(lockWaiters) - 1) /\ Len(lockWaiters) \in Nat
      BY <1>1, <1>2, <2>2
    <2>4. \A i \in 1..(Len(lockWaiters) - 1) :
            (IF i < k THEN i ELSE i + 1) \in DOMAIN lockWaiters
      BY <1>2, <2>1
    <2> QED
      BY <1>1, <2>2, <2>3, <2>4
  <1>v. UNCHANGED pc
    BY DEF vars, CancelQueued
  <1>c. /\ call'[m] = "done" /\ \A n \in Mutations \ {m} : call'[n] = call[n]
        /\ call' \in [Mutations -> {"none", "queued", "inside", "faulting", "done"}]
    BY DEF HInv, HarnessTypeOK, To, CancelQueued
  <1>q. call[m] = "queued" /\ ~Active(m)
    BY DEF CancelQueued, HInv, CallInv
  <1>4. HarnessTypeOK'
    BY <1>3, <1>v, <1>c, <1>q
       DEF HInv, HarnessTypeOK, laneVars, faultVars, CancelQueued
  <1>5. LanesAreStored'
    BY <1>3, <1>v, <1>c, <1>q
       DEF HInv, LanesAreStored, CallInv, HarnessTypeOK, laneVars, faultVars,
           CancelQueued
  <1>6. ClosedLanesRest'
    BY <1>3, <1>v, <1>c, <1>q
       DEF HInv, ClosedLanesRest, CallInv, LockInv, Driving, HarnessTypeOK,
           laneVars, faultVars, CancelQueued
  <1>7. FaultSealsLanes'
    BY <1>3, <1>v, <1>c, <1>q
       DEF HInv, FaultSealsLanes, CallInv, HarnessTypeOK, laneVars, faultVars,
           CancelQueued
  <1>8. \A n \in Mutations : CallInv(n)'
    BY <1>3, <1>v, <1>c, <1>q
       DEF HInv, HarnessTypeOK, CallInv, Driving, Active, LockInv, laneVars,
           faultVars, CancelQueued
  <1>9. LockInv'
    BY <1>3, <1>v, <1>c, <1>q
       DEF HInv, HarnessTypeOK, LockInv, CloseCall, laneVars, faultVars,
           CancelQueued
  <1> QED
    BY <1>4, <1>5, <1>6, <1>7, <1>8, <1>9 DEF HInv

LEMMA CancelDriveStep ==
    ASSUME IInv, HInv, TypeOK', NEW m \in Mutations, CancelDrive(m)
    PROVE  HInv'
  <1>1. CASE CancelInside(m)
    BY <1>1, CancelInsideStep
  <1>2. CASE ~CancelInside(m)
    <2>1. /\ call[m] = "faulting" /\ fault' = "told" /\ Leave(m)
          /\ UNCHANGED <<vars, kind, lane, outcome, cancelled, lockWaiters, laneVars,
                         faulter, racing, closing>>
      BY <1>2 DEF CancelDrive
    <2>2. pc' = pc /\ pc[m] \in {"new", "gone"}
      BY <2>1 DEF HInv, CallInv, Active, vars, IInv, TypeOK
    <2>3. fault # "none"
      BY <2>1 DEF HInv, CallInv
    <2>4. /\ cancelled' \subseteq Mutations
          /\ lockWaiters' \in Seq(Mutations \union {CloseCall})
      BY <2>1 DEF HInv, HarnessTypeOK
    <2>5. fault \in {"emitting", "told"}
      BY <2>3 DEF HInv, HarnessTypeOK
    <2> QED
      BY <2>1, <2>2, <2>4, <2>5, LeaveCallStep DEF laneVars
  <1> QED
    BY <1>1, <1>2

LEMMA CallCloseStep ==
    ASSUME IInv, HInv, TypeOK', CallClose
    PROVE  HInv'
  <1>v. UNCHANGED pc
    BY DEF vars, CallClose
  <1>w. /\ lockWaiters' \in Seq(Mutations \union {CloseCall})
        /\ \A i \in DOMAIN lockWaiters' :
                \/ i \in DOMAIN lockWaiters /\ lockWaiters'[i] = lockWaiters[i]
                \/ lockWaiters'[i] = CloseCall
    BY DEF HInv, HarnessTypeOK, CallClose
  <1>1. HarnessTypeOK'
    BY <1>v, <1>w
       DEF HInv, HarnessTypeOK, callVars, laneVars, faultVars, CallClose
  <1>2. LanesAreStored'
    BY <1>v, <1>w
       DEF HInv, LanesAreStored, CallInv, HarnessTypeOK, callVars, laneVars,
           faultVars, CallClose
  <1>3. ClosedLanesRest'
    BY <1>v, <1>w
       DEF HInv, ClosedLanesRest, CallInv, LockInv, Driving, HarnessTypeOK,
           callVars, laneVars, faultVars, CallClose
  <1>4. FaultSealsLanes'
    BY <1>v, <1>w
       DEF HInv, FaultSealsLanes, CallInv, HarnessTypeOK, callVars, laneVars,
           faultVars, CallClose
  <1>5. \A n \in Mutations : CallInv(n)'
    BY <1>v, <1>w
       DEF HInv, HarnessTypeOK, CallInv, Driving, Active, LockInv, callVars,
           laneVars, faultVars, CallClose
  <1>6. LockInv'
    BY <1>v, <1>w
       DEF HInv, HarnessTypeOK, LockInv, CloseCall, callVars, laneVars,
           faultVars, CallClose
  <1> QED
    BY <1>1, <1>2, <1>3, <1>4, <1>5, <1>6 DEF HInv

LEMMA EnterCloseStep ==
    ASSUME IInv, HInv, TypeOK', EnterClose
    PROVE  HInv'
  <1>v. UNCHANGED pc
    BY DEF vars, EnterClose
  <1>w. /\ lockHolder = <<>> /\ lockWaiters' \in Seq(Mutations \union {CloseCall})
        /\ \A i \in DOMAIN lockWaiters' : \E j \in DOMAIN lockWaiters :
                lockWaiters'[i] = lockWaiters[j]
    BY LockTaken DEF HInv, HarnessTypeOK, EnterClose, LockForClose
  <1>1. HarnessTypeOK'
    BY <1>v, <1>w
       DEF HInv, HarnessTypeOK, callVars, laneVars, faultVars, EnterClose
  <1>2. LanesAreStored'
    BY <1>v, <1>w
       DEF HInv, LanesAreStored, CallInv, HarnessTypeOK, callVars, laneVars,
           faultVars, EnterClose
  <1>3. ClosedLanesRest'
    BY <1>v, <1>w
       DEF HInv, ClosedLanesRest, CallInv, LockInv, Driving, HarnessTypeOK,
           callVars, laneVars, faultVars, EnterClose
  <1>4. FaultSealsLanes'
    BY <1>v, <1>w
       DEF HInv, FaultSealsLanes, CallInv, HarnessTypeOK, callVars, laneVars,
           faultVars, EnterClose
  <1>5. \A n \in Mutations : CallInv(n)'
    BY <1>v, <1>w
       DEF HInv, HarnessTypeOK, CallInv, Driving, Active, LockInv, callVars,
           laneVars, faultVars, EnterClose
  <1>6. LockInv'
    BY <1>v, <1>w
       DEF HInv, HarnessTypeOK, LockInv, CloseCall, callVars, laneVars,
           faultVars, EnterClose
  <1> QED
    BY <1>1, <1>2, <1>3, <1>4, <1>5, <1>6 DEF HInv

LEMMA CloseLaneStep ==
    ASSUME IInv, HInv, TypeOK', NEW l \in Names, CloseLane(l)
    PROVE  HInv'
  <1>v. UNCHANGED pc
    BY DEF vars, CloseLane
  <1>1. HarnessTypeOK'
    BY <1>v DEF HInv, HarnessTypeOK, callVars, lockVars, faultVars, CloseLane
  <1>2. LanesAreStored'
    BY <1>v
       DEF HInv, LanesAreStored, CallInv, HarnessTypeOK, callVars, lockVars,
           faultVars, CloseLane
  <1>3. ClosedLanesRest'
    BY <1>v
       DEF HInv, ClosedLanesRest, CallInv, LockInv, Driving, HarnessTypeOK,
           callVars, lockVars, faultVars, CloseLane
  <1>4. FaultSealsLanes'
    BY <1>v
       DEF HInv, FaultSealsLanes, CallInv, HarnessTypeOK, callVars, lockVars,
           faultVars, CloseLane
  <1>5. \A n \in Mutations : CallInv(n)'
    BY <1>v
       DEF HInv, HarnessTypeOK, CallInv, Driving, Active, LockInv, callVars,
           lockVars, faultVars, CloseLane
  <1>6. LockInv'
    BY <1>v
       DEF HInv, HarnessTypeOK, LockInv, CloseCall, callVars, lockVars,
           faultVars, CloseLane
  <1> QED
    BY <1>1, <1>2, <1>3, <1>4, <1>5, <1>6 DEF HInv

LEMMA CloseSessionStep ==
    ASSUME IInv, HInv, TypeOK', CloseSession
    PROVE  HInv'
  <1>v. UNCHANGED pc
    BY DEF CloseSession, Close
  <1>d. \A n \in Mutations : ~Driving(n)
    BY DEF CloseSession, LanesSettled, HInv, CallInv
  <1>1. HarnessTypeOK'
    BY <1>v, <1>d
       DEF HInv, HarnessTypeOK, callVars, lockVars, laneVars, faultVars,
           CloseSession
  <1>2. LanesAreStored'
    BY <1>v, <1>d
       DEF HInv, LanesAreStored, CallInv, HarnessTypeOK, callVars, lockVars,
           laneVars, faultVars, CloseSession
  <1>3. ClosedLanesRest'
    BY <1>v, <1>d
       DEF HInv, ClosedLanesRest, CallInv, LockInv, Driving, HarnessTypeOK,
           callVars, lockVars, laneVars, faultVars, CloseSession
  <1>4. FaultSealsLanes'
    BY <1>v, <1>d
       DEF HInv, FaultSealsLanes, CallInv, HarnessTypeOK, callVars, lockVars,
           laneVars, faultVars, CloseSession
  <1>5. \A n \in Mutations : CallInv(n)'
    BY <1>v, <1>d
       DEF HInv, HarnessTypeOK, CallInv, Driving, Active, LockInv, callVars,
           lockVars, laneVars, faultVars, CloseSession
  <1>6. LockInv'
    BY <1>v, <1>d
       DEF HInv, HarnessTypeOK, LockInv, CloseCall, callVars, lockVars,
           laneVars, faultVars, CloseSession
  <1> QED
    BY <1>1, <1>2, <1>3, <1>4, <1>5, <1>6 DEF HInv

(* The line's part of every step of the harness is one of the session's.   *)
LEMMA HarnessStepsLine ==
    ASSUME [HarnessNext]_allVars
    PROVE  [Next]_vars
  <1>1. CASE UNCHANGED allVars
    BY <1>1 DEF allVars
  <1>2. ASSUME NEW m \in Mutations, CallSteps(m)
        PROVE  [Next]_vars
    BY <1>2
       DEF CallSteps, LaneAtOnce, EnterLane, EnterRetired, Granted,
           CommitEnds, CallbackEnds, LineReleased, CallReturns, CallRefused,
           FaultTold, CancelDrive, CancelInside, Next, Step
  <1>3. ASSUME NEW m \in Mutations,
               \/ CallLane(m) \/ CallDrive(m) \/ CallHost(m) \/ EnterRetired(m)
               \/ CommitBegins(m) \/ CancelQueued(m) \/ CancelInside(m)
        PROVE  [Next]_vars
    BY <1>3
       DEF CallLane, CallDrive, CallHost, EnterRetired, CommitBegins,
           CancelQueued, CancelInside, Next
  <1>4. ASSUME \/ CallClose \/ EnterClose \/ CloseSession \/ SessionSteps
               \/ \E n \in Names : CloseLane(n)
        PROVE  [Next]_vars
    BY <1>4
       DEF CallClose, EnterClose, CloseSession, SessionSteps, CloseLane, Next
  <1> QED
    BY <1>1, <1>2, <1>3, <1>4 DEF HarnessNext

(* The moves of a mutation that are none of the calls' business.           *)
LEMMA SessionStepsMove ==
    ASSUME IInv,
           \/ Drain \/ RepoClose \/ Retire
           \/ \E m \in Mutations : Commit(m) \/ Finish(m) \/ Release(m)
    PROVE  \A n \in Mutations :
                /\ Active(n)' => Active(n)
                /\ pc[n] = "new" => pc'[n] = "new"
  <1>1. CASE Drain \/ RepoClose \/ Retire
    BY <1>1 DEF Drain, RepoClose, Retire, Active
  <1>2. ASSUME NEW m \in Mutations, Commit(m) \/ Finish(m) \/ Release(m)
        PROVE  /\ pc' = pc \/ (Active(m) /\ pc[m] # "new")
               /\ \A n \in Mutations \ {m} : pc'[n] = pc[n]
    BY <1>2 DEF Commit, Finish, Release, End, At, Active, IInv, TypeOK
  <1> QED
    BY <1>1, <1>2 DEF Active

LEMMA HarnessInitInv ==
    ASSUME HarnessInit
    PROVE  HInv
  <1>1. TypeOK
    BY InitInv DEF HarnessInit, IInv
  <1>2. HarnessTypeOK
    BY <1>1, HarnessLanesAssumption DEF HarnessInit, HarnessTypeOK
  <1>3. \A m \in Mutations : CallInv(m)
    BY DEF HarnessInit, Init, CallInv, Active, Driving
  <1> QED
    BY <1>2, <1>3
       DEF HInv, HarnessInit, LanesAreStored, ClosedLanesRest,
           FaultSealsLanes, LockInv

LEMMA HarnessInvStep ==
    ASSUME IInv, HInv, TypeOK', [HarnessNext]_allVars
    PROVE  HInv'
  <1>1. CASE UNCHANGED allVars
    BY <1>1, SessionStep DEF allVars, vars, Active
  <1>2. ASSUME NEW m \in Mutations, CommitBegins(m) \/ CallbackEnds(m) \/ LineReleased(m)
        PROVE  HInv'
    BY <1>2, SessionStep, SessionStepsMove
       DEF CommitBegins, CallbackEnds, LineReleased
  <1>3. CASE SessionSteps
    BY <1>3, SessionStep, SessionStepsMove DEF SessionSteps
  <1>4. ASSUME NEW m \in Mutations, CallSteps(m)
        PROVE  HInv'
    BY <1>2, <1>4, LaneAtOnceStep, EnterLaneStep, EnterRetiredStep,
       GrantedStep,
       CommitEndsStep, CallReturnsStep, CallRefusedStep, FaultToldStep,
       CancelDriveStep DEF CallSteps
  <1>5. ASSUME NEW m \in Mutations,
               \/ CallLane(m) \/ CallDrive(m) \/ CallHost(m) \/ EnterRetired(m)
               \/ CancelQueued(m) \/ CancelInside(m)
        PROVE  HInv'
    BY <1>5, CallLaneStep, CallDriveStep, CallHostStep, EnterRetiredStep,
       CancelQueuedStep, CancelInsideStep
  <1>6. CASE \/ CallClose \/ EnterClose \/ CloseSession
             \/ \E n \in Names : CloseLane(n)
    BY <1>6, CallCloseStep, EnterCloseStep, CloseSessionStep, CloseLaneStep
  <1> QED
    BY <1>1, <1>2, <1>3, <1>4, <1>5, <1>6 DEF HarnessNext

(* A harness drives its session line only as the session allows: what is    *)
(* proved of the line holds for every harness on it.                        *)
THEOREM HarnessUsesLine == HarnessSpec => Spec
  <1>1. HarnessInit => Init
    BY DEF HarnessInit
  <1>2. [HarnessNext]_allVars => [Next]_vars
    BY HarnessStepsLine
  <1> QED
    BY <1>1, <1>2, PTL DEF HarnessSpec, Spec

(* No commit made through the harness overwrites one it did not see.        *)
THEOREM HarnessKeepsUpdates == HarnessSpec => []NoLostUpdate
  BY HarnessUsesLine, UpdatesKept, PTL

(* The session under the harness closes quietly.                            *)
THEOREM HarnessClosesQuietly == HarnessSpec => ClosesQuietly
  BY HarnessUsesLine, LineClosesQuietly, PTL

(* A lane that callers can hold is stored (Harness._lane), is closed for     *)
(* good with the harness (Harness.close), and knows of a fault unless it     *)
(* was being acquired when the fault struck (Harness._fault); and no commit  *)
(* made through one is lost.                                                 *)
THEOREM LanesStayAccounted == HarnessSpec => []LanesAccounted
  <1>1. HarnessInit => HInv
    BY HarnessInitInv
  <1>2. IInv /\ IInv' /\ HInv /\ [HarnessNext]_allVars => HInv'
    BY HarnessInvStep DEF IInv
  <1>3. HarnessSpec => []IInv
    BY HarnessUsesLine, InvAlways, PTL
  <1>4. HInv /\ NoLostUpdate => LanesAccounted
    BY DEF HInv, LanesAccounted
  <1> QED
    BY <1>1, <1>2, <1>3, <1>4, HarnessKeepsUpdates, PTL DEF HarnessSpec

=============================================================================

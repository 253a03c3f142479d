---------------------------- MODULE CheckQueueProofs ----------------------------
(***************************************************************************)
(* Proofs about CheckQueue, for any number of workers and of checks and    *)
(* any batch size.                                                         *)
(***************************************************************************)
EXTENDS CheckQueue, FiniteSetTheorems, TLAPS

\* Threads that hold a batch or are about to take one, and threads that sleep on a
\* condition variable.
Holding == {t \in Thread : pc[t] \in {"working", "done"}}
Busy == InSection \cup Holding
Asleep == {t \in Thread : pc[t] \in {"waiting", "woken"}}

\* Batches are parts of the work of this session that nobody else has.
BatchInv ==
    /\ \A t \in Thread : vChecks[t] # {} <=> t \in Holding
    /\ \A t \in Thread : vChecks[t] \cap queue = {}
    /\ \A s, t \in Thread : s # t => vChecks[s] \cap vChecks[t] = {}
    /\ Outstanding \subseteq added
    /\ ~open => Outstanding = {} /\ fAllOk = TRUE
    /\ pc[Master] # "out" => open
    /\ \A s, t \in InSection : s = t

\* The counters count what they stand for.
CountInv ==
    /\ nTodo = Cardinality(Outstanding)
    /\ nTotal - nIdle = Cardinality(Busy)
    /\ nIdle >= Cardinality(Asleep)

\* The shared and the local results tell what the completed checks yielded.
VerdictInv ==
    /\ open /\ fAllOk => added \ Outstanding \subseteq Good
    /\ ~fAllOk => ~(added \subseteq Good)
    /\ \A t \in Holding : ~fOk[t] => ~(added \subseteq Good)
    /\ \A t \in Thread : pc[t] = "done" /\ fOk[t] => vChecks[t] \subseteq Good

IInv == TypeOK /\ BatchInv /\ CountInv /\ VerdictInv

--------------------------------------------------------------------------------

\* Sets of threads and of checks are finite.
LEMMA Finite ==
  /\ \A S \in SUBSET Thread : IsFiniteSet(S) /\ Cardinality(S) \in Nat
  /\ \A S \in SUBSET Check : IsFiniteSet(S) /\ Cardinality(S) \in Nat
<1>1. IsFiniteSet(Thread)
  BY ThreadAssumption, FS_AddElement DEF Thread
<1> QED
  BY <1>1, CheckAssumption, FS_Subset, FS_CardinalityType

\* Cardinalities of disjoint sets add up.
LEMMA DisjointUnion ==
  ASSUME NEW S, NEW T, IsFiniteSet(S), IsFiniteSet(T), S \cap T = {}
  PROVE  Cardinality(S \cup T) = Cardinality(S) + Cardinality(T)
<1>1. Cardinality(S \cup T) = Cardinality(S) + Cardinality(T) - Cardinality(S \cap T)
  BY FS_Union
<1>2. Cardinality(S \cap T) = 0
  BY FS_EmptySet
<1>3. Cardinality(S) \in Nat /\ Cardinality(T) \in Nat
  BY FS_CardinalityType
<1> QED
  BY <1>1, <1>2, <1>3

\* What is outstanding once a thread has cleaned up after its last batch.
Settled(t) == IF pc[t] = "done" THEN Outstanding \ vChecks[t] ELSE Outstanding

\* The number of checks that a clean-up leaves.
LEMMA TodoSettled ==
  ASSUME IInv, NEW t \in Thread
  PROVE  TodoNow(t) = Cardinality(Settled(t))
<1> USE DEF IInv, TypeOK
<1>1. CASE pc[t] # "done"
  BY <1>1 DEF CountInv, TodoNow, Settled
<1>2. CASE pc[t] = "done"
  <2> DEFINE R == Outstanding \ vChecks[t]
  <2>1. Outstanding \subseteq Check /\ vChecks[t] \subseteq Outstanding
    BY DEF Outstanding
  <2>2. R \cup vChecks[t] = Outstanding /\ R \cap vChecks[t] = {}
    BY <2>1
  <2>3. IsFiniteSet(R) /\ IsFiniteSet(vChecks[t]) /\ Cardinality(R) \in Nat
        /\ Cardinality(vChecks[t]) \in Nat
    BY <2>1, Finite
  <2> HIDE DEF R
  <2>4. Cardinality(Outstanding) = Cardinality(R) + Cardinality(vChecks[t])
    BY <2>2, <2>3, DisjointUnion
  <2> QED
    BY <1>2, <2>3, <2>4 DEF CountInv, TodoNow, Settled, R
<1> QED
  BY <1>1, <1>2

\* The shared result, once a thread has cleaned up, covers its batch.
LEMMA VerdictSettled ==
  ASSUME IInv, NEW t \in Thread
  PROVE  /\ AllOkNow(t) \in BOOLEAN
         /\ open /\ AllOkNow(t) => added \ Settled(t) \subseteq Good
         /\ ~AllOkNow(t) => ~(added \subseteq Good)
  BY DEF IInv, TypeOK, BatchInv, VerdictInv, AllOkNow, Settled, Holding

\* A batch is never empty.
LEMMA BatchSize ==
  ASSUME NEW batch \in SUBSET queue, Cardinality(batch) = nNow
  PROVE  batch # {}
<1>1. nNow # 0
  <2> DEFINE a == AtMost(nBatchSize, Cardinality(queue) \div (nTotal + nIdle + 1))
  <2>1. nNow = AtLeast(1, a)
    BY DEF nNow
  <2> HIDE DEF a
  <2> QED
    BY <2>1 DEF AtLeast
<1> QED
  BY <1>1, FS_EmptySet

--------------------------------------------------------------------------------

\* Where a thread can be.
Places == {"out", "first", "section", "waiting", "woken", "working", "done"}

\* A thread gets the mutex and cleans up.
LEMMA EnterStep ==
  ASSUME IInv, NEW t \in Thread, Enter(t)
  PROVE  IInv'
<1> USE DEF IInv
<1>p. /\ pc' \in [Thread -> Places] /\ pc'[t] = "section"
      /\ pc[t] \in {"first", "woken", "done"}
      /\ \A s \in Thread \ {t} : \/ pc'[s] = pc[s]
                                 \/ s = Master /\ pc[s] = "waiting" /\ pc'[s] = "woken"
  BY DEF Enter, AtMutex, NotifyMaster, TypeOK, Thread, Places
<1>q. /\ InSection = {} /\ vChecks' = [vChecks EXCEPT ![t] = {}]
      /\ fAllOk' = AllOkNow(t) /\ nTodo' = TodoNow(t)
      /\ nTotal' = TotalNow(t) /\ nIdle' = IdleNow(t)
      /\ UNCHANGED <<queue, fOk, interrupted, open, added, verdict>>
  BY DEF Enter
<1>sets. /\ InSection' = {t} /\ Holding' = Holding \ {t}
         /\ Busy' = (Busy \ {t}) \cup {t} /\ Asleep' = Asleep \ {t}
  BY <1>p, <1>q DEF InSection, Holding, Busy, Asleep
<1>out. Outstanding' = Settled(t)
  BY <1>p, <1>q DEF TypeOK, BatchInv, Outstanding, Settled, Holding
<1>1. TypeOK'
  <2>1. AllOkNow(t) \in BOOLEAN
    BY VerdictSettled
  <2>2. TodoNow(t) \in Int /\ TotalNow(t) \in Int /\ IdleNow(t) \in Int
    <3>1. Cardinality(vChecks[t]) \in Nat
      BY Finite DEF TypeOK
    <3> QED
      BY <3>1 DEF TypeOK, TodoNow, TotalNow, IdleNow
  <2> QED
    BY <1>p, <1>q, <2>1, <2>2 DEF TypeOK, Places
<1>2. BatchInv'
  <2>1. /\ \A s \in Thread \ {t} : vChecks'[s] = vChecks[s]
        /\ vChecks'[t] = {}
    BY <1>q DEF TypeOK
  <2>2. Settled(t) \subseteq Outstanding
    BY DEF Settled
  <2>3. ~open => Outstanding' = {} /\ fAllOk' = TRUE
    <3>1. ASSUME ~open PROVE  Outstanding = {} /\ pc[t] # "done" /\ fAllOk = TRUE
      BY <3>1 DEF BatchInv, Outstanding, Holding, TypeOK
    <3> QED
      BY <3>1, <1>out, <1>q, <2>2 DEF AllOkNow
  <2>4. pc'[Master] # "out" => open'
    BY <1>p, <1>q, Master \in Thread DEF BatchInv, Thread
  <2> QED
    BY <1>out, <1>q, <1>sets, <2>1, <2>2, <2>3, <2>4 DEF BatchInv
<1>3. CountInv'
  <2>1. nTodo' = Cardinality(Outstanding')
    BY <1>out, <1>q, TodoSettled
  <2>2. Busy \subseteq Thread /\ Asleep \subseteq Thread
    BY DEF Busy, InSection, Holding, Asleep
  <2>3. t \in Busy <=> pc[t] = "done"
    BY <1>p, <1>q DEF Busy, Holding
  <2>4. t \in Asleep <=> pc[t] = "woken"
    BY <1>p DEF Asleep
  <2>5. /\ Busy' = Busy \cup {t}
        /\ Cardinality(Busy \cup {t}) = IF t \in Busy THEN Cardinality(Busy) ELSE Cardinality(Busy) + 1
        /\ Cardinality(Busy) \in Nat
    BY <1>sets, <2>2, Finite, FS_AddElement
  <2>6. /\ Cardinality(Asleep \ {t}) = IF t \in Asleep THEN Cardinality(Asleep) - 1 ELSE Cardinality(Asleep)
        /\ Cardinality(Asleep) \in Nat
    BY <2>2, Finite, FS_RemoveElement
  <2>7. nTotal' - nIdle' = Cardinality(Busy')
    BY <1>p, <1>q, <2>3, <2>5 DEF CountInv, TotalNow, IdleNow, TypeOK
  <2>8. nIdle' >= Cardinality(Asleep')
    BY <1>p, <1>q, <1>sets, <2>4, <2>6 DEF CountInv, IdleNow, TypeOK
  <2> QED
    BY <2>1, <2>7, <2>8 DEF CountInv
<1>4. VerdictInv'
  <2>1. Settled(t) \subseteq Outstanding
    BY DEF Settled
  <2>2. \A s \in Thread \ {t} : vChecks'[s] = vChecks[s]
    BY <1>q DEF TypeOK
  <2>3. t \notin Holding'
    BY <1>sets
  <2> QED
    BY <1>p, <1>q, <1>out, <1>sets, <2>1, <2>2, <2>3, VerdictSettled
       DEF VerdictInv, TypeOK
<1> QED
  BY <1>1, <1>2, <1>3, <1>4

\* A thread leaves the critical section with a batch, or to wait.
LEMMA LeaveStep ==
  ASSUME IInv, NEW t \in Thread, TakeBatch(t) \/ GoIdle(t)
  PROVE  IInv'
<1> USE DEF IInv
<1> DEFINE takes == TakeBatch(t)
<1>p. /\ pc' \in [Thread -> Places] /\ pc[t] = "section"
      /\ pc' = [pc EXCEPT ![t] = IF takes THEN "working" ELSE "waiting"]
  BY DEF TakeBatch, GoIdle, TypeOK, Places
<1>n. vChecks[t] = {}
  BY <1>p DEF BatchInv, Holding
<1>q. PICK batch \in SUBSET queue :
        /\ queue' = queue \ batch
        /\ vChecks' = [vChecks EXCEPT ![t] = batch]
        /\ batch # {} <=> takes
  <2>1. CASE TakeBatch(t)
    BY <2>1, BatchSize DEF TakeBatch
  <2>2. CASE ~TakeBatch(t)
    <3>1. queue' = queue /\ vChecks' = vChecks
      BY <2>2 DEF GoIdle
    <3>2. vChecks = [vChecks EXCEPT ![t] = {}]
      BY <1>n DEF TypeOK
    <3> QED
      BY <2>2, <3>1, <3>2
  <2> QED
    BY <2>1, <2>2
<1>r. /\ fOk' = IF takes THEN [fOk EXCEPT ![t] = fAllOk] ELSE fOk
      /\ nIdle' = IF takes THEN nIdle ELSE nIdle + 1
      /\ UNCHANGED <<nTotal, fAllOk, nTodo, interrupted, open, added, verdict>>
  <2>1. CASE TakeBatch(t)
    BY <2>1 DEF TakeBatch
  <2>2. CASE ~TakeBatch(t)
    BY <2>2 DEF GoIdle
  <2> QED
    BY <2>1, <2>2
<1> HIDE DEF takes
<1>sets. /\ InSection' = InSection \ {t}
         /\ Holding' = IF takes THEN Holding \cup {t} ELSE Holding
         /\ Busy' = IF takes THEN Busy ELSE Busy \ {t}
         /\ Asleep' = IF takes THEN Asleep ELSE Asleep \cup {t}
         /\ t \in Busy /\ t \notin Asleep
  BY <1>p DEF InSection, Holding, Busy, Asleep, TypeOK
<1>out. Outstanding' = Outstanding
  BY <1>n, <1>q DEF TypeOK, Outstanding
<1>1. TypeOK'
  BY <1>p, <1>q, <1>r DEF TypeOK, Places
<1>2. BatchInv'
  <2>1. \A s \in Thread \ {t} : vChecks'[s] = vChecks[s]
    BY <1>q DEF TypeOK
  <2>2. vChecks'[t] = batch
    BY <1>q DEF TypeOK
  <2>3. \A s \in Thread : vChecks'[s] # {} <=> s \in Holding'
    <3>1. t \notin Holding
      BY <1>p DEF Holding
    <3> QED
      BY <1>q, <1>sets, <2>1, <2>2, <3>1 DEF BatchInv
  <2>4. \A s \in Thread : vChecks'[s] \cap queue' = {}
    BY <1>q, <2>1, <2>2 DEF BatchInv
  <2>5. \A s, u \in Thread : s # u => vChecks'[s] \cap vChecks'[u] = {}
    BY <1>q, <2>1, <2>2 DEF BatchInv
  <2>6. pc'[Master] # "out" => open'
    BY <1>p, <1>r DEF BatchInv, TypeOK
  <2> QED
    BY <1>out, <1>r, <1>sets, <2>3, <2>4, <2>5, <2>6 DEF BatchInv
<1>3. CountInv'
  <2>1. Busy \subseteq Thread /\ Asleep \subseteq Thread
    BY DEF Busy, InSection, Holding, Asleep
  <2>2. /\ Cardinality(Busy \ {t}) = Cardinality(Busy) - 1
        /\ Cardinality(Busy) \in Nat
    BY <1>sets, <2>1, Finite, FS_RemoveElement
  <2>3. /\ Cardinality(Asleep \cup {t}) = Cardinality(Asleep) + 1
        /\ Cardinality(Asleep) \in Nat
    BY <1>sets, <2>1, Finite, FS_AddElement
  <2> QED
    BY <1>out, <1>r, <1>sets, <2>2, <2>3 DEF CountInv, TypeOK
<1>4. VerdictInv'
  <2>1. \A s \in Thread \ {t} : fOk'[s] = fOk[s] /\ vChecks'[s] = vChecks[s] /\ pc'[s] = pc[s]
    BY <1>p, <1>q, <1>r DEF TypeOK
  <2>2. takes => fOk'[t] = fAllOk
    BY <1>r DEF TypeOK
  <2>3. t \in Holding' <=> takes
    BY <1>p, <1>sets DEF Holding
  <2>4. pc'[t] # "done"
    BY <1>p DEF TypeOK
  <2> QED
    BY <1>out, <1>r, <1>sets, <2>1, <2>2, <2>3, <2>4 DEF VerdictInv
<1> QED
  BY <1>1, <1>2, <1>3, <1>4

\* The session ends with everything decided.
LEMMA ReturnStep ==
  ASSUME IInv, WaitReturns
  PROVE  IInv' /\ verdict' = (added \subseteq Good) /\ open
<1> USE DEF IInv
<1>t. /\ Master \in Thread /\ pc[Master] = "section" /\ pc' = [pc EXCEPT ![Master] = "out"]
      /\ nTodo = 0 /\ nTotal' = nTotal - 1 /\ verdict' = fAllOk /\ fAllOk' = TRUE
      /\ open' = FALSE
      /\ UNCHANGED <<queue, nIdle, nTodo, vChecks, fOk, interrupted, added>>
  BY DEF WaitReturns, Thread
<1>b. Outstanding = {}
  <2>1. Outstanding \subseteq Check
    BY DEF Outstanding
  <2>2. Cardinality(Outstanding) = 0
    BY <1>t DEF CountInv
  <2> QED
    BY <2>1, <2>2, Finite, FS_EmptySet
<1>c. \A s \in Thread : vChecks[s] = {}
  BY <1>b DEF Outstanding, TypeOK
<1>e. Outstanding' = {}
  BY <1>b, <1>t DEF Outstanding
<1>f. open
  BY <1>t DEF BatchInv
<1>g. verdict' = (added \subseteq Good)
  BY <1>b, <1>f, <1>t DEF VerdictInv, TypeOK
<1>i. Holding = {} /\ InSection = {Master}
  <2>1. Holding = {}
    BY <1>c DEF BatchInv, Holding
  <2>2. Master \in InSection
    BY <1>t DEF InSection
  <2> QED
    BY <2>1, <2>2 DEF BatchInv
<1>h. Busy' = {} /\ Holding' = {} /\ InSection' = {} /\ Asleep' = Asleep
  BY <1>t, <1>i DEF Busy, Holding, InSection, Asleep, TypeOK
<1>1. TypeOK'
  <2>1. fAllOk' \in BOOLEAN /\ verdict' \in BOOLEAN /\ open' \in BOOLEAN
    BY <1>t, Zenon DEF TypeOK
  <2>2. pc' \in [Thread -> {"out", "first", "section", "waiting", "woken", "working",
                            "done"}]
    BY <1>t DEF TypeOK
  <2>3. nIdle' \in Int /\ nTotal' \in Int /\ nTodo' \in Int
    BY <1>t DEF TypeOK
  <2> QED
    BY <1>t, <2>1, <2>2, <2>3, Zenon DEF TypeOK
<1>2. BatchInv'
  BY <1>c, <1>e, <1>h, <1>t DEF BatchInv, TypeOK
<1>3. CountInv'
  <2>1. Cardinality(Busy) = 1
    BY <1>i, FS_Singleton DEF Busy
  <2>2. Cardinality(Busy') = 0
    BY <1>h, FS_EmptySet
  <2> QED
    BY <1>b, <1>e, <1>h, <1>t, <2>1, <2>2 DEF CountInv, TypeOK
<1>4. VerdictInv'
  <2>1. \A s \in Thread : pc'[s] # "done"
    BY <1>h DEF Holding
  <2> QED
    BY <1>h, <1>t, <2>1 DEF VerdictInv
<1> QED
  BY <1>1, <1>2, <1>3, <1>4, <1>f, <1>g

\* A batch is executed.
LEMMA RunStep ==
  ASSUME IInv, NEW t \in Thread, RunChecks(t)
  PROVE  IInv'
<1> USE DEF IInv
<1>1. /\ Busy' = Busy /\ Holding' = Holding /\ InSection' = InSection
      /\ Asleep' = Asleep /\ Outstanding' = Outstanding
  BY DEF RunChecks, Busy, Holding, InSection, Asleep, Outstanding, TypeOK
<1>2. fOk' \in [Thread -> BOOLEAN]
  <2>1. (fOk[t] /\ vChecks[t] \subseteq Good) \in BOOLEAN
    OBVIOUS
  <2> QED
    BY <2>1 DEF RunChecks, TypeOK
<1>3. TypeOK'
  BY <1>2 DEF RunChecks, TypeOK
<1>4. BatchInv' /\ CountInv'
  BY <1>1 DEF RunChecks, BatchInv, CountInv, TypeOK
<1>5. VerdictInv'
  <2>1. vChecks[t] \subseteq added
    BY DEF BatchInv, Outstanding, TypeOK
  <2>2. \A s \in Thread \ {t} : fOk'[s] = fOk[s] /\ pc'[s] = pc[s]
    BY DEF RunChecks, TypeOK
  <2>3. /\ fOk'[t] = (fOk[t] /\ vChecks[t] \subseteq Good)
        /\ t \in Holding
    BY DEF RunChecks, TypeOK, Holding
  <2>4. ~fOk'[t] => ~(added \subseteq Good)
    BY <2>1, <2>3 DEF VerdictInv
  <2>5. fOk'[t] => vChecks[t] \subseteq Good
    BY <2>3
  <2>6. added' = added /\ open' = open /\ fAllOk' = fAllOk /\ vChecks' = vChecks
    BY DEF RunChecks
  <2>7. \A s \in Thread : s \in Holding /\ ~fOk'[s] => ~(added \subseteq Good)
    BY <2>2, <2>4 DEF VerdictInv
  <2>8. \A s \in Thread : pc'[s] = "done" /\ fOk'[s] => vChecks[s] \subseteq Good
    BY <2>2, <2>5 DEF VerdictInv
  <2> QED
    BY <1>1, <2>6, <2>7, <2>8, Zenon DEF VerdictInv, Holding
<1> QED
  BY <1>3, <1>4, <1>5

\* The master pushes checks.
LEMMA AddStep ==
  ASSUME IInv, NEW C \in SUBSET Check, AddChecks(C)
  PROVE  IInv'
<1> USE DEF IInv
<1>1. /\ pc' \in [Thread -> Places]
      /\ \A s \in Thread : pc'[s] = pc[s] \/ (pc[s] = "waiting" /\ pc'[s] = "woken")
  <2> DEFINE idle == {w \in Worker : pc[w] = "waiting"}
  <2>1. \/ pc' = pc
        \/ \E w \in idle : pc' = [pc EXCEPT ![w] = "woken"]
        \/ pc' = [s \in Thread |-> IF s \in idle THEN "woken" ELSE pc[s]]
    BY DEF AddChecks, NotifyWorkers
  <2>2. idle \subseteq Thread /\ \A w \in idle : pc[w] = "waiting"
    BY DEF Thread
  <2> HIDE DEF idle
  <2>3. CASE \E w \in idle : pc' = [pc EXCEPT ![w] = "woken"]
    BY <2>2, <2>3 DEF TypeOK, Places
  <2>4. CASE pc' = [s \in Thread |-> IF s \in idle THEN "woken" ELSE pc[s]]
    BY <2>2, <2>4 DEF TypeOK, Places
  <2> QED
    BY <2>1, <2>3, <2>4 DEF TypeOK, Places
<1>2. /\ Busy' = Busy /\ Holding' = Holding /\ InSection' = InSection
      /\ Asleep' = Asleep
  BY <1>1 DEF Busy, Holding, InSection, Asleep
<1>3. Outstanding' = Outstanding \cup C /\ Outstanding \cap C = {}
  BY DEF AddChecks, Outstanding, BatchInv
<1>4. IsFiniteSet(C) /\ IsFiniteSet(Outstanding) /\ Cardinality(C) \in Nat
  BY Finite DEF Outstanding
<1>5. TypeOK'
  BY <1>1, <1>4 DEF AddChecks, TypeOK, Places
<1>6. BatchInv'
  <2>1. vChecks' = vChecks /\ queue' = queue \cup C /\ added' = added \cup C /\ open' = open /\ open
        /\ C \cap added = {}
    BY DEF AddChecks
  <2>2. \A s \in Thread : vChecks[s] \subseteq Outstanding
    BY DEF Outstanding, TypeOK
  <2> QED
    BY <1>2, <1>3, <2>1, <2>2 DEF BatchInv
<1>7. CountInv'
  BY <1>2, <1>3, <1>4, DisjointUnion DEF AddChecks, CountInv
<1>8. VerdictInv'
  BY <1>1, <1>2, <1>3 DEF AddChecks, VerdictInv, TypeOK
<1> QED
  BY <1>5, <1>6, <1>7, <1>8

\* A step leaves the threads in the critical section or with a batch, and the checks
\* that are outstanding.
SameSets ==
    /\ Busy' = Busy /\ Holding' = Holding /\ InSection' = InSection
    /\ Outstanding' = Outstanding

\* Steps that only move a thread between places where it holds no batch and is as
\* awake as before, or that start a session.
LEMMA OtherSteps ==
  ASSUME IInv,
         \/ \E w \in Worker : StartWorker(w)
         \/ Begin
         \/ CallWait
         \/ \E t \in Thread : SpuriousWake(t) \/ Interrupt(t)
         \/ UNCHANGED vars
  PROVE  IInv'
<1> USE DEF IInv, Thread
<1>1. ASSUME NEW w \in Worker, StartWorker(w)
      PROVE  IInv'
  <2>1. SameSets /\ Asleep' = Asleep
    BY <1>1 DEF StartWorker, SameSets, Busy, Holding, InSection, Asleep, Outstanding, TypeOK
  <2>2. TypeOK' /\ pc'[Master] = pc[Master]
    BY <1>1, ThreadAssumption DEF StartWorker, TypeOK
  <2> QED
    BY <1>1, <2>1, <2>2 DEF SameSets, StartWorker, BatchInv, CountInv, VerdictInv, TypeOK
<1>2. CASE Begin
  <2>1. SameSets /\ Asleep' = Asleep /\ Outstanding = {}
    BY <1>2 DEF Begin, SameSets, Busy, Holding, InSection, Asleep, Outstanding, BatchInv
  <2>2. TypeOK'
    BY <1>2 DEF Begin, TypeOK
  <2>3. \A t \in Thread : t \notin Holding
    BY <2>1 DEF BatchInv, Outstanding, TypeOK
  <2> QED
    BY <1>2, <2>1, <2>2, <2>3 DEF SameSets, Begin, BatchInv, CountInv, VerdictInv, Holding
<1>3. CASE CallWait
  <2>1. SameSets /\ Asleep' = Asleep
    BY <1>3 DEF CallWait, SameSets, Busy, Holding, InSection, Asleep, Outstanding, TypeOK
  <2>2. TypeOK'
    BY <1>3 DEF CallWait, TypeOK
  <2> QED
    BY <1>3, <2>1, <2>2 DEF SameSets, CallWait, BatchInv, CountInv, VerdictInv, TypeOK
<1>4. ASSUME NEW t \in Thread, SpuriousWake(t)
      PROVE  IInv'
  <2>1. SameSets /\ Asleep' = Asleep
    BY <1>4 DEF SpuriousWake, SameSets, Busy, Holding, InSection, Asleep, Outstanding,
       TypeOK
  <2>2. TypeOK' /\ (pc'[Master] # "out" => pc[Master] # "out")
    BY <1>4 DEF SpuriousWake, TypeOK
  <2> QED
    BY <1>4, <2>1, <2>2 DEF SameSets, SpuriousWake, BatchInv, CountInv, VerdictInv, TypeOK
<1>5. ASSUME NEW t \in Thread, Interrupt(t)
      PROVE  IInv'
  <2>1. SameSets /\ Asleep' = Asleep \ {t}
    BY <1>5 DEF Interrupt, SameSets, Busy, Holding, InSection, Asleep, Outstanding, TypeOK
  <2>2. TypeOK' /\ (pc'[Master] # "out" => pc[Master] # "out")
    BY <1>5 DEF Interrupt, TypeOK
  <2>3. Asleep \subseteq Thread
    BY DEF Asleep
  <2>4. Cardinality(Asleep \ {t}) <= Cardinality(Asleep) /\ Cardinality(Asleep) \in Nat
        /\ Cardinality(Asleep \ {t}) \in Nat
    BY <2>3, Finite, FS_Subset
  <2>5. CountInv'
    BY <1>5, <2>1, <2>4 DEF SameSets, Interrupt, CountInv, TypeOK
  <2> QED
    BY <1>5, <2>1, <2>2, <2>5 DEF SameSets, Interrupt, BatchInv, VerdictInv, TypeOK
<1>6. CASE UNCHANGED vars
  BY <1>6 DEF vars, TypeOK, BatchInv, CountInv, VerdictInv, SameSets, Busy, Holding,
     InSection, Asleep, Outstanding
<1> QED
  BY <1>1, <1>2, <1>3, <1>4, <1>5, <1>6

\* The invariant holds in the state the constructor of CCheckQueue leaves.
LEMMA InitInv ==
  ASSUME Init
  PROVE  IInv
<1>1. /\ Outstanding = {} /\ Busy = {} /\ Holding = {} /\ InSection = {}
      /\ Asleep = {}
  BY DEF Init, Outstanding, Busy, Holding, InSection, Asleep
<1>2. TypeOK
  <2>1. fOk \in [Thread -> BOOLEAN] /\ fAllOk \in BOOLEAN /\ open \in BOOLEAN
        /\ verdict \in BOOLEAN
    BY Zenon DEF Init
  <2>2. pc \in [Thread -> Places]
        /\ vChecks \in [Thread -> SUBSET Check]
    BY DEF Init, Places
  <2> QED
    BY <2>1, <2>2 DEF Init, TypeOK, Places
<1>3. BatchInv /\ CountInv /\ VerdictInv
  BY <1>1, FS_EmptySet DEF Init, BatchInv, CountInv, VerdictInv, Thread
<1> QED
  BY <1>2, <1>3 DEF IInv

\* Every step of every thread preserves the invariant.
LEMMA NextInv ==
  ASSUME IInv, [Next]_vars
  PROVE  IInv'
  BY EnterStep, LeaveStep, ReturnStep, RunStep, AddStep, OtherSteps DEF Next, Step

\* The batches, the counters and the results stay consistent in every reachable state.
THEOREM Inductive == Spec => []IInv
  BY InitInv, NextInv, PTL DEF Spec

\* What the assertions of the constructor of CCheckQueueControl can see, for any number
\* of workers, checks and interruptions: an unused queue, but for one worker at most
\* that is in the critical section.
THEOREM ConstructorAsserts == Spec => []QueueUnused
<1>1. IInv => QueueUnused
  <2> SUFFICES ASSUME IInv, ~open
               PROVE  /\ nTodo = 0 /\ fAllOk = TRUE
                      /\ nTotal - nIdle = Cardinality(InSection)
                      /\ \A s, t \in InSection : s = t
    BY DEF QueueUnused
  <2>1. Outstanding = {} /\ fAllOk = TRUE /\ \A s, t \in InSection : s = t
    BY DEF IInv, BatchInv
  <2>2. Busy = InSection
    BY <2>1 DEF IInv, BatchInv, Outstanding, TypeOK, Busy, Holding
  <2> QED
    BY <2>1, <2>2, FS_EmptySet DEF IInv, CountInv, TypeOK
<1> QED
  BY <1>1, Inductive, PTL

\* nTodo counts the checks that are not completed: Wait cannot return early, and
\* the unsigned counter never wraps.
THEOREM TodoExact == Spec => []TodoCounted
<1>1. IInv => TodoCounted
  BY DEF IInv, CountInv, TodoCounted
<1> QED
  BY <1>1, Inductive, PTL

\* The counters of threads keep their order.
THEOREM IdleExact == Spec => []IdleCounted
<1>1. IInv => IdleCounted
  <2>1. Cardinality(Busy) \in Nat /\ Cardinality(Asleep) \in Nat
    BY Finite DEF Busy, InSection, Holding, Asleep
  <2> QED
    BY <2>1 DEF IInv, CountInv, IdleCounted, TypeOK
<1> QED
  BY <1>1, Inductive, PTL

\* The queue implements VerifySession: Wait returns whether every check of its own
\* session succeeded.
THEOREM ImplementsSession == Spec => SessionSpec
<1>1. Init => Session!Init
  BY DEF Init, Session!Init
<1>2. IInv /\ [Next]_vars => [Session!Next]_(Session!vars)
  <2> SUFFICES ASSUME IInv, [Next]_vars
               PROVE  [Session!Next]_(Session!vars)
    OBVIOUS
  <2>1. CASE Begin
    BY <2>1 DEF Begin, Session!Begin, Session!Next
  <2>2. ASSUME NEW C \in SUBSET Check, AddChecks(C)
        PROVE  Session!Next
    BY <2>2 DEF AddChecks, Session!AddChecks, Session!Next
  <2>3. CASE WaitReturns
    <3>1. verdict' = (added \subseteq Good) /\ open
      BY <2>3, ReturnStep
    <3> QED
      BY <2>3, <3>1 DEF WaitReturns, Session!Finish, Session!Next
  <2>4. CASE UNCHANGED <<open, added, verdict>>
    BY <2>4 DEF Session!vars
  <2> QED
    BY <2>1, <2>2, <2>3, <2>4
       DEF Next, Step, vars, StartWorker, CallWait, Enter, TakeBatch, GoIdle, RunChecks,
           SpuriousWake, Interrupt
<1> QED
  BY <1>1, <1>2, Inductive, PTL DEF Spec, SessionSpec, Session!Spec

================================================================================

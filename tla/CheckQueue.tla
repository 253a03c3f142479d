------------------------------ MODULE CheckQueue ------------------------------
(***************************************************************************)
(* CCheckQueue: the thread that connects a block pushes the script checks  *)
(* of its transactions on a queue, worker threads take them off in         *)
(* batches, and the master joins them until every check is done.           *)
(*                                                                         *)
(* The critical section of Loop is two steps, because the constructor of   *)
(* CCheckQueueControl looks at the counters without the mutex: a thread    *)
(* enters it, and leaves it with a batch, to wait, or for good.  The order *)
(* of the checks does not matter, so that the queue is a set and a batch   *)
(* any part of it that has the right size.  fQuit is never set, and is     *)
(* left out.  Condition variables may wake up without being notified, and  *)
(* threads may be interrupted while they wait (threadGroup.interrupt_all   *)
(* at shutdown).                                                           *)
(***************************************************************************)
EXTENDS Integers, FiniteSets

CONSTANTS
    Worker,         \* threads that run ThreadScriptCheck
    Master,         \* the thread that connects a block, under cs_main
    Check,          \* verifications of input scripts
    Good,           \* those that succeed
    nBatchSize      \* most checks in one batch

ASSUME ThreadAssumption == IsFiniteSet(Worker) /\ Master \notin Worker
ASSUME CheckAssumption == IsFiniteSet(Check) /\ Good \subseteq Check
ASSUME BatchAssumption == nBatchSize \in Nat \ {0}

Thread == Worker \cup {Master}

VARIABLES
    queue,          \* checks nobody has taken
    nIdle,          \* threads that wait
    nTotal,         \* threads in Loop
    fAllOk,         \* no failure was reported in this session
    nTodo,          \* checks that are not completed
    pc,             \* where each thread is
    vChecks,        \* the batch of each thread
    fOk,            \* the local result of each thread
    interrupted,    \* threads whose interruption was delivered
    open,           \* a CCheckQueueControl exists
    added,          \* checks added since it was constructed
    verdict         \* what the master's Wait returned last

vars == <<queue, nIdle, nTotal, fAllOk, nTodo, pc, vChecks, fOk, interrupted,
          open, added, verdict>>

TypeOK ==
    /\ queue \subseteq Check
    /\ nIdle \in Int /\ nTotal \in Int /\ nTodo \in Int
    /\ fAllOk \in BOOLEAN
    /\ pc \in [Thread -> {"out", "first", "section", "waiting", "woken", "working",
                          "done"}]
    /\ vChecks \in [Thread -> SUBSET Check]
    /\ fOk \in [Thread -> BOOLEAN]
    /\ interrupted \subseteq Thread
    /\ open \in BOOLEAN
    /\ added \subseteq Check
    /\ verdict \in BOOLEAN

Init ==
    /\ queue = {}
    /\ nIdle = 0 /\ nTotal = 0 /\ nTodo = 0
    /\ fAllOk = TRUE
    /\ pc = [t \in Thread |-> "out"]
    /\ vChecks = [t \in Thread |-> {}]
    /\ fOk = [t \in Thread |-> TRUE]
    /\ interrupted = {}
    /\ open = FALSE
    /\ added = {}
    /\ verdict = TRUE

--------------------------------------------------------------------------------

\* A worker thread is created and enters Loop.
StartWorker(w) ==
    /\ pc[w] = "out"
    /\ w \notin interrupted
    /\ pc' = [pc EXCEPT ![w] = "first"]
    /\ UNCHANGED <<queue, nIdle, nTotal, fAllOk, nTodo, vChecks, fOk,
                   interrupted, open, added, verdict>>

\* Threads in the critical section of Loop: one at most.
InSection == {t \in Thread : pc[t] = "section"}

\* The constructor of CCheckQueueControl.  It takes no mutex: a thread may be in the
\* critical section.  What its assertions see is QueueUnused; a node in which one
\* fails is aborted, and takes none of the steps that follow here.
Begin ==
    /\ ~open
    /\ open' = TRUE
    /\ added' = {}
    /\ UNCHANGED <<queue, nIdle, nTotal, fAllOk, nTodo, pc, vChecks, fOk,
                   interrupted, verdict>>

\* condWorker is notified: one waiting worker, or all of them, wake up.
NotifyWorkers(n, program) ==
    LET idle == {w \in Worker : program[w] = "waiting"}
    IN  CASE n = 0 \/ idle = {} -> {program}
          [] n = 1 /\ idle # {} -> {[program EXCEPT ![w] = "woken"] : w \in idle}
          [] OTHER -> {[t \in Thread |-> IF t \in idle THEN "woken" ELSE program[t]]}

\* Add: the checks of one transaction.
AddChecks(C) ==
    /\ open
    /\ pc[Master] = "out"
    /\ InSection = {}
    /\ C \subseteq Check \ added
    /\ queue' = queue \cup C
    /\ nTodo' = nTodo + Cardinality(C)
    /\ added' = added \cup C
    /\ pc' \in NotifyWorkers(Cardinality(C), pc)
    /\ UNCHANGED <<nIdle, nTotal, fAllOk, vChecks, fOk, interrupted, open, verdict>>

\* Wait: the master enters Loop, at the end of ConnectBlock or in the destructor
\* when ConnectBlock returns early.
CallWait ==
    /\ open
    /\ pc[Master] = "out"
    /\ pc' = [pc EXCEPT ![Master] = "first"]
    /\ UNCHANGED <<queue, nIdle, nTotal, fAllOk, nTodo, vChecks, fOk,
                   interrupted, open, added, verdict>>

--------------------------------------------------------------------------------

\* A thread that waits for the mutex: it enters Loop, comes back with a finished
\* batch, or wakes up.
AtMutex(t) == pc[t] \in {"first", "woken", "done"}

\* Mutated forms: each leaves out a part of the clean-up.
TotalUncounted(t) == nTotal
IdleForgotten(t) == nIdle
TodoForgotten(t) == nTodo
AllOkLocal(t) == IF pc[t] = "done" THEN fOk[t] ELSE fAllOk
NotifyNobody(t, program) == program

\* The clean-up of the previous run, or what waking up does.
TotalNow(t)  == IF pc[t] = "first" THEN nTotal + 1 ELSE nTotal
IdleNow(t)   == IF pc[t] = "woken" THEN nIdle - 1 ELSE nIdle
TodoNow(t)   == IF pc[t] = "done" THEN nTodo - Cardinality(vChecks[t]) ELSE nTodo
AllOkNow(t)  == IF pc[t] = "done" THEN fAllOk /\ fOk[t] ELSE fAllOk

\* The worker that completes the last check wakes the master.
NotifyMaster(t, program) ==
    IF /\ pc[t] = "done"
       /\ TodoNow(t) = 0
       /\ t # Master
       /\ program[Master] = "waiting"
    THEN [program EXCEPT ![Master] = "woken"]
    ELSE program

\* The thread gets the mutex and cleans up.
Enter(t) ==
    /\ AtMutex(t)
    /\ InSection = {}
    /\ vChecks' = [vChecks EXCEPT ![t] = {}]
    /\ fAllOk' = AllOkNow(t)
    /\ nTodo' = TodoNow(t)
    /\ nTotal' = TotalNow(t)
    /\ nIdle' = IdleNow(t)
    /\ pc' = NotifyMaster(t, [pc EXCEPT ![t] = "section"])
    /\ UNCHANGED <<queue, fOk, interrupted, open, added, verdict>>

\* How many checks a thread takes.
AtMost(a, b) == IF a < b THEN a ELSE b
AtLeast(a, b) == IF a > b THEN a ELSE b
nNow ==
    AtLeast(1, AtMost(nBatchSize, Cardinality(queue) \div (nTotal + nIdle + 1)))

\* The thread takes a batch off the queue.
TakeBatch(t) ==
    /\ pc[t] = "section"
    /\ \E batch \in SUBSET queue :
          /\ Cardinality(batch) = nNow
          /\ queue' = queue \ batch
          /\ vChecks' = [vChecks EXCEPT ![t] = batch]
    /\ fOk' = [fOk EXCEPT ![t] = fAllOk]
    /\ pc' = [pc EXCEPT ![t] = "working"]
    /\ UNCHANGED <<nIdle, nTotal, fAllOk, nTodo, interrupted, open, added, verdict>>

\* The queue is empty: the thread waits, unless it is the master and all is done.
GoIdle(t) ==
    /\ pc[t] = "section"
    /\ queue = {}
    /\ t # Master \/ nTodo # 0
    /\ nIdle' = nIdle + 1
    /\ pc' = [pc EXCEPT ![t] = "waiting"]
    /\ UNCHANGED <<queue, nTotal, fAllOk, nTodo, vChecks, fOk, interrupted, open,
                   added, verdict>>

\* All is done: the master's Wait returns, and the session ends.
WaitReturns ==
    /\ pc[Master] = "section"
    /\ queue = {}
    /\ nTodo = 0
    /\ nTotal' = nTotal - 1
    /\ verdict' = fAllOk
    /\ fAllOk' = TRUE
    /\ pc' = [pc EXCEPT ![Master] = "out"]
    /\ open' = FALSE
    /\ UNCHANGED <<queue, nIdle, nTodo, vChecks, fOk, interrupted, added>>

\* The thread executes its batch, outside the mutex; after a failure the others
\* are skipped.
RunChecks(t) ==
    /\ pc[t] = "working"
    /\ fOk' = [fOk EXCEPT ![t] = @ /\ vChecks[t] \subseteq Good]
    /\ pc' = [pc EXCEPT ![t] = "done"]
    /\ UNCHANGED <<queue, nIdle, nTotal, fAllOk, nTodo, vChecks, interrupted,
                   open, added, verdict>>

\* A condition variable wakes up without a notification.
SpuriousWake(t) ==
    /\ pc[t] = "waiting"
    /\ pc' = [pc EXCEPT ![t] = "woken"]
    /\ UNCHANGED <<queue, nIdle, nTotal, fAllOk, nTodo, vChecks, fOk,
                   interrupted, open, added, verdict>>

\* The wait of a thread throws thread_interrupted, once: nIdle and nTotal keep
\* counting it.  A worker ends; for the master the destructor of
\* CCheckQueueControl calls Wait again.
Interrupt(t) ==
    /\ pc[t] \in {"waiting", "woken"}
    /\ t \notin interrupted
    /\ interrupted' = interrupted \cup {t}
    /\ pc' = [pc EXCEPT ![t] = IF t = Master THEN "first" ELSE "out"]
    /\ UNCHANGED <<queue, nIdle, nTotal, fAllOk, nTodo, vChecks, fOk, open,
                   added, verdict>>

--------------------------------------------------------------------------------

\* What a thread in Loop does of itself.
Step(t) == Enter(t) \/ TakeBatch(t) \/ GoIdle(t) \/ RunChecks(t)

Next ==
    \/ \E w \in Worker : StartWorker(w)
    \/ Begin
    \/ \E C \in SUBSET Check : AddChecks(C)
    \/ CallWait
    \/ \E t \in Thread : Step(t)
    \/ WaitReturns
    \/ \E t \in Thread : SpuriousWake(t) \/ Interrupt(t)

Spec == Init /\ [][Next]_vars

\* A thread that is not waiting goes on: the scheduler runs it, the mutex it waits for
\* is not for ever given to others, and a script check ends.  Nothing is assumed about
\* spurious wake-ups, about worker threads being started, or about the block having
\* more transactions.
FairSpec == /\ Spec
            /\ WF_vars(WaitReturns)
            /\ \A t \in Thread : WF_vars(Step(t)) /\ SF_vars(Enter(t))

--------------------------------------------------------------------------------

\* The checks in the queue and in the batches.
Outstanding ==
    {c \in Check : c \in queue \/ \E t \in Thread : c \in vChecks[t]}

\* Safety.  What the three assertions of the constructor of CCheckQueueControl can see:
\* when no session is under way nothing is left to do, the result of the last session
\* has been reset, and every thread in Loop is idle, also after interruptions, up to a
\* worker that is in the critical section just then.  The first assertion, which reads
\* the counters one after the other and without the mutex, may fail because of a worker
\* that goes through the critical section meanwhile, and for no other reason.
QueueUnused ==
    ~open => /\ nTodo = 0
             /\ fAllOk = TRUE
             /\ nTotal - nIdle = Cardinality(InSection)
             /\ \A s, t \in InSection : s = t

\* Safety.  nTodo, an unsigned counter that decides when Wait returns, is the
\* number of checks in the queue and in the batches: it never wraps below zero,
\* and it is not zero while a batch is being executed.
TodoCounted == nTodo = Cardinality(Outstanding)

\* Safety.  The batch size never divides by zero or takes more than there is:
\* idle threads are part of the total.
IdleCounted == 0 <= nIdle /\ nIdle <= nTotal

\* Refinement.  A session of the queue is a session of VerifySession: Wait returns
\* whether all the checks of its own block succeeded, whatever the threads did.
Session == INSTANCE VerifySession WITH
              Check <- Check, Good <- Good,
              open <- open, added <- added, verdict <- verdict

\* Refinement property, see above.
SessionSpec == Session!Spec

\* Liveness.  The master's Wait returns, even when every worker is gone: a block is
\* not stuck in ConnectBlock with cs_main held.
WaitEnds == (pc[Master] # "out") ~> (pc[Master] = "out")

================================================================================

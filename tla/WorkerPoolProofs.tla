-------------------------- MODULE WorkerPoolProofs --------------------------
(***************************************************************************)
(* The invariants of WorkerPool, and that it implements JobPool, for every *)
(* number of workers, callers and jobs.                                    *)
(***************************************************************************)
EXTENDS WorkerPool, SequenceTheorems, TLAPS

LEMMA Arithmetic ==
  /\ 0 \in Worker /\ Last \in Worker /\ Stop \notin Job /\ Empty \notin Job
  /\ \A w \in Worker : w # Last => w + 1 \in Worker
  /\ \A w \in Worker : NextWorker(w) \in Worker
BY PoolAssumption DEF Worker, Last, Stop, Empty, Job, NextWorker

LEMMA InitIInv == Init => IInv
<1> SUFFICES ASSUME Init PROVE IInv
  OBVIOUS
<1>1. TypeOK
  <2>1. ran \in Seq(Job)
    BY EmptySeq DEF Init
  <2>2. mShutdown \in [Worker -> BOOLEAN]
    <3>1. CASE StrayFlag
      BY <3>1 DEF Init
    <3>2. CASE ~StrayFlag
      BY <3>2 DEF Init
    <3> QED BY <3>1, <3>2
  <2>3. /\ calls \in 0..MaxJobs /\ accepted \in SUBSET Job
        /\ refused \in SUBSET Job /\ mCurrentWorker \in Worker
        /\ live \in SUBSET Worker /\ status \in {"up", "crashed"}
    BY PoolAssumption DEF Init
  <2>4. /\ mPromiseToWork \in [Worker -> Promise]
        /\ thread \in [Worker -> ThreadState]
        /\ owner \in OwnerState /\ caller \in [Callers -> CallState]
    BY Arithmetic DEF Init, Promise, ThreadState, OwnerState, CallState
  <2> QED BY <2>1, <2>2, <2>3, <2>4 DEF TypeOK
<1>2. Claims /\ FirstRoundSucceeds
  BY DEF Init, Claims, FirstRoundSucceeds, Stop, Empty
<1>3. JobsAccountedFor
  BY Arithmetic DEF Init, JobsAccountedFor
<1>4. Runs
  BY Arithmetic DEF Init, Runs
<1> QED BY <1>1, <1>2, <1>3, <1>4 DEF IInv

-----------------------------------------------------------------------------
(* Types *)

LEMMA OnwardType ==
  ASSUME owner \in OwnerState,
         NEW same \in {"start", "delete", "join"}, NEW then \in {"open", "join", "gone"}
  PROVE  Onward(same, then) \in OwnerState
BY Arithmetic DEF Onward, OwnerState

LEMMA TypePreserved == IInv /\ [Next]_vars => TypeOK'
<1> SUFFICES ASSUME TypeOK, Claims, Runs, [Next]_vars PROVE TypeOK'
  BY DEF IInv
<1>1. CASE StartThread
  <2>1. owner' \in OwnerState /\ mCurrentWorker' \in Worker
    BY <1>1, OnwardType, Arithmetic DEF StartThread, TypeOK
  <2>2. thread' \in [Worker -> ThreadState]
    BY <1>1 DEF StartThread, TypeOK, ThreadState
  <2> QED BY <1>1, <2>1, <2>2 DEF StartThread, TypeOK, history
<1>2. CASE StopWorker
  <2>1. owner' \in OwnerState
    BY <1>2 DEF StopWorker, TypeOK, OwnerState
  <2>2. mPromiseToWork' \in [Worker -> Promise]
    BY <1>2 DEF StopWorker, TypeOK, Promise, Works
  <2> QED BY <1>2, <2>1, <2>2 DEF StopWorker, TypeOK, history
<1>3. CASE FreeWorker \/ JoinThread \/ Destroy
  <2>1. owner' \in OwnerState
    BY <1>3, OnwardType, Arithmetic
    DEF FreeWorker, JoinThread, Joined, Destroy, TypeOK, OwnerState
  <2> QED
    BY <1>3, <2>1 DEF FreeWorker, JoinThread, Destroy, TypeOK, history, pool
<1>4. ASSUME NEW c \in Callers, AddWork(c) PROVE TypeOK'
  <2>1. calls' \in 0..MaxJobs /\ calls + 1 \in Job
    BY <1>4, PoolAssumption DEF AddWork, TypeOK, Job
  <2>2. caller' \in [Callers -> CallState]
    BY <1>4, <2>1 DEF AddWork, TypeOK, CallState
  <2>3. mCurrentWorker' \in Worker
    BY <1>4, Arithmetic DEF AddWork, TypeOK
  <2> QED BY <1>4, <2>1, <2>2, <2>3 DEF AddWork, TypeOK
<1>5. ASSUME NEW c \in Callers, ProvideWork(c) PROVE TypeOK'
  <2>1. caller[c].job \in Job /\ caller[c].worker \in Worker
    BY <1>5, PoolAssumption DEF ProvideWork, Claims, TypeOK, Job, CallState
  <2>2. caller' \in [Callers -> CallState]
    BY <1>5 DEF ProvideWork, TypeOK, CallState
  <2>3. mPromiseToWork' \in [Worker -> Promise]
    <3>1. CASE Satisfied(caller[c].worker)
      BY <1>5, <3>1 DEF ProvideWork, TypeOK
    <3>2. CASE ~Satisfied(caller[c].worker)
      BY <1>5, <2>1, <3>2 DEF ProvideWork, TypeOK, Works, Promise
    <3> QED BY <3>1, <3>2
  <2>4. accepted' \in SUBSET Job /\ refused' \in SUBSET Job
    BY <1>5, <2>1 DEF ProvideWork, TypeOK
  <2> QED BY <1>5, <2>2, <2>3, <2>4 DEF ProvideWork, TypeOK
<1>6. ASSUME NEW w \in Worker,
             TestShutdown(w) \/ GetFuture(w) \/ GetWork(w) \/ RunStop(w)
      PROVE  TypeOK'
  <2>1. thread' \in [Worker -> ThreadState]
    <3>1. CASE GetWork(w)
      <4>1. mPromiseToWork[w].value \in Works \union {Empty}
        BY DEF TypeOK, Promise
      <4> QED BY <3>1, <4>1 DEF GetWork, TypeOK, ThreadState
    <3>2. CASE TestShutdown(w)
      BY <3>2 DEF TestShutdown, TypeOK, ThreadState
    <3>3. CASE GetFuture(w) \/ RunStop(w)
      BY <3>3 DEF GetFuture, RunStop, TypeOK, ThreadState
    <3> QED BY <1>6, <3>1, <3>2, <3>3
  <2>2. mPromiseToWork' \in [Worker -> Promise] /\ mShutdown' \in [Worker -> BOOLEAN]
    BY <1>6
    DEF TestShutdown, GetFuture, GetWork, RunStop, TypeOK, Promise, pool
  <2> QED
    BY <1>6, <2>1, <2>2
    DEF TestShutdown, GetFuture, GetWork, RunStop, TypeOK, pool, history
<1>7. ASSUME NEW w \in Worker, RunJob(w) PROVE TypeOK'
  <2>1. thread[w].work \in Job
    BY <1>7 DEF RunJob, ThreadAt, TypeOK, Runs, Works, ThreadState
  <2>2. ran' \in Seq(Job)
    BY <1>7, <2>1, AppendProperties DEF RunJob, TypeOK
  <2>3. thread' \in [Worker -> ThreadState]
    BY <1>7 DEF RunJob, NextRound, TypeOK, ThreadState
  <2> QED BY <1>7, <2>2, <2>3 DEF RunJob, TypeOK, pool
<1>8. CASE Crash \/ Over \/ UNCHANGED vars
  BY <1>8 DEF Crash, Over, vars, TypeOK, pool, history
<1> QED
  BY <1>1, <1>2, <1>3, <1>4, <1>5, <1>6, <1>7, <1>8
  DEF Next, OwnerStep, ThreadStep

-----------------------------------------------------------------------------
(* Who holds which job *)

LEMMA ClaimsPreserved ==
  IInv /\ [Next]_vars => Claims' /\ JobsAccountedFor' /\ FirstRoundSucceeds'
<1> SUFFICES ASSUME TypeOK, Claims, JobsAccountedFor, FirstRoundSucceeds,
                    Runs, [Next]_vars
             PROVE  Claims' /\ JobsAccountedFor' /\ FirstRoundSucceeds'
  BY DEF IInv
<1> USE PoolAssumption
<1>0. calls \in Nat /\ mPromiseToWork \in [Worker -> Promise]
                    /\ owner \in OwnerState
  BY DEF TypeOK
<1>1. CASE StartThread
  <2>1. Claims'
    BY <1>0, <1>1
    DEF StartThread, OwnerAt, Onward, OwnerState, Claims, history, Last
  <2> QED
    BY <1>1, <2>1 DEF StartThread, history, JobsAccountedFor, FirstRoundSucceeds
<1>2. CASE StopWorker
  <2>1. mPromiseToWork[owner.next].value \notin Job /\ owner.next \in Worker
    BY <1>0, <1>2, Arithmetic DEF StopWorker, Satisfied, OwnerState
  <2>2. \A w \in Worker : mPromiseToWork'[w].value =
          IF w = owner.next THEN Stop ELSE mPromiseToWork[w].value
    BY <1>0, <1>2 DEF StopWorker, Promise
  <2>3. owner'.pc = "free" /\ owner.pc = "delete"
    BY <1>0, <1>2 DEF StopWorker, OwnerAt, OwnerState
  <2>4. {mPromiseToWork'[w].value : w \in Worker} \cap Job =
          {mPromiseToWork[w].value : w \in Worker} \cap Job
    BY <2>1, <2>2, Arithmetic
  <2>5. Claims'
    BY <1>0, <1>2, <2>2, <2>3 DEF StopWorker, Claims, Stop, history
  <2> QED
    BY <1>2, <2>4, <2>5
    DEF StopWorker, history, JobsAccountedFor, FirstRoundSucceeds
<1>3. CASE FreeWorker \/ JoinThread \/ Destroy
  <2>1. owner.pc # "start" /\ owner'.pc \notin {"start", "open"}
    BY <1>0, <1>3
    DEF FreeWorker, JoinThread, Joined, Destroy, OwnerAt, Onward, OwnerState
  <2>2. \A c \in Callers : caller[c].pc # "provide"
    BY <1>3 DEF FreeWorker, JoinThread, Destroy, OwnerAt, Claims
  <2>3. UNCHANGED <<mPromiseToWork, mCurrentWorker, caller, history>>
    BY <1>3 DEF FreeWorker, JoinThread, Destroy, pool
  <2> QED
    BY <2>1, <2>2, <2>3
    DEF Claims, history, JobsAccountedFor, FirstRoundSucceeds
<1>6. ASSUME NEW w \in Worker, ThreadStep(w)
      PROVE  Claims' /\ JobsAccountedFor' /\ FirstRoundSucceeds'
  <2>1. UNCHANGED <<owner, caller, mCurrentWorker, calls, accepted, refused>>
    BY <1>6
    DEF ThreadStep, TestShutdown, GetFuture, GetWork, RunJob, RunStop, pool, history
  <2>2. \A v \in Worker : mPromiseToWork'[v].value = mPromiseToWork[v].value
    BY <1>0, <1>6
    DEF ThreadStep, TestShutdown, GetFuture, GetWork, RunJob, RunStop, pool,
        Promise
  <2> QED BY <2>1, <2>2 DEF Claims, JobsAccountedFor, FirstRoundSucceeds
<1>7. CASE Crash \/ Over \/ UNCHANGED vars
  BY <1>7
  DEF Crash, Over, vars, pool, history, Claims, JobsAccountedFor,
      FirstRoundSucceeds
<1>4. ASSUME NEW c \in Callers, AddWork(c)
      PROVE  Claims' /\ JobsAccountedFor' /\ FirstRoundSucceeds'
  <2>1. /\ owner.pc = "open" /\ calls' = calls + 1
        /\ mCurrentWorker' = NextWorker(mCurrentWorker)
        /\ UNCHANGED <<owner, mPromiseToWork, accepted, refused>>
    BY <1>4 DEF AddWork, OwnerAt
  <2>2. /\ caller'[c] = [pc |-> "provide", job |-> calls + 1,
                         worker |-> mCurrentWorker]
        /\ \A d \in Callers \ {c} : caller'[d] = caller[d]
    BY <1>4 DEF AddWork, TypeOK
  <2>3. \A d \in Callers \ {c} : caller[d].pc = "provide" =>
          caller[d].job # calls + 1
    BY <1>0 DEF Claims
  <2>4. calls' <= NbWorkers =>
          mCurrentWorker' = IF calls' = NbWorkers THEN 0 ELSE calls'
    BY <1>0, <2>1 DEF Claims, NextWorker
  <2>5. calls + 1 <= NbWorkers => mCurrentWorker = (calls + 1) - 1
    BY <1>0, <2>1 DEF Claims
  <2>6. calls + 1 \notin accepted \union refused
    BY <1>0 DEF Claims
  <2>7. Claims'
    BY <1>0, <2>1, <2>2, <2>3, <2>4, <2>5, <2>6 DEF Claims
  <2> QED BY <1>0, <2>1, <2>7 DEF JobsAccountedFor, FirstRoundSucceeds
<1>5. ASSUME NEW c \in Callers, ProvideWork(c)
      PROVE  Claims' /\ JobsAccountedFor' /\ FirstRoundSucceeds'
  <2> DEFINE w == caller[c].worker
             j == caller[c].job
  <2>1. /\ j \in Job /\ j \in (1..calls) \ (accepted \union refused)
        /\ w \in Worker /\ owner.pc = "open"
        /\ j <= NbWorkers => w = j - 1
    BY <1>5 DEF ProvideWork, Claims, TypeOK, Job, CallState
  <2>2. /\ UNCHANGED <<owner, mCurrentWorker, calls>>
        /\ caller'[c].pc = "idle"
        /\ \A d \in Callers \ {c} : caller'[d] = caller[d]
    BY <1>5 DEF ProvideWork, TypeOK, CallState
  <2>3. \A d \in Callers \ {c} : caller[d].pc = "provide" => caller[d].job # j
    BY <1>5 DEF ProvideWork, Claims
  <2>4. CASE Satisfied(w)
    <3>1. UNCHANGED <<mPromiseToWork, accepted>> /\ refused' = refused \union {j}
      BY <1>5, <2>4 DEF ProvideWork, Throws
    <3>2. Claims'
      BY <2>1, <2>2, <2>3, <3>1 DEF Claims
    <3>3. calls > NbWorkers
      <4> SUFFICES ASSUME calls <= NbWorkers PROVE FALSE
        BY <1>0
      <4>1. mPromiseToWork[w].value \in Job
        BY <1>0, <2>1, <2>4 DEF Satisfied, Claims, Promise, Works
      <4>2. mPromiseToWork[w].value \in accepted
        BY <2>1, <4>1 DEF JobsAccountedFor
      <4>3. mPromiseToWork[w].value \in 1..NbWorkers
        BY <1>0, <4>2 DEF Claims
      <4>4. w = mPromiseToWork[w].value - 1 /\ w = j - 1
        BY <1>0, <2>1, <4>3 DEF Claims
      <4>5. mPromiseToWork[w].value = j
        BY <1>0, <2>1, <4>3, <4>4
      <4> QED BY <2>1, <4>2, <4>5
    <3> QED BY <2>2, <3>1, <3>2, <3>3 DEF JobsAccountedFor, FirstRoundSucceeds
  <2>5. CASE ~Satisfied(w)
    <3>1. accepted' = accepted \union {j} /\ refused' = refused
      BY <1>5, <2>5 DEF ProvideWork, Throws
    <3>2. \A v \in Worker : mPromiseToWork'[v].value =
            IF v = w THEN j ELSE mPromiseToWork[v].value
      BY <1>0, <1>5, <2>5 DEF ProvideWork, Promise
    <3>3. mPromiseToWork[w].value \notin Job
      BY <2>5, Arithmetic DEF Satisfied
    <3>4. {mPromiseToWork'[v].value : v \in Worker} \cap Job =
            ({mPromiseToWork[v].value : v \in Worker} \cap Job) \union {j}
      BY <2>1, <3>2, <3>3
    <3>5. j # Stop
      BY <2>1, Arithmetic
    <3>6. Claims'
      BY <2>1, <2>2, <2>3, <3>1, <3>2, <3>5 DEF Claims
    <3> QED
      BY <2>2, <3>1, <3>4, <3>6 DEF JobsAccountedFor, FirstRoundSucceeds
  <2> QED BY <2>4, <2>5
<1> QED
  BY <1>1, <1>2, <1>3, <1>4, <1>5, <1>6, <1>7 DEF Next, OwnerStep
-----------------------------------------------------------------------------
(* What the threads run *)

LEMMA RunsPreserved == IInv /\ [Next]_vars => Runs'
<1> SUFFICES ASSUME TypeOK, Claims, JobsAccountedFor, Runs, [Next]_vars
             PROVE  Runs'
  BY DEF IInv
<1>0. /\ mPromiseToWork \in [Worker -> Promise] /\ thread \in [Worker -> ThreadState]
      /\ ran \in Seq(Job)
  BY DEF TypeOK
<1>1. CASE StartThread
  <2>1. UNCHANGED <<mPromiseToWork, ran, accepted>>
    BY <1>1 DEF StartThread, history
  <2>2. \A w \in Worker : thread'[w] = thread[w] \/ thread'[w].pc = "loop"
    BY <1>0, <1>1 DEF StartThread, ThreadState
  <2> QED BY <2>1, <2>2 DEF Runs
<1>2. CASE StopWorker
  <2>1. owner.next \in Worker /\ mPromiseToWork[owner.next].value = Empty
    BY <1>2 DEF StopWorker, Satisfied, TypeOK, OwnerState
  <2>2. \A w \in Worker : /\ mPromiseToWork'[w].retrieved = mPromiseToWork[w].retrieved
                          /\ mPromiseToWork'[w].value =
                                IF w = owner.next THEN Stop ELSE mPromiseToWork[w].value
    BY <1>0, <1>2 DEF StopWorker, Promise
  <2>3. UNCHANGED <<thread, ran, accepted>>
    BY <1>2 DEF StopWorker, history
  <2>4. \A k \in 1..Len(ran) : ran[k] # Stop
    BY <1>0, Arithmetic
  <2>5. thread[owner.next].pc # "run"
    BY <2>1 DEF Runs
  <2> QED BY <2>1, <2>2, <2>3, <2>4, <2>5, Arithmetic DEF Runs
<1>3. CASE FreeWorker \/ JoinThread \/ Destroy \/ Crash \/ Over \/ UNCHANGED vars
  <2>1. UNCHANGED <<mPromiseToWork, thread, ran, accepted>>
    BY <1>3
    DEF FreeWorker, JoinThread, Destroy, Crash, Over, vars, pool, history
  <2> QED BY <2>1 DEF Runs
<1>4. ASSUME NEW c \in Callers, AddWork(c) PROVE Runs'
  BY <1>4 DEF AddWork, Runs
<1>5. ASSUME NEW c \in Callers, ProvideWork(c) PROVE Runs'
  <2> DEFINE w == caller[c].worker
             j == caller[c].job
  <2>1. w \in Worker /\ j \in Job /\ j \notin accepted
    BY <1>5, PoolAssumption DEF ProvideWork, Claims, TypeOK, Job, CallState
  <2>2. UNCHANGED <<thread, ran>>
    BY <1>5 DEF ProvideWork
  <2>3. CASE Satisfied(w)
    <3>1. UNCHANGED <<mPromiseToWork, accepted>>
      BY <1>5, <2>3 DEF ProvideWork, Throws
    <3> QED BY <2>2, <3>1 DEF Runs
  <2>4. CASE ~Satisfied(w)
    <3>1. accepted' = accepted \union {j}
      BY <1>5, <2>4 DEF ProvideWork, Throws
    <3>2. \A v \in Worker : /\ mPromiseToWork'[v].retrieved = mPromiseToWork[v].retrieved
                            /\ mPromiseToWork'[v].value =
                                  IF v = w THEN j ELSE mPromiseToWork[v].value
      BY <1>0, <1>5, <2>4 DEF ProvideWork, Promise
    <3>3. mPromiseToWork[w].value = Empty
      BY <2>4 DEF Satisfied
    <3>4. \A v \in Worker : mPromiseToWork[v].value # j
      BY <2>1 DEF JobsAccountedFor
    <3>5. \A k \in 1..Len(ran) : ran[k] # j
      BY <2>1 DEF Runs
    <3>6. thread[w].pc # "run"
      BY <2>1, <3>3 DEF Runs
    <3> QED BY <2>1, <2>2, <3>1, <3>2, <3>3, <3>4, <3>5, <3>6 DEF Runs
  <2> QED BY <2>3, <2>4
<1>6. ASSUME NEW w \in Worker, TestShutdown(w) \/ RunStop(w) PROVE Runs'
  <2>1. UNCHANGED <<mPromiseToWork, ran, accepted>>
    BY <1>6 DEF TestShutdown, RunStop, pool, history
  <2>2. /\ thread'[w].pc \in {"ended", "get", "loop"}
        /\ \A v \in Worker \ {w} : thread'[v] = thread[v]
    BY <1>0, <1>6 DEF TestShutdown, RunStop, ThreadState
  <2> QED BY <2>1, <2>2 DEF Runs
<1>7. ASSUME NEW w \in Worker, GetFuture(w) PROVE Runs'
  <2>1. UNCHANGED <<ran, accepted>>
    BY <1>7 DEF GetFuture, history
  <2>2. /\ thread'[w].pc = "wait" /\ ~mPromiseToWork[w].retrieved
        /\ \A v \in Worker \ {w} : thread'[v] = thread[v]
    BY <1>0, <1>7 DEF GetFuture, FutureTaken, ThreadState
  <2>3. /\ mPromiseToWork'[w].retrieved
        /\ mPromiseToWork'[w].value = mPromiseToWork[w].value
        /\ \A v \in Worker \ {w} : mPromiseToWork'[v] = mPromiseToWork[v]
    BY <1>0, <1>7 DEF GetFuture, Promise
  <2> QED BY <2>1, <2>2, <2>3 DEF Runs
<1>8. ASSUME NEW w \in Worker, GetWork(w) PROVE Runs'
  <2>1. UNCHANGED <<mPromiseToWork, ran, accepted>>
    BY <1>8 DEF GetWork, pool, history
  <2>2. /\ thread'[w].pc = "run" /\ thread'[w].work = mPromiseToWork[w].value
        /\ thread[w].pc = "wait" /\ mPromiseToWork[w].value # Empty
        /\ \A v \in Worker \ {w} : thread'[v] = thread[v]
    BY <1>0, <1>8 DEF GetWork, ThreadAt, Satisfied
  <2> QED BY <2>1, <2>2 DEF Runs
<1>9. ASSUME NEW w \in Worker, RunJob(w) PROVE Runs'
  <2> DEFINE j == thread[w].work
  <2>1. /\ j = mPromiseToWork[w].value /\ j \in Job /\ j \in accepted
        /\ mPromiseToWork[w].retrieved
    BY <1>0, <1>9 DEF RunJob, ThreadAt, Runs, ThreadState, Works, JobsAccountedFor
  <2>2. /\ Len(ran') = Len(ran) + 1
        /\ \A k \in 1..Len(ran') : ran'[k] = IF k <= Len(ran) THEN ran[k] ELSE j
    BY <1>0, <1>9, <2>1 DEF RunJob
  <2>3. \A k \in 1..Len(ran') :
            ran'[k] = j \/ (k \in 1..Len(ran) /\ ran'[k] = ran[k])
    BY <1>0, <2>2
  <2>4. UNCHANGED <<mPromiseToWork, accepted>>
    BY <1>9 DEF RunJob, pool
  <2>5. /\ thread'[w].pc = "loop"
        /\ \A v \in Worker \ {w} : thread'[v] = thread[v]
    BY <1>0, <1>9 DEF RunJob, NextRound, ThreadState
  <2>6. \A v \in Worker \ {w} : mPromiseToWork[v].value # j
    BY <2>1 DEF Runs
  <2> QED BY <2>1, <2>3, <2>4, <2>5, <2>6 DEF Runs
<1> QED
  BY <1>1, <1>2, <1>3, <1>4, <1>5, <1>6, <1>7, <1>8, <1>9
  DEF Next, OwnerStep, ThreadStep

-----------------------------------------------------------------------------
(* The theorems *)

\* The strengthened invariant holds of every state of the constructor, addWork, the
\* workers' threads and the destructor.
THEOREM Inductive == Spec => []IInv
<1>1. IInv /\ [Next]_vars => IInv'
  BY TypePreserved, ClaimsPreserved, RunsPreserved DEF IInv
<1> QED BY InitIInv, <1>1, PTL DEF Spec

\* Every variable keeps its type; in particular mCurrentWorker never indexes
\* outside the vector of workers.
THEOREM TypeCorrect == Spec => []TypeOK
<1>1. IInv => TypeOK
  BY DEF IInv
<1> QED BY Inductive, <1>1, PTL

\* No call of addWork throws before every worker was given a job, for any
\* number of workers and of threads that call it.
THEOREM FirstRound == Spec => []FirstRoundSucceeds
<1>1. IInv => FirstRoundSucceeds
  BY DEF IInv
<1> QED BY Inductive, <1>1, PTL

\* A job whose call returned is in a promise, and stays there.
THEOREM NothingOverwritten == Spec => []JobsAccountedFor
<1>1. IInv => JobsAccountedFor
  BY DEF IInv
<1> QED BY Inductive, <1>1, PTL

\* The pool implements JobPool: what was accepted is run at most once.
THEOREM Implements == Spec => OnceEach
<1>1. Init => Pool!Init
  BY DEF Init, Pool!Init
<1>2. IInv /\ [Next]_vars => [Pool!Give \/ Pool!Run]_<<accepted, ran>>
  <2> SUFFICES ASSUME TypeOK, Claims, JobsAccountedFor, Runs, [Next]_vars
               PROVE  [Pool!Give \/ Pool!Run]_<<accepted, ran>>
    BY DEF IInv
  <2>1. ASSUME NEW c \in Callers, ProvideWork(c)
        PROVE  Pool!Give \/ UNCHANGED <<accepted, ran>>
    <3>1. caller[c].job \in Job \ accepted
      BY <2>1, PoolAssumption DEF ProvideWork, Claims, TypeOK, Job
    <3> QED BY <2>1, <3>1 DEF ProvideWork, Pool!Give
  <2>2. ASSUME NEW w \in Worker, RunJob(w) PROVE Pool!Run
    <3>1. thread[w].work = mPromiseToWork[w].value /\ thread[w].work \in accepted
      BY <2>2
      DEF RunJob, ThreadAt, Runs, TypeOK, ThreadState, Works, JobsAccountedFor
    <3>2. \A k \in 1..Len(ran) : ran[k] # thread[w].work
      BY <2>2, <3>1 DEF RunJob, ThreadAt, Runs
    <3> QED BY <2>2, <3>1, <3>2 DEF RunJob, Pool!Run
  <2>3. CASE /\ ~\E c \in Callers : ProvideWork(c)
             /\ ~\E w \in Worker : RunJob(w)
    BY <2>3
    DEF Next, ThreadStep, TestShutdown, GetFuture, GetWork, RunStop, OwnerStep,
        StartThread, StopWorker, FreeWorker, JoinThread, Destroy, AddWork, Crash,
        Over, vars, history
  <2> QED BY <2>1, <2>2, <2>3
<1> QED BY Inductive, <1>1, <1>2, PTL DEF Spec, OnceEach, Pool!Spec
=============================================================================

----------------------------- MODULE WorkerPool -----------------------------
(***************************************************************************)
(* workers::WorkerPool: the thread that constructs and destroys the pool,  *)
(* the threads that call addWork, and one thread per Worker, which waits   *)
(* for its job on the worker's one promise.                                *)
(***************************************************************************)
EXTENDS Integers, Sequences

CONSTANTS NbWorkers,   \* nbWorkers
          Callers,     \* threads that call addWork
          MaxJobs,     \* bound: calls of addWork
          StrayFlag    \* TRUE: the uninitialised mShutdown may hold true

ASSUME PoolAssumption ==
  NbWorkers \in Nat \ {0} /\ MaxJobs \in Nat /\ StrayFlag \in BOOLEAN

Worker == 0..NbWorkers - 1
Job == 1..MaxJobs
Stop == -1               \* the job ~Worker hands over
Empty == 0               \* no value set
Works == Job \union {Stop}

VARIABLES status,            \* "up", or "crashed": terminate, or freed memory
          live,              \* workers not deleted
          mShutdown,
          mPromiseToWork,    \* the value set and whether the future was taken
          thread,            \* where each worker's thread is, and its work
          mCurrentWorker,
          caller,            \* the call of addWork each caller is in
          owner,             \* the constructor and the destructor
          calls,             \* calls of addWork so far
          accepted, refused, \* history: jobs whose call returned, or threw
          ran                \* history: jobs run, in the order they began

pool == <<live, mPromiseToWork, mCurrentWorker>>
history == <<calls, accepted, refused, ran>>
vars == <<status, mShutdown, thread, caller, owner, pool, history>>

Promise == [value : Works \union {Empty}, retrieved : BOOLEAN]
ThreadState == [pc : {"none", "loop", "get", "wait", "run", "ended"},
                work : Works \union {Empty}]
CallState == [pc : {"idle", "provide"}, job : Job \union {Empty}, worker : Worker]
OwnerState == [pc : {"start", "open", "delete", "free", "join", "gone"},
               next : Worker]

TypeOK ==
  /\ status \in {"up", "crashed"}
  /\ live \in SUBSET Worker
  /\ mShutdown \in [Worker -> BOOLEAN]
  /\ mPromiseToWork \in [Worker -> Promise]
  /\ thread \in [Worker -> ThreadState]
  /\ mCurrentWorker \in Worker
  /\ caller \in [Callers -> CallState]
  /\ owner \in OwnerState
  /\ calls \in 0..MaxJobs
  /\ accepted \in SUBSET Job /\ refused \in SUBSET Job
  /\ ran \in Seq(Job)

Init ==
  /\ status = "up"
  /\ live = Worker
  /\ mShutdown \in [Worker -> IF StrayFlag THEN BOOLEAN ELSE {FALSE}]
  /\ mPromiseToWork = [w \in Worker |-> [value |-> Empty, retrieved |-> FALSE]]
  /\ thread = [w \in Worker |-> [pc |-> "none", work |-> Empty]]
  /\ mCurrentWorker \in Worker
  /\ caller = [c \in Callers |-> [pc |-> "idle", job |-> Empty, worker |-> 0]]
  /\ owner = [pc |-> "start", next |-> 0]
  /\ calls = 0
  /\ accepted = {} /\ refused = {} /\ ran = <<>>

Last == NbWorkers - 1

\* The loops of the constructor and the destructor go through the workers.
Onward(same, then) ==
  IF owner.next = Last THEN [pc |-> then, next |-> 0]
                       ELSE [pc |-> same, next |-> owner.next + 1]

-----------------------------------------------------------------------------
(* WorkerPool *)

OwnerAt(pc) == status = "up" /\ owner.pc = pc

\* Lines 14-17: the threads start, and the last step sets mCurrentWorker.
StartThread ==
  /\ OwnerAt("start")
  /\ thread' = [thread EXCEPT ![owner.next].pc = "loop"]
  /\ owner' = Onward("start", "open")
  /\ mCurrentWorker' = IF owner.next = Last THEN 0 ELSE mCurrentWorker
  /\ UNCHANGED <<status, mShutdown, live, mPromiseToWork, caller, history>>

\* addWork, under the mutex.
StuckAt(n) == n
Unbounded(n) == n + 1
NextWorker(n) == IF n + 1 >= NbWorkers THEN 0 ELSE n + 1
AddWork(c) ==
  /\ OwnerAt("open")
  /\ caller[c].pc = "idle" /\ calls < MaxJobs
  /\ calls' = calls + 1
  /\ caller' = [caller EXCEPT ![c] = [pc |-> "provide", job |-> calls + 1,
                                      worker |-> mCurrentWorker]]
  /\ mCurrentWorker' = NextWorker(mCurrentWorker)
  /\ UNCHANGED <<status, mShutdown, thread, owner, live, mPromiseToWork, accepted,
                 refused, ran>>

\* provideWork: a promise takes one value, and set_value throws the second time.
Satisfied(w) == mPromiseToWork[w].value # Empty
Swallows(w) == FALSE
Throws(w) == Satisfied(w)
ProvideWork(c) ==
  LET w == caller[c].worker
      j == caller[c].job
  IN /\ status = "up" /\ caller[c].pc = "provide"
     /\ IF Satisfied(w)
          THEN UNCHANGED mPromiseToWork
          ELSE mPromiseToWork' = [mPromiseToWork EXCEPT ![w].value = j]
     /\ IF Throws(w)
          THEN refused' = refused \union {j} /\ UNCHANGED accepted
          ELSE accepted' = accepted \union {j} /\ UNCHANGED refused
     /\ caller' = [caller EXCEPT ![c].pc = "idle"]
     /\ UNCHANGED <<status, mShutdown, thread, owner, live, mCurrentWorker, calls,
                    ran>>

\* ~WorkerPool begins when no call is under way, which is up to its owner.
Destroy ==
  /\ OwnerAt("open") /\ \A c \in Callers : caller[c].pc = "idle"
  /\ owner' = [pc |-> "delete", next |-> 0]
  /\ UNCHANGED <<status, mShutdown, thread, caller, pool, history>>

\* ~Worker hands over a last job, line 19; if the promise has a value it throws, see
\* CrashCause.
StopWorker ==
  /\ OwnerAt("delete") /\ ~Satisfied(owner.next)
  /\ mPromiseToWork' = [mPromiseToWork EXCEPT ![owner.next].value = Stop]
  /\ owner' = [owner EXCEPT !.pc = "free"]
  /\ UNCHANGED <<status, mShutdown, thread, caller, live, mCurrentWorker, history>>

\* The worker's memory goes, whatever its thread is doing.
FreeWorker ==
  /\ OwnerAt("free")
  /\ live' = live \ {owner.next}
  /\ owner' = Onward("delete", "join")
  /\ UNCHANGED <<status, mShutdown, thread, caller, mPromiseToWork,
                 mCurrentWorker, history>>

JoinedAgain == owner
Joined == Onward("join", "gone")
JoinThread ==
  /\ OwnerAt("join") /\ thread[owner.next].pc = "ended"
  /\ owner' = Joined
  /\ UNCHANGED <<status, mShutdown, thread, caller, pool, history>>

-----------------------------------------------------------------------------
(* threadEntryPoint *)

ThreadAt(w, pc) == status = "up" /\ thread[w].pc = pc

\* Line 23: of a deleted worker the thread reads what is left there.
FlagFlipped(w) == {~mShutdown[w]}
FlagRead(w) == IF w \in live THEN {mShutdown[w]} ELSE BOOLEAN
TestShutdown(w) ==
  /\ ThreadAt(w, "loop")
  /\ \E flag \in FlagRead(w) :
       thread' = [thread EXCEPT ![w].pc = IF flag THEN "ended" ELSE "get"]
  /\ UNCHANGED <<status, mShutdown, caller, owner, pool, history>>

\* get_future: the second time it throws, see CrashCause.
FutureTaken(w) == mPromiseToWork[w].retrieved
GetFuture(w) ==
  /\ ThreadAt(w, "get") /\ ~FutureTaken(w)
  /\ mPromiseToWork' = [mPromiseToWork EXCEPT ![w].retrieved = TRUE]
  /\ thread' = [thread EXCEPT ![w].pc = "wait"]
  /\ UNCHANGED <<status, mShutdown, caller, owner, live, mCurrentWorker, history>>

\* wait and get; the future keeps the value alive when the worker goes.
GetWork(w) ==
  /\ ThreadAt(w, "wait") /\ Satisfied(w)
  /\ thread' = [thread EXCEPT ![w] = [pc |-> "run",
                                      work |-> mPromiseToWork[w].value]]
  /\ UNCHANGED <<status, mShutdown, caller, owner, pool, history>>

JobRepeated == "run"
NextRound == "loop"
RunJob(w) ==
  /\ ThreadAt(w, "run") /\ thread[w].work # Stop
  /\ ran' = Append(ran, thread[w].work)
  /\ thread' = [thread EXCEPT ![w].pc = NextRound]
  /\ UNCHANGED <<status, mShutdown, caller, owner, pool, calls, accepted, refused>>

\* The job of ~Worker, which writes into the worker it comes from.
RunStop(w) ==
  /\ ThreadAt(w, "run") /\ thread[w].work = Stop
  /\ mShutdown' = [mShutdown EXCEPT ![w] = TRUE]
  /\ thread' = [thread EXCEPT ![w].pc = "loop"]
  /\ UNCHANGED <<status, caller, owner, pool, history>>

-----------------------------------------------------------------------------

\* An exception nobody catches (a future taken twice, a destructor that throws)
\* or the memory of a deleted worker.
CrashCause ==
  \/ owner.pc = "delete" /\ Satisfied(owner.next)
  \/ \E w \in Worker :
       \/ thread[w].pc = "get" /\ (FutureTaken(w) \/ w \notin live)
       \/ thread[w].pc = "loop" /\ w \notin live
       \/ thread[w].pc = "run" /\ thread[w].work = Stop /\ w \notin live

Crash ==
  /\ status = "up" /\ CrashCause
  /\ status' = "crashed"
  /\ UNCHANGED <<mShutdown, thread, caller, owner, pool, history>>

ThreadStep(w) == \/ TestShutdown(w) \/ GetFuture(w) \/ GetWork(w)
                 \/ RunJob(w) \/ RunStop(w)

OwnerStep == StartThread \/ StopWorker \/ FreeWorker \/ JoinThread

Over == (status = "crashed" \/ owner.pc = "gone") /\ UNCHANGED vars

Next == \/ \E w \in Worker : ThreadStep(w)
        \/ OwnerStep \/ Destroy
        \/ \E c \in Callers : AddWork(c) \/ ProvideWork(c)
        \/ Crash \/ Over

\* Every thread is scheduled, and an exception nobody catches ends the process.
\* Nobody has to call addWork or destroy the pool.
Fairness == /\ \A w \in Worker : WF_vars(ThreadStep(w))
            /\ \A c \in Callers : WF_vars(ProvideWork(c))
            /\ WF_vars(OwnerStep) /\ WF_vars(Crash)

Spec == Init /\ [][Next]_vars /\ Fairness

-----------------------------------------------------------------------------
(* Properties *)

\* A job whose call returned is run at most once, and nothing else is run,
\* although the worker's thread comes back for its future and the value is
\* still there (Worker.cpp:23-28).
Pool == INSTANCE JobPool WITH given <- accepted, done <- ran
OnceEach == Pool!Spec

\* Jobs claimed by different threads go to different workers as long as there
\* are any: no call throws before every worker was given a job, in whatever
\* order the calls leave the mutex (WorkerPool.cpp:33-37).
FirstRoundSucceeds == refused # {} => calls > NbWorkers

\* A call that returned has its job in a promise, also when another caller, or
\* the destructor, sets the same promise (Worker.cpp:19, 33).
JobsAccountedFor ==
  accepted = {mPromiseToWork[w].value : w \in Worker} \cap Job

\* A job handed over is run, unless the process dies first or the worker's flag
\* was never false (Worker.cpp:9, 23-28).
AcceptedIsRun ==
  \A w \in Worker, j \in Job :
    mPromiseToWork[w].value = j /\ ~mShutdown[w] ~>
      status = "crashed" \/ \E k \in 1..Len(ran) : ran[k] = j

\* The destructor does not wait for ever: every thread gets its last job or the
\* process ends (Worker.cpp:13-20, WorkerPool.cpp:21-28).
DestructorReturns == owner.pc = "delete" ~> owner.pc = "gone" \/ status = "crashed"

\* What makes FirstRoundSucceeds and JobsAccountedFor inductive: who holds which
\* of the jobs claimed so far.
Claims ==
  /\ owner.pc = "start" => calls = 0
  /\ owner.pc # "start" /\ calls <= NbWorkers =>
       mCurrentWorker = IF calls = NbWorkers THEN 0 ELSE calls
  /\ accepted \union refused \subseteq 1..calls
  /\ \A c \in Callers : caller[c].pc = "provide" =>
       /\ owner.pc = "open"
       /\ caller[c].job \in (1..calls) \ (accepted \union refused)
       /\ caller[c].job <= NbWorkers => caller[c].worker = caller[c].job - 1
       /\ \A d \in Callers : caller[d].pc = "provide" /\ d # c =>
            caller[d].job # caller[c].job
  /\ \A w \in Worker :
       /\ mPromiseToWork[w].value = Stop => owner.pc \notin {"start", "open"}
       /\ mPromiseToWork[w].value \in 1..NbWorkers =>
            w = mPromiseToWork[w].value - 1

\* What makes OnceEach hold: a worker's value is taken once.
Runs ==
  /\ \A v, w \in Worker : mPromiseToWork[v].value = mPromiseToWork[w].value
                           /\ mPromiseToWork[w].value \in Job => v = w
  /\ \A w \in Worker :
       /\ thread[w].pc \in {"wait", "run"} =>
            /\ mPromiseToWork[w].retrieved
            /\ \A k \in 1..Len(ran) : ran[k] # mPromiseToWork[w].value
       /\ thread[w].pc = "run" => thread[w].work = mPromiseToWork[w].value
                                 /\ thread[w].work # Empty
       /\ ~mPromiseToWork[w].retrieved =>
            \A k \in 1..Len(ran) : ran[k] # mPromiseToWork[w].value
  /\ \A k \in 1..Len(ran) : ran[k] \in accepted

IInv == TypeOK /\ Claims /\ JobsAccountedFor /\ FirstRoundSucceeds /\ Runs
=============================================================================

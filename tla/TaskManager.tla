---------------------------- MODULE TaskManager ----------------------------
(***************************************************************************)
(* The experimental task manager: runners with a queue of their own, a     *)
(* pool of worker runners fed from one queue, and the threads that post.   *)
(*                                                                         *)
(* A std::priority_queue<Task> is modelled by the tasks in it (queue), by  *)
(* the task that lies in the first slot of its storage (slot) and by the   *)
(* capacity of that storage (cap).  top() is a pointer to the first slot.  *)
(* The slot keeps its bytes when its task is popped as the last one.  The  *)
(* capacity only grows, by reallocation, so it also names the storage: a   *)
(* pointer is the capacity it was taken at, and it dangles once cap has    *)
(* another value.  A step that uses a dangling pointer, frees storage it   *)
(* does not own or pops from an empty queue sets undefined, and the model  *)
(* says nothing of what follows.                                           *)
(***************************************************************************)
EXTENDS Integers, FiniteSets

CONSTANTS
  Names,      \* the names of the runners with a queue of their own
  Main,       \* the one of them that took over the main thread
  InitTask,   \* its first task
  Posters,    \* the threads that post
  PoolTasks,  \* the tasks they post to the pool
  HomeOf,     \* the runner each other task is posted to
  Priorities, \* the priorities a task may have, High = 0 first
  Programs,   \* the pool size a program asks for, and the tasks it posts
  Hardware    \* std::thread::hardware_concurrency()

ASSUME NamesAssumption ==
  /\ Main \in Names /\ "pool" \notin Names
  /\ Names \cap (0 .. Hardware - 1) = {}
  /\ Posters \cap (Names \cup (0 .. Hardware - 1)) = {}
ASSUME HomeAssumption ==
  /\ DOMAIN HomeOf \cap PoolTasks = {} /\ \A t \in DOMAIN HomeOf : HomeOf[t] \in Names
  /\ InitTask \in DOMAIN HomeOf /\ HomeOf[InitTask] = Main
ASSUME ProgramAssumption ==
  Programs \subseteq [asked : Int, load : SUBSET ((DOMAIN HomeOf \cup PoolTasks) \ {InitTask})]
ASSUME SizeAssumption == Priorities \subseteq Nat /\ Hardware \in Nat

VARIABLES
  prio,      \* Task::taskPriority
  size,      \* the number of pool threads; 0: threadPool was never set
  queue,     \* the tasks in each priority_queue
  slot,      \* the task in the first slot of its storage
  cap,       \* its capacity
  completed, \* the tasks whose copy has isComplete set
  runnerPc,  \* where a runner's thread is in StartTaskRunner
  pending,   \* Runner::pendingTask, 0 for nullptr
  inUse,     \* Runner::inUse
  postPc,    \* where a poster is
  postTask,  \* the task it posts
  target,    \* the runner it posts to or has picked
  held,      \* its local t in ExecuteTasks; for a runner, the this of Invoke
  load,      \* the tasks this program posts
  posted,    \* the tasks some call has posted
  undefined, \* the program has undefined behaviour behind it
  runs,      \* history: how often each task's function was called
  overtaken, \* history: queues in which a push moved a running task from the top
  missed     \* history: runners signalled between their last look and their sleep

vars == <<prio, size, queue, slot, cap, completed, runnerPc, pending, inUse, postPc,
          postTask, target, held, load, posted, undefined, runs, overtaken,
          missed>>
queueVars == <<queue, slot, cap, completed>>
runnerVars == <<runnerPc, pending, inUse, missed>>
posterVars == <<postPc, postTask, target, posted>>

Tasks == DOMAIN HomeOf \cup PoolTasks
Workers == 0 .. Hardware - 1
Runners == Names \cup Workers
Queues == Names \cup {"pool"}
QueueOf(r) == IF r \in Names THEN r ELSE "pool"
Null == 0
Many == 2   \* runs counts no further

-----------------------------------------------------------------------------
(* A bug: the comparison is signed and -1 has no meaning.                    *)
PoolSizeSigned(asked) == IF asked > Hardware THEN Hardware ELSE asked

(* The comparison with hardware_concurrency() is unsigned: every negative  *)
(* size is larger than it.                                                 *)
PoolSize(asked) == IF asked < 0 \/ asked > Hardware THEN Hardware ELSE asked

(* The pool has a runner and a thread of its own for each number.           *)
ThreadPool == 0 .. size - 1

(* The overload of Bind for void methods with arguments leaves taskPriority *)
(* unset, so a task may have any priority.                                  *)
Bind == prio \in [load \cup {InitTask} -> Priorities]

(* CreateRunnerOnNewThread does not post its initTask anywhere.             *)
CreateRunnerOnNewThread(q) == IF q = Main THEN {InitTask} ELSE {}

(* A thread other than the main one exists and has not reached ThreadMain.  *)
CreateThread(r) == IF r = Main THEN "look" ELSE "created"

(* The pool and the runners exist, their threads have been created, and the *)
(* main thread has entered its runner with InitTask in the queue.           *)
Init ==
  /\ \E program \in Programs : size = PoolSize(program.asked) /\ load = program.load
  /\ Bind
  /\ queue = [q \in Queues |-> CreateRunnerOnNewThread(q)]
  /\ slot = [q \in Queues |-> InitTask]
  /\ cap = [q \in Queues |-> IF q = Main THEN 1 ELSE 0]
  /\ completed = {}
  /\ runnerPc = [r \in Runners |-> CreateThread(r)]
  /\ pending = [w \in Workers |-> Null]
  /\ inUse = [w \in Workers |-> FALSE]
  /\ postPc = [p \in Posters |-> "idle"]
  /\ postTask = [p \in Posters |-> InitTask]
  /\ target = [p \in Posters |-> Main]
  /\ held = [x \in Posters \cup Runners |-> Null]
  /\ posted = {InitTask}
  /\ undefined = FALSE
  /\ runs = [t \in Tasks |-> 0]
  /\ overtaken = {}
  /\ missed = {}

(* push: strictly more urgent tasks pass the top.                           *)
Push(q, t) ==
  /\ queue' = [queue EXCEPT ![q] = @ \cup {t}]
  /\ slot' = [slot EXCEPT ![q] = IF queue[q] = {} \/ prio[t] < prio[@] THEN t ELSE @]
  /\ cap' = [cap EXCEPT ![q] = IF Cardinality(queue[q]) < @ THEN @
                               ELSE IF @ = 0 THEN 1 ELSE 2 * @]
  /\ UNCHANGED completed

(* pop: a most urgent one of the others moves to the first slot; of equals  *)
(* any may.                                                                 *)
Pop(q) ==
  LET rest == queue[q] \ {slot[q]} IN
  /\ queue' = [queue EXCEPT ![q] = rest]
  /\ IF rest = {} THEN UNCHANGED slot
     ELSE \E t \in rest : /\ \A u \in rest : prio[t] <= prio[u]
                          /\ slot' = [slot EXCEPT ![q] = t]
  /\ UNCHANGED <<cap, completed>>

(* A condition variable without a predicate: a signal reaches a thread that *)
(* waits and is lost on any other.                                          *)
Signal(r) ==
  /\ runnerPc' = [runnerPc EXCEPT ![r] = IF @ = "waiting" THEN "look" ELSE @]
  /\ missed' = IF runnerPc[r] = "sleepy" THEN missed \cup {r}
               ELSE IF runnerPc[r] = "waiting" THEN missed \ {r} ELSE missed
  /\ UNCHANGED <<pending, inUse>>

Fail ==
  /\ undefined' = TRUE
  /\ UNCHANGED <<queueVars, runnerVars, held, overtaken, runs>>

-----------------------------------------------------------------------------
(* Posting to a runner's own queue: the push takes no lock.                 *)

(* A poster enters queue->push.  The names it posts to are those of existing *)
(* runners: runners.at throws for any other before anything changes.         *)
PostNonThreadPoolTask(p, t) ==
  /\ postPc[p] = "idle" /\ t \in (load \cap DOMAIN HomeOf) \ posted
  /\ posted' = posted \cup {t}
  /\ postPc' = [postPc EXCEPT ![p] = "pushing"]
  /\ postTask' = [postTask EXCEPT ![p] = t]
  /\ target' = [target EXCEPT ![p] = HomeOf[t]]
  /\ UNCHANGED <<queueVars, runnerVars, held, undefined, runs, overtaken>>

(* Another push of the same queue is under way: both write the same vector. *)
PushesCollide(p) ==
  \E o \in Posters \ {p} : postPc[o] = "pushing" /\ target[o] = target[p]

(* The push returns.                                                        *)
RunnerPostTask(p) ==
  LET q == target[p] IN
  /\ postPc[p] = "pushing"
  /\ postPc' = [postPc EXCEPT ![p] = "signal"]
  /\ UNCHANGED <<postTask, target, posted>>
  /\ \/ PushesCollide(p) /\ Fail
     \/ /\ ~PushesCollide(p)
        /\ Push(q, postTask[p])
        /\ overtaken' = IF runnerPc[q] \in {"invoking", "pop"} /\ slot'[q] # slot[q]
                        THEN overtaken \cup {q} ELSE overtaken
        /\ UNCHANGED <<runnerVars, held, undefined, runs>>

(* A call returns: the poster's locals are gone.                            *)
Return(p) ==
  /\ postPc' = [postPc EXCEPT ![p] = "idle"]
  /\ postTask' = [postTask EXCEPT ![p] = InitTask]
  /\ target' = [target EXCEPT ![p] = Main]
  /\ held' = [held EXCEPT ![p] = Null]

RunnerSignal(p) ==
  /\ postPc[p] = "signal"
  /\ Signal(target[p]) /\ Return(p)
  /\ UNCHANGED <<queueVars, posted, undefined, runs, overtaken>>

-----------------------------------------------------------------------------
(* Posting to the pool: the poster itself hands tasks out until the queue   *)
(* is empty.                                                                *)

(* Without a pool, threadPool is not a pointer to anything.                 *)
PostThreadPoolTask(p, t) ==
  /\ postPc[p] = "idle" /\ t \in (load \cap PoolTasks) \ posted
  /\ posted' = posted \cup {t}
  /\ postPc' = [postPc EXCEPT ![p] = "exec"]
  /\ UNCHANGED <<postTask, target>>
  /\ \/ size = 0 /\ Fail
     \/ /\ size > 0 /\ Push("pool", t)
        /\ UNCHANGED <<runnerVars, held, undefined, runs, overtaken>>

Unused == {w \in ThreadPool : ~inUse[w]}

(* One round of the loop of ExecuteTasks: done, nobody free, or the first   *)
(* free worker is picked.                                                   *)
GetUnusedThread(p) ==
  /\ postPc[p] = "exec"
  /\ \/ queue["pool"] = {} /\ Return(p)
     \/ /\ queue["pool"] # {} /\ Unused # {}
        /\ target' = [target EXCEPT ![p] = CHOOSE w \in Unused : \A v \in Unused : w <= v]
        /\ postPc' = [postPc EXCEPT ![p] = "top"]
        /\ UNCHANGED <<postTask, held>>
  /\ UNCHANGED <<queueVars, runnerVars, posted, undefined, runs, overtaken>>

(* t = &queue->top() under the lock, and the test of its isComplete.        *)
TakeTop(p) ==
  /\ postPc[p] = "top"
  /\ UNCHANGED <<queueVars, runnerPc, pending, missed, postTask, target, posted, runs, overtaken>>
  /\ \/ /\ queue["pool"] = {}
        /\ undefined' = TRUE /\ UNCHANGED <<postPc, inUse, held>>
     \/ /\ queue["pool"] # {}
        /\ held' = [held EXCEPT ![p] = cap["pool"]]
        /\ \/ slot["pool"] \in completed
              /\ postPc' = [postPc EXCEPT ![p] = "queuepop"] /\ UNCHANGED inUse
           \/ slot["pool"] \notin completed
              /\ postPc' = [postPc EXCEPT ![p] = "reset"]
              /\ inUse' = [inUse EXCEPT ![target[p]] = TRUE]
        /\ UNCHANGED undefined

(* pendingTask.reset(t) deletes what it held, which is storage of the queue. *)
PoolPostTask(p) ==
  /\ postPc[p] = "reset"
  /\ postPc' = [postPc EXCEPT ![p] = "poolsignal"]
  /\ UNCHANGED <<postTask, target, posted>>
  /\ \/ pending[target[p]] # Null /\ Fail
     \/ /\ pending[target[p]] = Null
        /\ pending' = [pending EXCEPT ![target[p]] = held[p]]
        /\ UNCHANGED <<queueVars, runnerPc, inUse, missed, held, undefined, runs, overtaken>>

PoolSignal(p) ==
  /\ postPc[p] = "poolsignal"
  /\ Signal(target[p])
  /\ postPc' = [postPc EXCEPT ![p] = "queuepop"]
  /\ UNCHANGED <<queueVars, postTask, target, posted, held, undefined, runs, overtaken>>

QueuePop(p) ==
  /\ postPc[p] = "queuepop"
  /\ postPc' = [postPc EXCEPT ![p] = "exec"]
  /\ UNCHANGED <<postTask, target, posted>>
  /\ \/ queue["pool"] = {} /\ Fail
     \/ /\ queue["pool"] # {} /\ Pop("pool")
        /\ UNCHANGED <<runnerVars, held, undefined, runs, overtaken>>

-----------------------------------------------------------------------------
(* The runners.                                                             *)

Goto(r, pc) == runnerPc' = [runnerPc EXCEPT ![r] = pc]

ThreadMain(r) ==
  /\ runnerPc[r] = "created" /\ r \in Names \cup ThreadPool
  /\ Goto(r, "look")
  /\ UNCHANGED <<queueVars, pending, inUse, missed, held, undefined, runs, overtaken>>

(* Task::Invoke calls the function of whatever task lies at the pointer.    *)
BeginInvoke(r, pointer) ==
  \/ pointer # cap[QueueOf(r)] /\ Fail
  \/ /\ pointer = cap[QueueOf(r)]
     /\ held' = [held EXCEPT ![r] = pointer]
     /\ runs' = [runs EXCEPT ![slot[QueueOf(r)]] = IF @ < Many THEN @ + 1 ELSE @]
     /\ Goto(r, "invoking")
     /\ UNCHANGED <<queueVars, pending, inUse, missed, undefined, overtaken>>

(* A thread is inside push for the queue of r.                              *)
PushUnderWay(r) == \E p \in Posters : postPc[p] = "pushing" /\ target[p] = r

(* size() and top() are read without a lock: a push under way may or may    *)
(* not disturb them.                                                        *)
ExecuteRegularTask(r) ==
  /\ r \in Names /\ runnerPc[r] = "look"
  /\ \/ PushUnderWay(r) /\ Fail
     \/ /\ queue[r] # {} /\ slot[r] \notin completed
        /\ BeginInvoke(r, cap[r])
     \/ /\ queue[r] = {} \/ slot[r] \in completed
        /\ Goto(r, IF queue[r] = {} THEN "test" ELSE "pop")
        /\ UNCHANGED <<queueVars, pending, inUse, missed, held, undefined, runs, overtaken>>

ExecuteThreadPoolTask(r) ==
  /\ r \in Workers /\ runnerPc[r] = "look"
  /\ \/ pending[r] # Null /\ BeginInvoke(r, pending[r])
     \/ /\ pending[r] = Null /\ Goto(r, "sleepy")
        /\ UNCHANGED <<queueVars, pending, inUse, missed, held, undefined, runs, overtaken>>

(* A bug: the task is marked, and its pop forgotten.                        *)
InvokeReturnsUnpopped(r) ==
  /\ runnerPc[r] = "invoking" /\ held[r] = cap[QueueOf(r)]
  /\ completed' = completed \cup {slot[QueueOf(r)]}
  /\ inUse' = [w \in Workers |-> IF w = r THEN FALSE ELSE inUse[w]]
  /\ held' = [held EXCEPT ![r] = Null]
  /\ Goto(r, IF r \in Names THEN "test" ELSE "sleepy")
  /\ UNCHANGED <<queue, slot, cap, pending, missed, undefined, runs, overtaken>>

(* isComplete = true is written through this, wherever that points by now.  *)
InvokeReturns(r) ==
  /\ runnerPc[r] = "invoking"
  /\ \/ held[r] # cap[QueueOf(r)] /\ Fail
     \/ /\ held[r] = cap[QueueOf(r)]
        /\ completed' = completed \cup {slot[QueueOf(r)]}
        /\ inUse' = [w \in Workers |-> IF w = r THEN FALSE ELSE inUse[w]]
        /\ Goto(r, IF r \in Names THEN "pop" ELSE "sleepy")
        /\ held' = [held EXCEPT ![r] = Null]
        /\ UNCHANGED <<queue, slot, cap, pending, missed, undefined, runs, overtaken>>

(* queue->pop(), without a lock: a push may be under way.                   *)
PopTask(r) ==
  /\ runnerPc[r] = "pop"
  /\ \/ PushUnderWay(r) /\ Fail
     \/ /\ ~PushUnderWay(r)
        /\ Pop(r) /\ Goto(r, "test")
        /\ UNCHANGED <<pending, inUse, missed, held, undefined, runs, overtaken>>

(* A bug: the runner sleeps after every task.                               *)
TestNothing(r) ==
  /\ runnerPc[r] = "test" /\ Goto(r, "sleepy")
  /\ UNCHANGED <<queueVars, pending, inUse, missed, held, undefined, runs, overtaken>>

(* if (queue->empty()) newTaskSignal->Wait(), up to the call of Wait.       *)
TestEmpty(r) ==
  /\ runnerPc[r] = "test"
  /\ Goto(r, IF queue[r] = {} THEN "sleepy" ELSE "look")
  /\ UNCHANGED <<queueVars, pending, inUse, missed, held, undefined, runs, overtaken>>

Wait(r) ==
  /\ runnerPc[r] = "sleepy" /\ Goto(r, "waiting")
  /\ UNCHANGED <<queueVars, pending, inUse, missed, held, undefined, runs, overtaken>>

(* pthread_cond_wait may return without a signal.                           *)
SpuriousWake(r) ==
  /\ runnerPc[r] = "waiting" /\ Goto(r, "look")
  /\ missed' = missed \ {r}
  /\ UNCHANGED <<queueVars, pending, inUse, held, undefined, runs, overtaken>>

-----------------------------------------------------------------------------
PosterStep(p) ==
  /\ ~undefined /\ UNCHANGED <<prio, size, load>>
  /\ \/ \E t \in Tasks : PostNonThreadPoolTask(p, t) \/ PostThreadPoolTask(p, t)
     \/ RunnerPostTask(p) \/ RunnerSignal(p)
     \/ GetUnusedThread(p) \/ TakeTop(p) \/ PoolPostTask(p) \/ PoolSignal(p) \/ QueuePop(p)

StartTaskRunner(r) ==
  /\ ~undefined /\ UNCHANGED <<prio, size, load, posterVars>>
  /\ \/ ThreadMain(r) \/ ExecuteRegularTask(r) \/ ExecuteThreadPoolTask(r)
     \/ InvokeReturns(r) \/ PopTask(r) \/ TestEmpty(r) \/ Wait(r)

Wake(r) == ~undefined /\ SpuriousWake(r) /\ UNCHANGED <<prio, size, load, posterVars>>

Next ==
  \/ \E p \in Posters : PosterStep(p)
  \/ \E r \in Runners : StartTaskRunner(r) \/ Wake(r)

(* Every thread keeps running; nothing makes a thread post, and nothing     *)
(* makes a wait return without a signal.                                    *)
Spec ==
  /\ Init /\ [][Next]_vars
  /\ \A p \in Posters : WF_vars(postPc[p] # "idle" /\ PosterStep(p))
  /\ \A r \in Runners : WF_vars(StartTaskRunner(r))
-----------------------------------------------------------------------------
(* Type correctness.                                                        *)
TypeOK ==
  /\ prio \in [load \cup {InitTask} -> Priorities] /\ size \in 0 .. Hardware
  /\ queue \in [Queues -> SUBSET Tasks] /\ slot \in [Queues -> Tasks]
  /\ cap \in [Queues -> Nat] /\ completed \subseteq Tasks
  /\ runnerPc \in [Runners -> {"created", "look", "invoking", "pop", "test", "sleepy", "waiting"}]
  /\ pending \in [Workers -> Nat] /\ inUse \in [Workers -> BOOLEAN]
  /\ postPc \in [Posters -> {"idle", "pushing", "signal", "exec", "top", "reset",
                              "poolsignal", "queuepop"}]
  /\ postTask \in [Posters -> Tasks] /\ target \in [Posters -> Runners]
  /\ held \in [Posters \cup Runners -> Nat] /\ posted \subseteq Tasks
  /\ undefined \in BOOLEAN /\ runs \in [Tasks -> Nat]
  /\ load \subseteq Tasks /\ overtaken \subseteq Queues /\ missed \subseteq Runners

(* ExecuteRegularTask invokes the top and pops the top, between which any   *)
(* thread may push.  Unless a more urgent task took the top in between, a   *)
(* runner with its own queue calls every task it was posted exactly once:   *)
(* no task is popped uncalled, none is called and left in the queue.        *)
ExactUnlessOvertaken ==
  \A t \in DOMAIN HomeOf \cap posted :
    LET q == HomeOf[t]
        begun == runnerPc[q] \in {"invoking", "pop"} /\ slot[q] = t
        onTheWay == \E p \in Posters : postPc[p] = "pushing" /\ postTask[p] = t
    IN undefined \/ q \in overtaken
         \/ runs[t] = IF onTheWay \/ (t \in queue[q] /\ ~begun) THEN 0 ELSE 1

(* Wait has no predicate and Signal leaves no trace, so the order of look,  *)
(* sleep, hand-over and signal decides whether a runner gets up again.  A   *)
(* runner that sleeps while a task waits for it is about to be signalled,   *)
(* or its signal came after its last look at its work and before its sleep. *)
SleepsOnWorkOnlyIfMissed ==
  \A r \in Runners :
    /\ ~undefined
    /\ runnerPc[r] = "waiting"
    /\ IF r \in Names THEN queue[r] # {} ELSE inUse[r]
    => \/ r \in missed
       \/ \E p \in Posters : target[p] = r /\ postPc[p] \in {"signal", "reset", "poolsignal"}

(* "Posts a task for execution and doesn't care what thread it executes on" *)
(* (TaskManager.h): a task posted to the pool is called some day.           *)
PoolTasksRun == \A t \in PoolTasks : t \in posted ~> (undefined \/ runs[t] > 0)
=============================================================================

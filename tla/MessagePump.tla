---------------------------- MODULE MessagePump ----------------------------
(***************************************************************************)
(* The "Main" task runner of the server: the epoll message pump            *)
(* (MessagePumpEPoll), the threads that post tasks to it, and the start-up *)
(* sequence that creates them.                                             *)
(*                                                                         *)
(* A post is two steps: the task is pushed on a priority queue under       *)
(* queueGuard, then one byte is written to a non-blocking pipe whose read  *)
(* end is watched edge-triggered.  The pump sleeps in epoll_wait, takes    *)
(* ONE byte per wake, then drains the whole queue, running every task with *)
(* queueGuard held.  The gRPC handler threads, the only posters, are       *)
(* started by the init task, which the pump posts to itself.               *)
(*                                                                         *)
(* Not modelled: message filters (no code registers one, so `handlers` is  *)
(* empty and the scan of events[] calls nothing) and failures of pipe,     *)
(* fcntl or epoll_create at start-up, which the code only logs.            *)
(***************************************************************************)
EXTENDS Integers, FiniteSets

CONSTANTS Posters,        \* the handler threads that post tasks
          Tasks,          \* the Task objects they post, the init task included
          InitTask,       \* AppBase's TaskRunnerInitComplete
          NoArgTasks,     \* tasks built with NEW_TASK0: nobody waits for them
          Priorities,     \* the values an int field nobody wrote may hold
          PipeCapacity,   \* bytes the pipe holds before write() says EAGAIN
          NoTask

LOW == 2                  \* TaskPriority::LOW

ASSUME TaskAssumption ==
    /\ NoTask \notin Tasks
    /\ InitTask \in NoArgTasks
    /\ NoArgTasks \subseteq Tasks

ASSUME PriorityAssumption == Priorities \subseteq Int /\ LOW \in Priorities

ASSUME CapacityAssumption == PipeCapacity \in Nat \ {0}

VARIABLES startComplete,  \* the loop has started
          taskQueue,      \* the tasks in the priority queue
          taskPriority,   \* each Task's priority field
          bytes,          \* bytes in the pipe
          edge,           \* epoll has an edge to report for the pipe's read end
          pumpPc,         \* where the pump thread is
          running,        \* the task the pump is invoking
          done,           \* the tasks invoked to the end
          handlersUp,     \* the handler threads exist
          postPc,         \* where each poster is
          postTask        \* the task each poster is posting, or waits for

queueVars == <<taskQueue, taskPriority>>
pipeVars  == <<bytes, edge>>
pumpVars  == <<pumpPc, running, done, handlersUp>>
postVars  == <<postPc, postTask>>
vars == <<startComplete, queueVars, pipeVars, pumpVars, postVars>>

\* The pump holds queueGuard from the lock before the drain to the unlock after it.
QueueGuardHeld == pumpPc \in {"drain", "invoke"}

InFlight == {postTask[p] : p \in Posters} \cup taskQueue \cup done \cup {running}

\* The task Bind overload for void(void*) never stores its priority argument:
\* a task with arguments keeps whatever the allocation held.
Bind == {f \in [Tasks -> Priorities] : \A t \in NoArgTasks : f[t] = LOW}

\* A wrong start-up order: the gRPC server is started before the pump's loop.
InitServerFirst ==
    /\ startComplete = FALSE
    /\ taskQueue = {}
    /\ taskPriority \in Bind
    /\ bytes = 0 /\ edge = FALSE
    /\ pumpPc = "make" /\ running = NoTask /\ done = {}
    /\ handlersUp = TRUE
    /\ postPc = [p \in Posters |-> "idle"]
    /\ postTask = [p \in Posters |-> NoTask]

Init ==
    /\ startComplete = FALSE
    /\ taskQueue = {}
    /\ taskPriority \in Bind
    /\ bytes = 0 /\ edge = FALSE
    /\ pumpPc = "make" /\ running = NoTask /\ done = {}
    /\ handlersUp = FALSE
    /\ postPc = [p \in Posters |-> "idle"]
    /\ postTask = [p \in Posters |-> NoTask]

---------------------------------------------------------------------------
(* The pipe, and epoll's edge on it.                                       *)

\* A pipe that reports only the step from empty to not empty.
WriteWakesWhenEmpty ==
    /\ edge' = (edge \/ bytes = 0)
    /\ bytes' = IF bytes < PipeCapacity THEN bytes + 1 ELSE bytes

\* A pipe without a limit.
WriteUnbounded == edge' = TRUE /\ bytes' = bytes + 1

\* write(fds[1], "\n", 1).  Every byte that arrives raises the edge, as epoll(7) has it,
\* also when others are still in the pipe; a full pipe refuses the byte (EAGAIN, which
\* the code only logs) and raises nothing.
WriteByte ==
    IF bytes < PipeCapacity
      THEN bytes' = bytes + 1 /\ edge' = TRUE
      ELSE UNCHANGED pipeVars

---------------------------------------------------------------------------
(* The pump thread.                                                        *)

\* MakeMessagePump: create the pipe and the epoll descriptor, enter the loop.
MakeMessagePump ==
    /\ pumpPc = "make"
    /\ pumpPc' = "start"
    /\ UNCHANGED <<startComplete, queueVars, pipeVars, running, done, handlersUp, postVars>>

\* Announce the start.  Signal releases one of the threads blocked in Wait.
StartMessageLoop ==
    /\ pumpPc = "start"
    /\ startComplete' = TRUE
    /\ pumpPc' = "post"
    /\ LET blocked == {p \in Posters : postPc[p] = "blocked"}
       IN  IF blocked = {} THEN UNCHANGED postPc
           ELSE \E p \in blocked : postPc' = [postPc EXCEPT ![p] = "push"]
    /\ UNCHANGED <<queueVars, pipeVars, running, done, handlersUp, postTask>>

\* The pump posts the init task to itself: push, then write.
PostInitTask ==
    /\ pumpPc = "post" /\ startComplete
    /\ taskQueue' = taskQueue \cup {InitTask}
    /\ pumpPc' = "write"
    /\ UNCHANGED <<startComplete, taskPriority, pipeVars, running, done, handlersUp, postVars>>

WriteInitByte ==
    /\ pumpPc = "write"
    /\ WriteByte
    /\ pumpPc' = "epoll"
    /\ UNCHANGED <<startComplete, queueVars, running, done, handlersUp, postVars>>

EpollWait ==
    /\ pumpPc = "epoll" /\ edge
    /\ edge' = FALSE
    /\ pumpPc' = "read"
    /\ UNCHANGED <<startComplete, queueVars, bytes, running, done, handlersUp, postVars>>

\* A pump that empties the pipe on every wake.
ReadWholePipe ==
    /\ pumpPc = "read"
    /\ bytes' = 0
    /\ pumpPc' = "lock"
    /\ UNCHANGED <<startComplete, queueVars, edge, running, done, handlersUp, postVars>>

\* A pump that does not read the pipe.
ReadNothing ==
    /\ pumpPc = "read"
    /\ pumpPc' = "lock"
    /\ UNCHANGED <<startComplete, queueVars, pipeVars, running, done, handlersUp, postVars>>

\* read(fds[0], ..., 1): one byte, however many are there; -1 on an empty pipe.
ReadPipe ==
    /\ pumpPc = "read"
    /\ bytes' = IF bytes > 0 THEN bytes - 1 ELSE bytes
    /\ pumpPc' = "lock"
    /\ UNCHANGED <<startComplete, queueVars, edge, running, done, handlersUp, postVars>>

\* No poster keeps queueGuard across a step, so the lock is free here.
LockQueue ==
    /\ pumpPc = "lock"
    /\ pumpPc' = "drain"
    /\ UNCHANGED <<startComplete, queueVars, pipeVars, running, done, handlersUp, postVars>>

\* A comparator the wrong way round: the least urgent task is on top.
TopLeastUrgent(t) == \A u \in taskQueue : taskPriority[t] >= taskPriority[u]

\* taskQueue.top() under PriorityComparer: no task has a smaller priority value.
Top(t) == \A u \in taskQueue : taskPriority[t] <= taskPriority[u]

\* The body of the init task starts the gRPC server, and with it the handler threads.
AppMain(t) == handlersUp' = (handlersUp \/ t = InitTask)

\* pop and Invoke.
PopTask ==
    /\ pumpPc = "drain"
    /\ \E t \in taskQueue :
          /\ Top(t)
          /\ taskQueue' = taskQueue \ {t}
          /\ running' = t
          /\ AppMain(t)
    /\ pumpPc' = "invoke"
    /\ UNCHANGED <<startComplete, taskPriority, pipeVars, done, postVars>>

InvokeReturns ==
    /\ pumpPc = "invoke"
    /\ done' = done \cup {running}
    /\ running' = NoTask
    /\ pumpPc' = "drain"
    /\ UNCHANGED <<startComplete, queueVars, pipeVars, handlersUp, postVars>>

\* A pump that runs one task per wake (an `if` for the `while`).
UnlockAfterOne ==
    /\ pumpPc = "drain"
    /\ pumpPc' = "epoll"
    /\ UNCHANGED <<startComplete, queueVars, pipeVars, running, done, handlersUp, postVars>>

UnlockQueue ==
    /\ pumpPc = "drain" /\ taskQueue = {}
    /\ pumpPc' = "epoll"
    /\ UNCHANGED <<startComplete, queueVars, pipeVars, running, done, handlersUp, postVars>>

Pump ==
    \/ MakeMessagePump \/ StartMessageLoop \/ PostInitTask \/ WriteInitByte
    \/ EpollWait \/ ReadPipe \/ LockQueue \/ PopTask \/ InvokeReturns \/ UnlockQueue

---------------------------------------------------------------------------
(* A handler thread posting a task (RepoProxy, Dispatcher, TaskRunner).    *)

\* Build the task and enter PostMessageToThread; block when the loop has not
\* started.  Wait has no predicate and takes no lock.
PostMessageToThread(p) ==
    /\ handlersUp /\ postPc[p] = "idle"
    /\ \E t \in Tasks \ (InFlight \cup {InitTask}) : postTask' = [postTask EXCEPT ![p] = t]
    /\ postPc' = [postPc EXCEPT ![p] = IF startComplete THEN "push" ELSE "blocked"]
    /\ UNCHANGED <<startComplete, queueVars, pipeVars, pumpVars>>

LockedPostTaskToQueue(p) ==
    /\ postPc[p] = "push" /\ ~QueueGuardHeld
    /\ taskQueue' = taskQueue \cup {postTask[p]}
    /\ postPc' = [postPc EXCEPT ![p] = "write"]
    /\ UNCHANGED <<startComplete, taskPriority, pipeVars, pumpVars, postTask>>

\* Wake the pump, then wait on the future, or return at once for a close.
WriteWakeByte(p) ==
    /\ postPc[p] = "write"
    /\ WriteByte
    /\ IF postTask[p] \in NoArgTasks
         THEN /\ postPc' = [postPc EXCEPT ![p] = "idle"]
              /\ postTask' = [postTask EXCEPT ![p] = NoTask]
         ELSE /\ postPc' = [postPc EXCEPT ![p] = "result"]
              /\ UNCHANGED postTask
    /\ UNCHANGED <<startComplete, queueVars, pumpVars>>

\* The task's body set the promise; the handler goes on.
FutureReady(p) ==
    /\ postPc[p] = "result" /\ postTask[p] \in done
    /\ postPc' = [postPc EXCEPT ![p] = "idle"]
    /\ postTask' = [postTask EXCEPT ![p] = NoTask]
    /\ UNCHANGED <<startComplete, queueVars, pipeVars, pumpVars>>

PostStep(p) == LockedPostTaskToQueue(p) \/ WriteWakeByte(p) \/ FutureReady(p)

Next == Pump \/ \E p \in Posters : PostMessageToThread(p) \/ PostStep(p)

Spec == Init /\ [][Next]_vars

\* The operating system schedules every runnable thread; nothing obliges a
\* handler to post another task.
FairSpec == Spec /\ WF_vars(Pump) /\ \A p \in Posters : WF_vars(PostStep(p))

---------------------------------------------------------------------------
(* Properties.                                                             *)

\* Every variable keeps its type.
TypeOK ==
    /\ startComplete \in BOOLEAN /\ edge \in BOOLEAN /\ handlersUp \in BOOLEAN
    /\ taskQueue \subseteq Tasks /\ done \subseteq Tasks
    /\ taskPriority \in [Tasks -> Priorities]
    /\ bytes \in 0..PipeCapacity
    /\ pumpPc \in {"make", "start", "post", "write", "epoll", "read", "lock", "drain", "invoke"}
    /\ running \in Tasks \cup {NoTask}
    /\ postPc \in [Posters -> {"idle", "blocked", "push", "write", "result"}]
    /\ postTask \in [Posters -> Tasks \cup {NoTask}]

\* A thread that will go on to drain the queue, or to write the byte that wakes
\* the pump.
WakeUnderway ==
    \/ edge
    \/ pumpPc \in {"write", "read", "lock", "drain", "invoke"}
    \/ \E p \in Posters : postPc[p] = "write"

\* A task is never left in the queue of a sleeping pump with no wake on its way, even
\* when its write was refused (PostMessageToThread's push and write, whose EAGAIN is
\* only logged, against the loop's epoll_wait, one-byte read and drain).
NoLostWakeup == taskQueue # {} => WakeUnderway

\* Each edge epoll has yet to report, and each wake the pump has yet to read for,
\* has a byte of its own in the pipe: the loop's read() never finds it empty.
EveryWakeHasAByte ==
    bytes >= (IF edge THEN 1 ELSE 0) + (IF pumpPc = "read" THEN 1 ELSE 0)

\* No poster is ever caught in postBlocker->Wait, whose signal it could miss: the
\* threads that post are created by a task, so after the loop has started.
NoPosterBlocks == \A p \in Posters : postPc[p] # "blocked"

\* The pipe is full only in front of a pump that is about to read from it and then to
\* drain the queue.  The loop takes one byte per wake, so bytes of coalesced wakes stay
\* behind, but never so many that a sleeping pump could not be sent one more.
FullPipeIsSafe == bytes = PipeCapacity => edge \/ pumpPc = "read"

Posted(t) == t \in taskQueue \cup {running} \/ \E p \in Posters : postTask[p] = t

\* Every task that a thread starts to post is eventually run to its end, however
\* small the pipe is.
EveryPostedTaskRuns == \A t \in Tasks : Posted(t) ~> t \in done

\* The pump is a task queue: tasks run one at a time, once each, most urgent first.
Abstract == INSTANCE TaskQueue WITH pending <- taskQueue, urgency <- taskPriority

ImplementsTaskQueue == Abstract!Spec
=============================================================================

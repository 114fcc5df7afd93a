------------------------- MODULE MessagePumpProofs -------------------------
(***************************************************************************)
(* Proofs about the message pump, for any number of handler threads, any   *)
(* tasks and priorities, and any pipe capacity.                            *)
(*                                                                         *)
(* The argument has two layers.  Shape is an inductive invariant that says *)
(* where the threads can be and which task each of them holds; it contains *)
(* the type invariant, which is not inductive alone, because a poster's    *)
(* task must be a task and not NoTask while the poster is in a post.       *)
(* NoLostWakeup, EveryWakeHasAByte and FullPipeIsSafe are inductive        *)
(* together once Shape is known, and the refinement of TaskQueue is a step *)
(* simulation under Shape.                                                 *)
(***************************************************************************)
EXTENDS MessagePump, TLAPS

\* The pump is invoking a task exactly when it has one.
RunningATask ==
    /\ pumpPc = "invoke" => running \in Tasks
    /\ pumpPc # "invoke" => running = NoTask

\* Until the init task is queued nothing has been posted and nobody can post; the
\* loop has announced its start before that.
BootSequence ==
    /\ pumpPc \in {"make", "start", "post"} =>
          taskQueue = {} /\ done = {} /\ ~handlersUp
    /\ pumpPc \notin {"make", "start"} => startComplete
    /\ ~handlersUp => \A p \in Posters : postPc[p] = "idle"

\* A poster that has not pushed its task yet is the only one to hold it.
FreshTasks ==
    \A p \in Posters :
        /\ postPc[p] # "idle" => postTask[p] \in Tasks \ {InitTask}
        /\ postPc[p] = "push" => postTask[p] \notin taskQueue \cup done \cup {running}
        /\ postPc[p] = "push" => \A q \in Posters \ {p} : postTask[q] # postTask[p]

Shape == TypeOK /\ NoPosterBlocks /\ RunningATask /\ BootSequence /\ FreshTasks

---------------------------------------------------------------------------
\* What write() does to the pipe: a byte and an edge, or nothing when it is full.
LEMMA WriteByteFacts ==
    ASSUME bytes \in 0..PipeCapacity, edge \in BOOLEAN, WriteByte
    PROVE  /\ bytes' \in 0..PipeCapacity
           /\ edge' \in BOOLEAN
           /\ \/ edge' /\ bytes' = bytes + 1
              \/ bytes = PipeCapacity /\ UNCHANGED pipeVars
<1>1. CASE bytes < PipeCapacity
    BY <1>1, CapacityAssumption DEF WriteByte
<1>2. CASE ~(bytes < PipeCapacity)
    <2>1. bytes = PipeCapacity
        BY <1>2, CapacityAssumption
    <2>2. QED BY <1>2, <2>1 DEF WriteByte, pipeVars
<1>3. QED BY <1>1, <1>2

\* The initial states have the shape.
LEMMA InitShape == Init => Shape
<1> SUFFICES ASSUME Init PROVE Shape
    OBVIOUS
<1>1. TypeOK
    <2>1. taskPriority \in [Tasks -> Priorities]
        BY DEF Init, Bind
    <2>2. bytes \in 0..PipeCapacity
        BY CapacityAssumption DEF Init
    <2>3. QED BY <2>1, <2>2 DEF Init, TypeOK
<1>2. NoPosterBlocks /\ RunningATask /\ BootSequence /\ FreshTasks
    BY DEF Init, NoPosterBlocks, RunningATask, BootSequence, FreshTasks
<1>3. QED BY <1>1, <1>2 DEF Shape

\* The pump's steps before its first sleep.
LEMMA BootShape ==
    Shape /\ (MakeMessagePump \/ StartMessageLoop \/ PostInitTask \/ WriteInitByte) => Shape'
<1> SUFFICES ASSUME Shape,
                    MakeMessagePump \/ StartMessageLoop \/ PostInitTask \/ WriteInitByte
             PROVE  Shape'
    OBVIOUS
<1> USE DEF Shape, TypeOK, NoPosterBlocks, RunningATask, BootSequence, FreshTasks,
            queueVars, pipeVars, pumpVars, postVars
<1>1. CASE MakeMessagePump
    BY <1>1 DEF MakeMessagePump
<1>2. CASE StartMessageLoop
    <2>1. UNCHANGED postPc
        BY <1>2 DEF StartMessageLoop
    <2>2. QED BY <1>2, <2>1 DEF StartMessageLoop
<1>3. CASE PostInitTask
    BY <1>3, TaskAssumption DEF PostInitTask
<1>4. CASE WriteInitByte
    <2>1. bytes' \in 0..PipeCapacity /\ edge' \in BOOLEAN
        BY <1>4, WriteByteFacts DEF WriteInitByte
    <2>2. QED BY <1>4, <2>1 DEF WriteInitByte
<1>5. QED BY <1>1, <1>2, <1>3, <1>4

\* The pump's loop.
LEMMA LoopShape ==
    Shape /\ (EpollWait \/ ReadPipe \/ LockQueue \/ PopTask \/ InvokeReturns \/ UnlockQueue)
      => Shape'
<1> SUFFICES ASSUME Shape,
                    EpollWait \/ ReadPipe \/ LockQueue \/ PopTask \/ InvokeReturns \/ UnlockQueue
             PROVE  Shape'
    OBVIOUS
<1> USE DEF Shape, TypeOK, NoPosterBlocks, RunningATask, BootSequence, FreshTasks,
            queueVars, pipeVars, pumpVars, postVars
<1>1. CASE EpollWait
    BY <1>1 DEF EpollWait
<1>2. CASE ReadPipe
    BY <1>2, CapacityAssumption DEF ReadPipe
<1>3. CASE LockQueue
    BY <1>3 DEF LockQueue
<1>4. CASE PopTask
    BY <1>4, TaskAssumption DEF PopTask, AppMain
<1>5. CASE InvokeReturns
    BY <1>5, TaskAssumption DEF InvokeReturns
<1>6. CASE UnlockQueue
    BY <1>6 DEF UnlockQueue
<1>7. QED BY <1>1, <1>2, <1>3, <1>4, <1>5, <1>6

\* The steps of one poster.
LEMMA PostShape ==
    ASSUME NEW p \in Posters, Shape, PostMessageToThread(p) \/ PostStep(p)
    PROVE  Shape'
<1> USE DEF Shape, TypeOK, NoPosterBlocks, RunningATask, BootSequence, FreshTasks,
            queueVars, pipeVars, pumpVars, postVars
<1>1. CASE PostMessageToThread(p)
    <2>1. startComplete
        BY <1>1 DEF PostMessageToThread
    <2>2. PICK t \in Tasks \ (InFlight \cup {InitTask}) :
              postTask' = [postTask EXCEPT ![p] = t]
        BY <1>1 DEF PostMessageToThread
    <2>3. /\ t \notin taskQueue \cup done \cup {running}
          /\ \A q \in Posters : postTask[q] # t
        BY <2>2 DEF InFlight
    <2>4. postPc' = [postPc EXCEPT ![p] = "push"]
        BY <1>1, <2>1 DEF PostMessageToThread
    <2>5. QED BY <1>1, <2>2, <2>3, <2>4 DEF PostMessageToThread
<1>2. CASE LockedPostTaskToQueue(p)
    BY <1>2 DEF LockedPostTaskToQueue, QueueGuardHeld
<1>3. CASE WriteWakeByte(p)
    <2>1. bytes' \in 0..PipeCapacity /\ edge' \in BOOLEAN
        BY <1>3, WriteByteFacts DEF WriteWakeByte
    <2>2. /\ postPc' \in [Posters -> {"idle", "blocked", "push", "write", "result"}]
          /\ postTask' \in [Posters -> Tasks \cup {NoTask}]
        BY <1>3 DEF WriteWakeByte
    <2>3. /\ postPc'[p] \in {"idle", "result"}
          /\ \A q \in Posters \ {p} : postPc'[q] = postPc[q] /\ postTask'[q] = postTask[q]
          /\ postPc'[p] = "result" => postTask'[p] = postTask[p]
          /\ postTask'[p] \in {postTask[p], NoTask}
        BY <1>3 DEF WriteWakeByte
    <2>4. UNCHANGED <<startComplete, queueVars, pumpVars>>
        BY <1>3 DEF WriteWakeByte
    <2>5. handlersUp /\ postPc[p] = "write"
        BY <1>3 DEF WriteWakeByte
    <2>6. FreshTasks'
        BY <2>2, <2>3, <2>4, <2>5, TaskAssumption
    <2>7. QED BY <2>1, <2>2, <2>3, <2>4, <2>5, <2>6
<1>4. CASE FutureReady(p)
    BY <1>4, TaskAssumption DEF FutureReady
<1>5. QED BY <1>1, <1>2, <1>3, <1>4 DEF PostStep

\* Every step keeps the shape.
LEMMA NextShape == Shape /\ [Next]_vars => Shape'
<1> SUFFICES ASSUME Shape, [Next]_vars PROVE Shape'
    OBVIOUS
<1>1. CASE Pump
    BY <1>1, BootShape, LoopShape DEF Pump
<1>2. CASE \E p \in Posters : PostMessageToThread(p) \/ PostStep(p)
    BY <1>2, PostShape
<1>3. CASE UNCHANGED vars
    BY <1>3 DEF vars, queueVars, pipeVars, pumpVars, postVars, Shape, TypeOK, NoPosterBlocks,
                RunningATask, BootSequence, FreshTasks
<1>4. QED BY <1>1, <1>2, <1>3 DEF Next

\* In every reachable state the threads, the tasks they hold and the variables' types
\* are as Shape says (the start-up order of AppBase and MessagePumpEPoll, and the
\* ownership of a Task between RepoProxy and the queue).
THEOREM ShapeHolds == Spec => []Shape
BY InitShape, NextShape, PTL DEF Spec

\* Type correctness of the pump, its pipe and its posters.
THEOREM TypeCorrect == Spec => []TypeOK
BY ShapeHolds, PTL DEF Shape

\* No handler thread is ever caught in postBlocker->Wait.
THEOREM PostersNeverBlock == Spec => []NoPosterBlocks
BY ShapeHolds, PTL DEF Shape
---------------------------------------------------------------------------
(* The wake-up protocol.                                                   *)

Wakeups == NoLostWakeup /\ EveryWakeHasAByte /\ FullPipeIsSafe

\* Every step keeps the wake-up invariants: a push is followed by its own write, a write
\* is refused only in front of a pump that will read, and a sleep follows a drain.
LEMMA NextWakeups == Shape /\ Wakeups /\ [Next]_vars => Wakeups'
<1> SUFFICES ASSUME Shape, Wakeups, [Next]_vars PROVE Wakeups'
    OBVIOUS
<1> USE DEF Wakeups, NoLostWakeup, EveryWakeHasAByte, FullPipeIsSafe, WakeUnderway,
            queueVars, pipeVars, pumpVars, postVars
<1>t. /\ bytes \in 0..PipeCapacity /\ PipeCapacity \in Nat \ {0}
      /\ edge \in BOOLEAN
      /\ postPc \in [Posters -> {"idle", "blocked", "push", "write", "result"}]
    BY CapacityAssumption DEF Shape, TypeOK
<1>1. CASE MakeMessagePump
    BY <1>1, <1>t DEF MakeMessagePump, Shape, BootSequence
<1>2. CASE StartMessageLoop
    BY <1>2, <1>t DEF StartMessageLoop, Shape, BootSequence
<1>3. CASE PostInitTask
    BY <1>3, <1>t DEF PostInitTask
<1>4. CASE WriteInitByte
    BY <1>4, <1>t, WriteByteFacts DEF WriteInitByte
<1>5. CASE EpollWait
    BY <1>5, <1>t DEF EpollWait
<1>6. CASE ReadPipe
    BY <1>6, <1>t DEF ReadPipe
<1>7. CASE LockQueue
    BY <1>7, <1>t DEF LockQueue
<1>8. CASE PopTask
    BY <1>8, <1>t DEF PopTask, AppMain
<1>9. CASE InvokeReturns
    BY <1>9, <1>t DEF InvokeReturns
<1>10. CASE UnlockQueue
    BY <1>10, <1>t DEF UnlockQueue
<1>11. ASSUME NEW p \in Posters, PostMessageToThread(p) PROVE Wakeups'
    BY <1>11, <1>t DEF PostMessageToThread
<1>12. ASSUME NEW p \in Posters, LockedPostTaskToQueue(p) PROVE Wakeups'
    BY <1>12, <1>t DEF LockedPostTaskToQueue
<1>13. ASSUME NEW p \in Posters, WriteWakeByte(p) PROVE Wakeups'
    BY <1>13, <1>t, WriteByteFacts DEF WriteWakeByte
<1>14. ASSUME NEW p \in Posters, FutureReady(p) PROVE Wakeups'
    BY <1>14, <1>t DEF FutureReady
<1>15. CASE UNCHANGED vars
    BY <1>15 DEF vars
<1>16. QED
    BY <1>1, <1>2, <1>3, <1>4, <1>5, <1>6, <1>7, <1>8, <1>9, <1>10, <1>11, <1>12, <1>13,
       <1>14, <1>15 DEF Next, Pump, PostStep

\* No wake-up is lost, a full pipe included, and the loop's read never finds the pipe
\* empty, for any number of threads and any capacity.
THEOREM WakeupsHold == Spec => [](NoLostWakeup /\ EveryWakeHasAByte /\ FullPipeIsSafe)
<1>1. Init => Wakeups
    BY CapacityAssumption DEF Init, Wakeups, NoLostWakeup, EveryWakeHasAByte, FullPipeIsSafe
<1>2. QED BY <1>1, NextWakeups, ShapeHolds, PTL DEF Spec, Wakeups

\* The loop's blocking read() of the wake-up pipe is never reached with the pipe empty.
THEOREM ReadsFindAByte == Spec => []EveryWakeHasAByte
BY WakeupsHold, PTL

\* A wake-up write that the full pipe refuses is never the one the pump needs.
THEOREM RefusedWritesAreSpare == Spec => []FullPipeIsSafe
BY WakeupsHold, PTL
---------------------------------------------------------------------------
(* The pump implements the task queue.                                     *)

\* A push is Post, a pop is Begin, the return of Invoke is End, and every other step
\* leaves the abstract queue alone.
LEMMA NextSimulates == Shape /\ [Next]_vars => [Abstract!Next]_(Abstract!vars)
<1> SUFFICES ASSUME Shape, [Next]_vars PROVE [Abstract!Next]_(Abstract!vars)
    OBVIOUS
<1> USE DEF Abstract!vars, queueVars, pipeVars, pumpVars, postVars
<1>1. CASE \/ MakeMessagePump \/ StartMessageLoop \/ WriteInitByte \/ EpollWait
           \/ ReadPipe \/ LockQueue \/ UnlockQueue
    BY <1>1 DEF MakeMessagePump, StartMessageLoop, WriteInitByte, EpollWait, ReadPipe,
                LockQueue, UnlockQueue
<1>2. CASE PostInitTask
    <2>1. InitTask \in Tasks /\ InitTask \notin taskQueue \cup done \cup {running}
        BY <1>2, TaskAssumption DEF PostInitTask, Shape, BootSequence, RunningATask
    <2>2. Abstract!Post(InitTask)
        BY <1>2, <2>1 DEF PostInitTask, Abstract!Post
    <2>3. QED BY <2>1, <2>2 DEF Abstract!Next
<1>3. CASE PopTask
    <2>1. PICK t \in taskQueue : Top(t) /\ taskQueue' = taskQueue \ {t} /\ running' = t
        BY <1>3 DEF PopTask, AppMain
    <2>2. t \in Tasks /\ running = NoTask
        BY <1>3, <2>1 DEF PopTask, AppMain, Shape, TypeOK, RunningATask
    <2>3. Abstract!Begin(t)
        BY <1>3, <2>1, <2>2 DEF PopTask, AppMain, Top, Abstract!Begin
    <2>4. QED BY <2>2, <2>3 DEF Abstract!Next
<1>4. CASE InvokeReturns
    <2>1. running # NoTask
        BY <1>4, TaskAssumption DEF InvokeReturns, Shape, RunningATask
    <2>2. Abstract!End
        BY <1>4, <2>1 DEF InvokeReturns, Abstract!End
    <2>3. QED BY <2>2 DEF Abstract!Next
<1>5. ASSUME NEW p \in Posters, LockedPostTaskToQueue(p)
      PROVE  [Abstract!Next]_(Abstract!vars)
    <2>1. /\ postTask[p] \in Tasks
          /\ postTask[p] \notin taskQueue \cup done \cup {running}
        BY <1>5 DEF LockedPostTaskToQueue, Shape, FreshTasks
    <2>2. Abstract!Post(postTask[p])
        BY <1>5, <2>1 DEF LockedPostTaskToQueue, Abstract!Post
    <2>3. QED BY <2>1, <2>2 DEF Abstract!Next
<1>6. ASSUME NEW p \in Posters,
             PostMessageToThread(p) \/ WriteWakeByte(p) \/ FutureReady(p)
      PROVE  [Abstract!Next]_(Abstract!vars)
    BY <1>6 DEF PostMessageToThread, WriteWakeByte, FutureReady
<1>7. CASE UNCHANGED vars
    BY <1>7 DEF vars
<1>8. QED BY <1>1, <1>2, <1>3, <1>4, <1>5, <1>6, <1>7 DEF Next, Pump, PostStep

\* Whatever the interleaving of posters and pump, tasks run one at a time, once
\* each, and the most urgent first.
THEOREM PumpImplementsTaskQueue == Spec => ImplementsTaskQueue
<1>1. Init => Abstract!Init
    BY PriorityAssumption DEF Init, Bind, Abstract!Init
<1>2. QED
    BY <1>1, NextSimulates, ShapeHolds, PTL DEF Spec, ImplementsTaskQueue, Abstract!Spec
=============================================================================

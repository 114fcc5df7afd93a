------------------------------ MODULE EventHub ------------------------------
(***************************************************************************)
(* The EventHub, the Dispatcher that carries its events to the threads     *)
(* that own the handlers, and the threads themselves.                      *)
(*                                                                         *)
(* The callers of these classes are their users' code: the code a thread   *)
(* starts with, the init task of a pump, and the event handlers, which may *)
(* call any operation in turn.  A thread is therefore a stack of frames,   *)
(* the last one the call it is in.  A pump is taken as what TaskQueue says *)
(* of it and MessagePump implements: it runs the tasks of its queue one at *)
(* a time.  What TaskQueue leaves out and matters here is that it holds    *)
(* queueGuard meanwhile, which every post to it needs.                     *)
(*                                                                         *)
(* The hub and the static thread handle have no lock.  Each access to them *)
(* is a step; a read and the write that follows from it are two.           *)
(*                                                                         *)
(* Not modelled: raw pumps (NEW_MP has no use), two runners of one name,   *)
(* a runner started from a task or from another thread than made it, and a *)
(* data race inside one access to the hub's map or one of its vectors.     *)
(***************************************************************************)
EXTENDS Integers, FiniteSets, SequencesExt, FiniteSetsExt

CONSTANTS MainThread, Runners, Threads, Workers,
          Events, Handlers,
          EventOf,     \* handler |-> its event
          Owner,       \* handler |-> the runner or Thread whose name it gives; None is
                       \* a name nobody has
          AsTask,      \* the handlers with runHandlerAsTask
          Main,        \* the runner of the main thread
          Callers,     \* call |-> the code that makes it: what a thread starts with, by the
                       \* thread, and what runs as a task, by its pump
          MaxTriggers, \* bound: events triggered
          MaxRemovals, \* bound: calls of UnregisterEventHandler
          None

Delegates == Threads \cup Workers            \* PlatformThread::Delegate
OSThreads == {MainThread} \cup Delegates
Pumps == Runners \cup Threads

ASSUME HandlerAssumption ==
    /\ EventOf \in [Handlers -> Events]
    /\ Owner \in [Handlers -> Pumps \cup {None}]
    /\ AsTask \subseteq Handlers
    /\ None \notin Handlers

ASSUME ThreadAssumption ==
    /\ Main \in Runners
    /\ MainThread \notin Delegates
    /\ None \notin OSThreads \cup Pumps
    \* objects of different classes
    /\ Runners \cap Delegates = {} /\ Threads \cap Workers = {}
    /\ Callers \in [{"RegisterEvent", "RegisterEventHandler", "UnregisterEventHandler",
                     "TriggerEvent", "TaskRunner", "Thread"} -> SUBSET (OSThreads \cup Pumps)]

ASSUME BoundAssumption == MaxTriggers \in Nat /\ MaxRemovals \in Nat

VARIABLES stack,          \* each OS thread's calls, <<>> before it is created
          threadHandle,   \* PlatformThread::threadHandle, one for the process
          Id,             \* the Id of runners and delegates
          osName,         \* whose name pthread_setname_np gave to each thread
          namedDMPs,      \* the runners in the dispatcher's table
          namedThreads,   \* the Threads in the dispatcher's table
          started,        \* pumps with startComplete
          queueGuard,     \* pumps that hold their queueGuard
          queue,          \* each pump's tasks
          eventHandlers,  \* the hub's table, a function on the events it knows
          crashed,        \* a null or wild pointer was followed
          \* what the threads have asked for, to compare with what they got:
          registered,     \* handlers registered and not unregistered
          used,           \* handlers registered ever
          removed,        \* handlers a thread has tried to unregister
          expected,       \* trigger |-> the handlers registered for it
          ran,            \* <<trigger, handler>> |-> times the handler was called
          dropped,        \* posts to a name nobody has
          raced,          \* handlers written while another thread was in Unregister
          mixed           \* delegates created while another was being created

threadVars == <<threadHandle, Id, osName, mixed>>
dispatcherVars == <<namedDMPs, namedThreads>>
pumpVars == <<started, queueGuard, queue>>
hubVars == <<eventHandlers, registered, used, removed, raced>>
deliveryVars == <<expected, ran, dropped>>
vars == <<stack, threadVars, dispatcherVars, pumpVars, hubVars, deliveryVars, crashed>>

InitTask == [k |-> 0, h |-> None]
Tasks == [k : 1 .. MaxTriggers, h : Handlers] \cup {InitTask}

User(t) == [at |-> "user", task |-> t]

Init ==
    /\ stack = [x \in OSThreads |-> IF x = MainThread THEN <<User(InitTask)>> ELSE <<>>]
    /\ threadHandle = None
    /\ Id = [o \in Runners \cup Delegates |-> None]
    /\ osName = [x \in OSThreads |-> None]
    /\ namedDMPs = {} /\ namedThreads = {}
    /\ started = {} /\ queueGuard = {} /\ queue = [p \in Pumps |-> {}]
    /\ eventHandlers = <<>>
    /\ registered = {} /\ used = {} /\ removed = {} /\ raced = {}
    /\ expected = <<>>
    /\ ran = [t \in Tasks |-> 0]
    /\ dropped = {}
    /\ mixed = {}
    /\ crashed = FALSE

---------------------------------------------------------------------------
(* Frames.                                                                 *)

Frames == UNION {Range(stack[x]) : x \in OSThreads}
At(x, where) == ~crashed /\ stack[x] # <<>> /\ Last(stack[x]).at = where
Top(x) == Last(stack[x])

Push(x, f) == stack' = [stack EXCEPT ![x] = Append(@, f)]
Goto(x, f) == stack' = [stack EXCEPT ![x] = Append(Front(@), f)]
Return(x)  == stack' = [stack EXCEPT ![x] = Front(@)]

---------------------------------------------------------------------------
(* The hub.                                                                *)

\* eventHandlers[e] of std::map inserts an empty vector for an event it does not know.
At0(table, e) ==
    [d \in DOMAIN table \cup {e} |-> IF d \in DOMAIN table THEN table[d] ELSE <<>>]

\* The handlers that threads are erasing from the event's vector, each from a copy of it.
Erasing(e) == {f.h : f \in {g \in Frames : g.at = "erase" /\ g.e = e}}

\* insert: an event registered again keeps its handlers.
RegisterEvent(x, e) ==
    /\ At(x, "user")
    /\ eventHandlers' = At0(eventHandlers, e)
    /\ UNCHANGED <<stack, threadVars, dispatcherVars, pumpVars, deliveryVars, crashed, registered, used, removed, raced>>

RegisterEventHandler(x, h) ==
    /\ At(x, "user") /\ h \notin used
    /\ IF EventOf[h] \in DOMAIN eventHandlers
         THEN /\ used' = used \cup {h}
              /\ eventHandlers' = [eventHandlers EXCEPT ![EventOf[h]] = Append(@, h)]
              /\ registered' = registered \cup {h}
              /\ raced' = IF Erasing(EventOf[h]) = {} THEN raced ELSE raced \cup {h}
         ELSE UNCHANGED <<eventHandlers, used, registered, raced>>
    /\ UNCHANGED <<stack, threadVars, dispatcherVars, pumpVars, deliveryVars, crashed, removed>>

\* Copy the event's handlers, erase the first with the given id from the copy ...
UnregisterEventHandler(x, h) ==
    /\ At(x, "user") /\ h \notin removed /\ Cardinality(removed) < MaxRemovals
    /\ removed' = removed \cup {h}
    /\ LET e == EventOf[h]
       IN  /\ eventHandlers' = At0(eventHandlers, e)
           /\ raced' = IF Erasing(e) = {} THEN raced ELSE raced \cup Erasing(e) \cup {h}
           /\ Push(x, [at |-> "erase", e |-> e, h |-> h,
                       handlers |-> RemoveFirst(eventHandlers'[e], h)])
    /\ UNCHANGED <<threadVars, dispatcherVars, pumpVars, deliveryVars, crashed, registered, used>>

\* ... and store the copy over the table's vector, whatever that is by now.
StoreHandlers(x) ==
    /\ At(x, "erase")
    /\ eventHandlers' = [eventHandlers EXCEPT ![Top(x).e] = Top(x).handlers]
    /\ registered' = registered \ {Top(x).h}
    /\ Return(x)
    /\ UNCHANGED <<threadVars, dispatcherVars, pumpVars, deliveryVars, crashed, used, removed, raced>>

\* The loop runs over a copy of the event's handlers.
TriggerEvent(x, e) ==
    /\ At(x, "user") /\ Len(expected) < MaxTriggers
    /\ e \in DOMAIN eventHandlers
    /\ expected' = Append(expected, {h \in registered : EventOf[h] = e})
    /\ Push(x, [at |-> "loop", k |-> Len(expected) + 1, e |-> e, i |-> 1, handlers |-> eventHandlers[e]])
    /\ UNCHANGED <<threadVars, dispatcherVars, pumpVars, hubVars, crashed, ran, dropped>>

\* The loop over the vector itself: the one at this position now.
NextHandlerLive(x, f) ==
    LET now == At0(eventHandlers, f.e)[f.e]
    IN  IF f.i > Len(now) THEN None ELSE now[f.i]

\* The next handler of the loop.
NextHandler(x, f) == IF f.i > Len(f.handlers) THEN None ELSE f.handlers[f.i]

---------------------------------------------------------------------------
(* The dispatcher's tables.  A runner or a Thread stands for its name; a   *)
(* name added again keeps its first entry.                                 *)

AddTaskRunner(r) == namedDMPs' = namedDMPs \cup {r}

AddNamedThread(d) == namedThreads' = namedThreads \cup {d}

GetTaskRunner(name) == IF name \in namedDMPs THEN name ELSE None

GetThread(name) == IF name \in namedThreads THEN name ELSE None

\* The receiver PostTask finds: a runner before a Thread of the same name.
PostTask(name) == IF GetTaskRunner(name) # None THEN GetTaskRunner(name) ELSE GetThread(name)

\* Id of the runner or Thread of that name; 0 is no thread's.
GetThreadId(name) ==
    CASE GetTaskRunner(name) # None -> Id[GetTaskRunner(name)]
      [] GetTaskRunner(name) = None /\ GetThread(name) # None -> Id[GetThread(name)]
      [] OTHER -> None

\* The assertion of THREAD_CHECK.
IsCorrectThread(name, x) == GetThreadId(name) = x

\* MessagePumpEPoll::GetSharedState finds the pump's entry in its table; with none it
\* follows a null pointer.
GetSharedState(p) == PostTask(p) # None

\* The dmp pointer of the receiver.  TaskRunner::Init makes it, Thread::Start only then.
HasPump(p) == p \in Threads => stack[p] # <<>>

---------------------------------------------------------------------------
(* An event on its way.                                                    *)

\* The start of PostMessageToThread: a look at startComplete, then push or Wait.  No lock
\* is held from the look to the Wait.
PostMessageToThread(p, t) ==
    [at |-> IF p \in started THEN "push" ELSE "wait", p |-> p, task |-> t]

\* One round of TriggerEvent's loop: call the handler, or post a task for it to the runner
\* or the Thread of that name.  A name in neither table drops the task; a receiver without a
\* pump is called through a pointer nobody wrote.
DispatchEvent(x) ==
    /\ At(x, "loop")
    /\ LET f == Top(x)
           h == NextHandler(x, f)
           t == [k |-> f.k, h |-> h]
           p == PostTask(Owner[h])
           round == Append(Front(stack[x]), [f EXCEPT !.i = @ + 1])
       IN  \/ /\ h = None
              /\ Return(x)
              /\ UNCHANGED <<ran, dropped, crashed>>
           \/ /\ h # None /\ h \notin AsTask
              /\ stack' = [stack EXCEPT ![x] = Append(round, User(t))]
              /\ ran' = [ran EXCEPT ![t] = @ + 1]
              /\ UNCHANGED <<dropped, crashed>>
           \/ /\ h # None /\ h \in AsTask
              /\ p # None /\ HasPump(p)
              /\ stack' = [stack EXCEPT ![x] = Append(round, PostMessageToThread(p, t))]
              /\ UNCHANGED <<ran, dropped, crashed>>
           \/ /\ h # None /\ h \in AsTask
              /\ p = None
              /\ dropped' = dropped \cup {t}
              /\ stack' = [stack EXCEPT ![x] = round]
              /\ UNCHANGED <<ran, crashed>>
           \/ /\ h # None /\ h \in AsTask
              /\ p # None /\ ~HasPump(p)
              /\ crashed' = TRUE
              /\ UNCHANGED <<stack, ran, dropped>>
    /\ UNCHANGED <<threadVars, dispatcherVars, pumpVars, hubVars, expected>>

\* The handler, or the init task, returns.
HandlerReturns(x) ==
    /\ At(x, "user") /\ Len(stack[x]) > 1
    /\ Return(x)
    /\ UNCHANGED <<threadVars, dispatcherVars, pumpVars, hubVars, deliveryVars, crashed>>

---------------------------------------------------------------------------
(* Posting to a pump, and the pump.                                        *)

\* The signal of a pump that starts meanwhile is lost.
PostBlockerWait(x) ==
    /\ At(x, "wait")
    /\ Goto(x, [Top(x) EXCEPT !.at = "blocked"])
    /\ UNCHANGED <<threadVars, dispatcherVars, pumpVars, hubVars, deliveryVars, crashed>>

LockedPostTaskToQueue(x) ==
    /\ At(x, "push") /\ Top(x).p \notin queueGuard
    /\ queue' = [queue EXCEPT ![Top(x).p] = @ \cup {Top(x).task}]
    /\ Return(x)
    /\ UNCHANGED <<threadVars, dispatcherVars, started, queueGuard, hubVars, deliveryVars, crashed>>

\* A loop that starts without saying so.
StartMessageLoopUnmarked(x, p, calls) ==
    /\ UNCHANGED started
    /\ queue' = [queue EXCEPT ![p] = @ \cup {InitTask}]
    /\ stack' = [stack EXCEPT ![x] = Append(calls, [at |-> "pump", p |-> p])]

\* StartMessageLoop: let one waiting poster go on, post the init task, enter the loop.
StartMessageLoop(x, p, calls) ==
    /\ started' = started \cup {p}
    /\ queue' = [queue EXCEPT ![p] = @ \cup {InitTask}]
    /\ LET blocked == {y \in OSThreads : At(y, "blocked") /\ Top(y).p = p}
           running == [stack EXCEPT ![x] = Append(calls, [at |-> "pump", p |-> p])]
       IN  \/ blocked = {} /\ stack' = running
           \/ \E y \in blocked :
                 stack' = [running EXCEPT ![y] = Append(Front(@), [Top(y) EXCEPT !.at = "push"])]

\* The pump wakes for a queue that is not empty ...
LockQueue(x) ==
    /\ At(x, "pump") /\ Top(x).p \notin queueGuard /\ queue[Top(x).p] # {}
    /\ queueGuard' = queueGuard \cup {Top(x).p}
    /\ UNCHANGED <<stack, threadVars, dispatcherVars, started, queue, hubVars, deliveryVars, crashed>>

\* ... runs a task, any of them, as no event task has a priority ...
RunTask(x) ==
    /\ At(x, "pump") /\ Top(x).p \in queueGuard
    /\ \E t \in queue[Top(x).p] :
          /\ queue' = [queue EXCEPT ![Top(x).p] = @ \ {t}]
          /\ Push(x, User(t))
          /\ ran' = [ran EXCEPT ![t] = IF t = InitTask THEN @ ELSE @ + 1]
    /\ UNCHANGED <<threadVars, dispatcherVars, started, queueGuard, hubVars, expected, dropped, crashed>>

\* A pump that goes back to sleep without unlocking.
UnlockQueueNever(x) == FALSE /\ UNCHANGED vars

\* ... and unlocks when none is left.
UnlockQueue(x) ==
    /\ At(x, "pump") /\ Top(x).p \in queueGuard /\ queue[Top(x).p] = {}
    /\ queueGuard' = queueGuard \ {Top(x).p}
    /\ UNCHANGED <<stack, threadVars, dispatcherVars, started, queue, hubVars, deliveryVars, crashed>>

---------------------------------------------------------------------------
(* Runners and threads.                                                    *)

\* TaskRunner::Init: the runner is that of the calling thread and goes into the table.
InitRunner(x, r) ==
    /\ At(x, "user") /\ Len(stack[x]) = 1
    /\ x = MainThread <=> r = Main
    /\ Id[r] = None /\ \A q \in Runners : Id[q] # x
    /\ Id' = [Id EXCEPT ![r] = x]
    /\ AddTaskRunner(r)
    /\ UNCHANGED <<stack, threadHandle, osName, mixed, namedThreads, pumpVars, hubVars, deliveryVars, crashed>>

\* TaskRunner::Start, on the thread that made it.
StartRunner(x, r) ==
    /\ At(x, "user") /\ Len(stack[x]) = 1 /\ Id[r] = x
    /\ StartMessageLoop(x, r, stack[x])
    /\ UNCHANGED <<threadVars, dispatcherVars, queueGuard, hubVars, deliveryVars, crashed>>

\* A user of Threads adds a Thread to the table, before Start or after it.
NameThread(x, d) ==
    /\ At(x, "user")
    /\ AddNamedThread(d)
    /\ UNCHANGED <<stack, threadVars, namedDMPs, pumpVars, hubVars, deliveryVars, crashed>>

\* Delegates whose creation, or naming, is under way.
BeingCreated == {f.d : f \in {g \in Frames : g.at \in {"create", "name"}}}

\* PlatformThread::Create, to the pthread_create that stores the handle and starts the thread.
Create(x, d) ==
    /\ threadHandle' = d
    /\ stack' = [stack EXCEPT ![x] = Append(@, [at |-> "create", d |-> d]),
                              ![d] = <<[at |-> "name", d |-> d]>>]
    /\ mixed' = IF BeingCreated = {} THEN mixed ELSE mixed \cup BeingCreated \cup {d}
    /\ UNCHANGED <<osName, dispatcherVars, pumpVars, hubVars, deliveryVars, crashed>>

\* Thread::Start: a pump, which stays unstarted until ThreadMain, and a thread.
StartThread(x, d) ==
    /\ At(x, "user") /\ stack[d] = <<>>
    /\ Create(x, d)
    /\ UNCHANGED Id

\* A new IOWorkerThread and its Start.  A worker's Id is that of the thread that made it.
StartWorker(x, d) ==
    /\ At(x, "user") /\ stack[d] = <<>>
    /\ Id' = [Id EXCEPT ![d] = x]
    /\ Create(x, d)

\* A Start that does not keep the handle.
CreateReturnsNoId(x) ==
    /\ At(x, "create")
    /\ Return(x)
    /\ UNCHANGED <<threadVars, dispatcherVars, pumpVars, hubVars, deliveryVars, crashed>>

\* CreateThreadInternal reads the handle back from the static; Thread::Start keeps it.
CreateReturns(x) ==
    /\ At(x, "create")
    /\ Id' = IF Top(x).d \in Threads THEN [Id EXCEPT ![Top(x).d] = threadHandle] ELSE Id
    /\ Return(x)
    /\ UNCHANGED <<threadHandle, osName, mixed, dispatcherVars, pumpVars, hubVars, deliveryVars, crashed>>

\* The name goes to the thread in the static handle.
SetThreadName(d) == osName' = [osName EXCEPT ![threadHandle] = d]

\* IOWorkerThread::ThreadMain runs the worker's task.
WorkerMain(d) ==
    /\ d \in Workers
    /\ Goto(d, User(InitTask))
    /\ UNCHANGED <<started, queue, crashed>>

\* Thread::ThreadMain runs its pump, which must find its Thread in the dispatcher's table.
ThreadMain(d) ==
    /\ d \in Threads
    /\ \/ GetSharedState(d) /\ StartMessageLoop(d, d, <<>>) /\ UNCHANGED crashed
       \/ ~GetSharedState(d) /\ crashed' = TRUE /\ UNCHANGED <<stack, started, queue>>

\* What pthread_create runs.
ThreadStartFunction(d) ==
    /\ At(d, "name")
    /\ SetThreadName(d)
    /\ WorkerMain(d) \/ ThreadMain(d)
    /\ UNCHANGED <<threadHandle, Id, mixed, dispatcherVars, queueGuard, hubVars, deliveryVars>>

---------------------------------------------------------------------------

\* The code a thread is in.
Code(x) == IF \E p \in Pumps : [at |-> "pump", p |-> p] \in Range(stack[x])
             THEN CHOOSE p \in Pumps : [at |-> "pump", p |-> p] \in Range(stack[x])
             ELSE x

\* What user code calls; it need not call anything.
Calls(x) ==
    \/ Code(x) \in Callers.RegisterEvent /\ \E e \in Events : RegisterEvent(x, e)
    \/ Code(x) \in Callers.TriggerEvent /\ \E e \in Events : TriggerEvent(x, e)
    \/ Code(x) \in Callers.RegisterEventHandler /\ \E h \in Handlers : RegisterEventHandler(x, h)
    \/ Code(x) \in Callers.UnregisterEventHandler /\ \E h \in Handlers : UnregisterEventHandler(x, h)
    \/ Code(x) \in Callers.TaskRunner /\ \E r \in Runners : InitRunner(x, r) \/ StartRunner(x, r)
    \/ Code(x) \in Callers.Thread /\ \E d \in Threads : NameThread(x, d) \/ StartThread(x, d)
    \/ Code(x) \in Callers.Thread /\ \E d \in Workers : StartWorker(x, d)

\* What the threads do by themselves.
Runs(x) ==
    \/ StoreHandlers(x) \/ DispatchEvent(x) \/ HandlerReturns(x)
    \/ PostBlockerWait(x) \/ LockedPostTaskToQueue(x)
    \/ LockQueue(x) \/ RunTask(x) \/ UnlockQueue(x)
    \/ CreateReturns(x) \/ ThreadStartFunction(x)

Next == \E x \in OSThreads : Calls(x) \/ Runs(x)

\* While a thread can run, some thread does; a handler that returns is a step of its own.
Fairness == WF_vars(\E x \in OSThreads : Runs(x))

Spec == Init /\ [][Next]_vars /\ Fairness

---------------------------------------------------------------------------
(* Properties.                                                             *)

\* Types; a guard is held by a pump that runs, and no event reaches a handler twice.
TypeOK ==
    /\ threadHandle \in Delegates \cup {None}
    /\ Id \in [Runners \cup Delegates -> OSThreads \cup {None}]
    /\ osName \in [OSThreads -> Delegates \cup {None}]
    /\ namedDMPs \subseteq Runners /\ namedThreads \subseteq Threads
    /\ started \subseteq Pumps /\ queueGuard \subseteq started
    /\ queue \in [Pumps -> SUBSET Tasks]
    /\ DOMAIN eventHandlers \subseteq Events
    /\ \A e \in DOMAIN eventHandlers : eventHandlers[e] \in Seq(Handlers)
    /\ registered \subseteq used /\ used \subseteq Handlers /\ removed \subseteq Handlers
    /\ raced \subseteq Handlers /\ mixed \subseteq Delegates
    /\ expected \in Seq(SUBSET Handlers) /\ Len(expected) <= MaxTriggers
    /\ ran \in [Tasks -> 0 .. 1]
    /\ dropped \subseteq Tasks
    /\ crashed \in BOOLEAN

\* The places a handler's share of an event can be: still in the loop, in a post, in a
\* queue, dropped, or done.
Shares(frames, t) ==
    LET inLoop == {f \in frames : f.at = "loop" /\ f.k = t.k
                                    /\ t.h \in Range(SubSeq(f.handlers, f.i, Len(f.handlers)))}
        inPost == {f \in frames : f.at \in {"wait", "blocked", "push"} /\ f.task = t}
    IN  Cardinality(inLoop) + Cardinality(inPost) + Cardinality({p \in Pumps : t \in queue[p]})
          + Cardinality({t} \cap dropped) + ran[t]

\* TriggerEvent delivers to exactly the handlers registered when it is called, once each,
\* whatever is registered, unregistered or triggered from other threads and from the
\* handlers themselves while the event is on its way; a handler unregistered meanwhile
\* still gets it.  A handler whose registration or removal overlapped an
\* UnregisterEventHandler of another thread, which stores an old copy over it, may be
\* missed or reached although it was removed; it too is reached at most once.
DeliveredOnce ==
    LET frames == Frames
    IN  \A k \in DOMAIN expected : \A h \in Handlers :
          LET n == Shares(frames, [k |-> k, h |-> h])
          IN  IF h \in raced THEN n <= 1 ELSE n = IF h \in expected[k] THEN 1 ELSE 0

\* A handler runs on a thread on which THREAD_CHECK for its owner holds, and a thread that
\* ThreadStartFunction has set going bears its own name.  The check may fail, and the name
\* may be another's, for a Thread that runs before its Start has stored the Id, and for
\* delegates whose creations overlap: they share one static handle.  A failing check is
\* then a false alarm: the handler still runs on the very thread of its owner.
ThreadIdentity ==
    /\ \A x \in OSThreads : \A f \in Range(stack[x]) :
          f.at = "user" /\ f.task.h \in AsTask =>
             LET p == Owner[f.task.h]
             IN  IsCorrectThread(p, x) \/ (p \in mixed \cup BeingCreated /\ x = p)
    /\ \A d \in Delegates \ (mixed \cup BeingCreated) :
          stack[d] # <<>> => osName[d] = d

\* Threads none of which can go on: each sleeps in postBlocker, or wants the queueGuard of
\* a pump that one of them is in.
Deadlocked(x) ==
    \E S \in SUBSET OSThreads :
        /\ x \in S
        /\ \A y \in S :
              \/ At(y, "blocked")
              \/ /\ At(y, "push") /\ Top(y).p \in queueGuard
                 /\ \E z \in S : [at |-> "pump", p |-> Top(y).p] \in Range(stack[z])

InPost(x) == \E f \in Range(stack[x]) : f.at \in {"wait", "push"}

\* Posts come to an end: there is always a later moment at which none is under way, save
\* those whose thread is caught for good: in postBlocker, after a look at startComplete
\* that came too early, or in a ring of tasks that post to each other's pumps, a task that
\* posts to its own pump being the shortest ring.
PostsEnd == []<>(\A x \in OSThreads : InPost(x) => crashed \/ Deadlocked(x))
=============================================================================

# gitrpc: a TLA+ model of the git RPC service

gitrpc accepts `git push` over HTTP.  A Go frontend (`src/src/gitrpc-frontend`) speaks
the git protocol with the client and forwards packs and references over gRPC to a C++
server (`src/src/app`, `common`, `services/git`), which stores them with libgit2.  The
server is built on a small runtime of its own (`src/src/base`): a task dispatcher with
an epoll message pump, threads, pickles, events.

This directory models the push path from the HTTP request to the files on disk, and the
runtime below it: the pumps, threads and events, the second task dispatcher and the
serialisation.  It checks them with TLC on small instances, and proves the safety
properties of the push path, from the pump to the composed service, of the events and
threads, of the second dispatcher and of the pickles with TLAPS for every instance.

## The system

| Part | State | Operations |
|---|---|---|
| Message pump, Main task runner (`MessagePumpEPoll`, `Dispatcher`, `TaskRunner`, `Task`) | priority queue, wake-up pipe, `startComplete`, the task running | `PostTask` from any thread; loop of epoll_wait, one-byte read, drain under `queueGuard` |
| Repository manager (`RepositoryManager`, `GitRepo`, libgit2) | the one open repository, its writepack; on disk: object database, references, HEAD | `OpenRepo`, `CloseRepo`, `AppendDataToPack`, `CommitPackChanges`, `NewReference`, `GetRepoRefs`, each the body of a task on the Main thread |
| `ReceivePackStream` handler (`RecvPackStream`) | one `Request` at a time: message buffer, `isRunning`, `repoOpen`, pending gRPC operations | events CONNECT, READ, WRITE, DONE, FINISH of its completion queue |
| Unary handlers (`RepoStateChange`, `WriteReference`) | the call being served, the future waited for | open, close (not waited for), create reference |
| Frontend (`git_server.go`) | per HTTP request, where it is | open; upload in lock step, "unpack ok"; write references, "ok" or "ng"; close |
| Threads and dispatcher (`Thread`, `IOWorkerThread`, `PlatformThread`, `Dispatcher`) | one static thread handle, Ids and names, tables of runners and Threads | create, `ThreadMain`, `AddTaskRunner`, `AddNamedThread`, `PostTask` by name |
| `EventHub` | event name to its handlers | `RegisterEvent`, `RegisterEventHandler`, `UnregisterEventHandler`, `TriggerEvent` |
| Task manager (`TaskManager`, `Runner`, `ThreadPool`) | per runner a priority queue, a condition variable, for pool workers `pendingTask` and `inUse`; the pool's queue and lock | `PostNonThreadPoolTask`, `PostThreadPoolTask`; a runner's loop of execute and wait |
| `Pickle`, `PickleIterator`, base64 | header, capacity, write offset, payload; read index | writes, `Reserve`, copy, assignment, view over bytes, `FindNext`, reads; encode, decode |
| Start-up (`AppBase`, `AppImpl`, `GRPCServer`) | which threads exist | pump, then init task, then gRPC server, then handler threads |

Interaction: a frontend goroutine makes one gRPC call at a time.  Each of the three
kinds of call has its own handler thread on the server.  A handler posts a task to the
Main runner and blocks on its future, except for a close, which nobody waits for.
All requests share the single `currentRepo`.  The server as built uses neither the task
manager nor `EventHub`, Threads and pickles: they are the library's offer to its users,
so their models leave the users' code free within bounds.

What is hard here: a post races the pump's sleep; the pipe is finite, its bytes are
read one per wake and a refused write is ignored; task priorities are uninitialised, so tasks of different handlers
(and a close and the following open of the same handler) run in any order; the
repository can be closed under a push by another request; chunks are acknowledged
before they are appended and "unpack ok" is sent before the commit; the stream
handler's tags carry no identity; failed events are dropped; libgit2 calls fail
halfway; tasks run with the queue's lock held; condition variables are waited for without
a predicate; hub, thread handle and task queues are shared without a lock; pointers into
a queue outlive their element.  `PROJECT.json` lists these under "hazards", each with the properties
that watch it or the reason why none does.

## Modules

* `TaskQueue` is the abstract specification of a task runner: `Post`, `Begin`, `End`;
  tasks run one at a time, once each, a most urgent one first, and nothing is promised
  among equals (`std::priority_queue` is not stable).
* `MessagePump` models `MessagePumpEPoll.cpp` and the threads that post to it, at the
  grain of single system calls and lock sections.  `bytes` and `edge` are the pipe and
  the edge epoll has yet to report; `pumpPc` is the place in `StartMessageLoop`;
  `postPc[p]` the place of handler `p` in `PostMessageToThread` or in its wait.
  `Bind` is the constructor overload that leaves the priority of a task with
  arguments unset: the initial state chooses any value for it.
* `RecvPackStream` models the stream handler, one action per event it takes off the
  completion queue, with the frontend's upload loop as its client.  `ops` counts the
  gRPC operations started and not returned, by tag.  `orphans` are Reads whose
  `Request` was deleted.  What the repository answers is a parameter.
* `UnaryRequest` models the life of the `Request` objects of the two unary handlers,
  which share their code: each is the tag of its own operations, remembers in `status`
  what its event means, arms its successor before it handles its call and deletes
  itself when its answer is out.
* `RepositoryManager` models the six tasks and the part of libgit2 they use.  Each
  operation takes its answer as a parameter; `"none"` means the process died in it.
  A `GitRepo` records which pointers a failed `Open` left unset; a call through one
  dies, or answers anything without effect, and sets `undefined`.  The listing of
  references goes through two pointers nobody set as soon as there is a reference.
* `PushService` composes `RecvPackStream` and `RepositoryManager` (as `Stream` and
  `Manager`) with the frontends, the two unary handlers and the Main thread.  A unary
  call is two steps there, taken and answered, one call at a time per handler.  The pump appears as `RunSomeTask`, which
  takes any waiting task: that is `TaskQueue` with unset priorities.
* `EventHub` models the hub, the dispatcher's tables, Threads and I/O workers.  A thread
  is a stack of frames, so that a handler can be called from a loop over handlers, call
  the hub itself, and post.  A pump is what `TaskQueue` says, plus the `queueGuard` it
  holds while it runs a task.  `Callers` says which code calls what.  `expected`, `ran`
  and `dropped` record what was asked for and what became of it; `raced` and `mixed` mark
  the handlers and threads that an unlocked overlap has spoilt.
* `TaskManager` models the second dispatcher.  A `std::priority_queue` is the set of its
  tasks, the task in its first slot and its capacity: `top()` is a pointer to that slot,
  which shows another task after a push or a pop and dangles after a reallocation.  What
  goes through a dangling pointer sets `undefined`, and the behaviour ends; so do two
  pushes at once, a pop during a push, and, as one of the outcomes, a look at the queue
  during a push.  Tasks are posted to the names of existing runners: for any other name
  `runners.at` throws before anything has changed.
* `Pickle` follows one pickle through writing, sending, viewing, copying and reading, on
  bytes; the writers and readers are operators.  `Base64` has the two conversions and
  `Armours`, what they promise of each other.
* `MC*` give the constants values; `*Proofs` hold the proofs about the module they name.

Operators whose comment describes a bug ("A pump that empties the pipe on every wake")
are not part of the specifications: they are variants of the definition below them,
kept to show that a property notices the bug.  `PROJECT.json` says which goes with
which.

## Runs

| Run | Instance | What it shows |
|---|---|---|
| `pump` | 3 handlers, 4 tasks, priorities {1, 2, 3}, pipe of 2 bytes | `NoLostWakeup`, `EveryWakeHasAByte` and `FullPipeIsSafe` of the wake-up protocol; `NoPosterBlocks`; `EveryPostedTaskRuns`; the refinement `ImplementsTaskQueue` |
| `stream` | 2 uploads of up to 3 chunks, either frontend may disappear | the one-operation-at-a-time rule of gRPC, order and completeness of appends, the acknowledgement's lead of one chunk, that only a lost frontend blocks the service, that uploads are served |
| `unary` | 4 calls, 2 of them not waited for, 3 frontends may disappear | one `Request` always armed, none touched after its deletion, only a lost frontend leaks one, every call answered |
| `repository` | 3 packs of 2 chunks, 2 references (two packs for one of them), all failures, stale names | `RefIntegrity`, with the listing of references among the tasks |
| `push_alone` | 1 push of 3 chunks, 2 advertisements, no failing open and no stale name | `NoCrashDuringUpload` |
| `push_pair` | 2 pushes of up to 2 chunks to one reference | `AnswersMatchWaits`, `EveryRequestEnds` |
| `push_failures` | as before, with failing libgit2 calls, a mortal frontend and stale names | `OkImpliesDurable`, `OnlyAForeignCloseKills` |
| `events` | main thread with its runner, a Thread, an I/O worker; 2 events, 3 handlers, 2 triggers, 1 removal | `DeliveredOnce`, `ThreadIdentity`, and the liveness property `PostsEnd` |
| `taskmanager` | 2 posters; 3 tasks of 2 priorities for the main runner, or a pool of none, one or two | `ExactUnlessOvertaken`, `SleepsOnWorkOnlyIfMissed` |
| `taskpool` | 1 poster, 1 task, a pool of one | violation of `PoolTasksRun` |
| `pickle` | up to 3 values of 8 kinds, two header sizes, streams cut or followed by other bytes | `RoundTrip`, `FitsAllocation`, `ReaderStaysInside`, `PayloadSurvivesBase64` |
| `pickle_copy` | as before, with writes to copies of received pickles | violation of `WritesAppend` |

Deadlock is not checked: each instance has finitely many requests, tasks, triggers or
values and rightly stops after them, and a process that died takes no step.

Two runs show where the code departs from what its headers say:

* `taskpool`: a pool worker looks at `pendingTask`, finds none, and is handed a task and
  signalled before it reaches `Wait` (`Runner.cpp:36`).  It sleeps with the task and stays
  marked in use.  `TaskManager.h:42` promises that a posted task is executed.
  `SleepsOnWorkOnlyIfMissed` says that this window is the only way a runner sleeps on
  work, for the runners with a queue of their own as well.
* `pickle_copy`: a pickle viewed over received bytes has `write_offset_` 0, its copy
  inherits that (`Pickle.cpp:53`), and the first value written to the copy replaces the
  payload.  `Pickle.h:221` says that values are appended.

A runner with a queue of its own can lose a task in another way: `ExecuteRegularTask`
invokes the top of the queue and then pops the top, whatever that is by then
(`Runner.cpp:45`), so a more urgent task pushed in between is popped without having been
called.  `ExactUnlessOvertaken` does not deny this; it says that it is the only way to
lose or repeat a task, short of undefined behaviour.

Three more remarks of `TaskManager.h` have no code behind them and need no model checker:
no pool means a null dereference, not a task on the main thread (line 43; modelled as
`undefined`); the `initTask` of `CreateRunnerOnNewThread` is posted nowhere (line 40); a
null `initTask` of `InitializeOnCurrentThread` is dereferenced (line 37).

What the composed runs say about the code as it is: a reference reported "ok" is on
disk with its pack committed, in every interleaving and under every failure, as long
as no call went through an unset pointer.  The converse is not promised: with two
pushes at once a push can be told "ng" although nothing failed, and one push's close
can end the process in the middle of the other's appends.  `OnlyAForeignCloseKills`
and `NoCrashDuringUpload` state exactly how far that goes: a push never does this to
itself, and while a push is alone no order of its tasks ends the process.  The latter
supposes opens that find their repository, which the code does not guarantee: every open
reads a name whose buffer is gone (`RepoProxy.cpp:23`), and `push_alone` sets `StaleNames`
to `{}`; `push_failures` does not.  Nor does it say that the process survives: when a stream
is finished its last Read completes into a deleted `Request`, and that may end the process
of a push that was alone as well.  It is then over: all its chunks are with the repository.
`CommitCoversAll` compares the commit with what the frontend sent; that a frontend which
could not read its client's body to the end sends less, and ends it as if it were all, is
`OkImpliesDurable`'s matter: such a pack is "ok" only if it could be committed.  Likewise
`StuckOnlyByLoss` marks the one way in which the stream handler can stop serving.

The library's part is weaker than its interface suggests, and its properties say where
the line runs.  An event reaches exactly the handlers registered when it was triggered,
once each, except those touched while another thread was inside `UnregisterEventHandler`:
they may be missed, or reached after their removal, though never twice.
A handler always runs on its owner's thread, but `THREAD_CHECK` can fail there until `Start` has
stored the Id, and for threads created at the same time.  A post ends, except for a thread
whose look at `startComplete` came before a start that signalled too early, and for tasks
that post round in a ring of pumps: the pump runs them with its `queueGuard` held.  A
runner calls each task exactly once, unless a more urgent one is pushed while it runs.
The variables behind these exceptions (`overtaken`, `raced`, `mixed`, and `BeingCreated`)
mark the hazards themselves: the properties do not deny them, they say that nothing else
goes wrong and what still holds for what they touch.

The wake-up pipe deserves a word.  The pump takes one byte per wake, so bytes stay
behind when several posts share a wake, and a refused write is only logged; it looks as
if the pipe could fill up and leave the pump asleep.  It cannot (`FullPipeIsSafe`): each
successful write raises an edge, each edge is followed by a read, so a pump without an
edge to come has taken at least one byte since the pipe was last full.  This rests on
epoll(7) raising an edge for every write, also to a pipe that is not empty; with a pipe
that reports only the step from empty to not empty, `NoLostWakeup` fails.

### Bounds

Two uploads are enough for one stream to follow another on the same handler, and for
one request's open, append, commit or close to fall between any two tasks of another.
Three chunks give a first, a middle and a last chunk; where two pushes are composed
two suffice, since the middle chunk is covered by `stream` and `push_alone`.  Three
handlers are the three of the server.  The pipe of 2 bytes is full when three posts meet
in front of one wake, and the third is refused.  `MCRepositoryManager` bounds the two counters that grow without
end: `MaxReopens` for `repoRefCnt`, which nothing reads, and `MaxAppends`, one chunk
more than a whole pack.

`events`: one handler on the Main runner, one on a Thread and one called directly are the
three ways of dispatch; two triggers let an event be triggered from a handler of another;
two pumps make the shortest ring between pumps, and one pump the shortest of all; a Thread
and a worker are enough for one creation to begin before the other's thread has its name.  `taskmanager`: two posters are
enough for a push between any two steps of another and of a runner, three tasks for a
reallocation and for a task that overtakes.  `pickle`: allocation in units of 8 bytes
instead of 64 makes three values outgrow a block repeatedly; the kinds have one value for
each width, each padding and each way of writing a length; `Noise` cuts a whole word or a
part of one, and adds more than a word.

### Fairness

`MessagePump!FairSpec` assumes that the pump and a thread inside a post are scheduled;
no handler has to post.  `RecvPackStream!FairSpec` assumes that the handler takes
available events, the repository answers, and a frontend that is still there goes on
(its uploads are finite).  `UnaryRequest!FairSpec` assumes that the handler takes
available events and that the task it waits for answers.  `PushService!FairSpec` assumes the same of each handler,
each frontend and the runner; that the runner never stops while a task waits is what
`EveryPostedTaskRuns` shows for the pump.  `TaskManager!Spec` assumes that every runner
and every thread inside a post goes on; no wait returns without a signal by fairness.
`EventHub!Spec` assumes only that some thread runs while one can: the calls users make are
not forced, and `PostsEnd` asks for moments at which no post is under way.
Apart from the last, all are weak fairness on a thread's whole step: none of these threads is preempted for
ever, and none chooses among enabled steps in a way that could starve one.

## Proofs

`MessagePumpProofs`, for any handlers, tasks, priorities and pipe capacity.  The
inductive invariant is `Shape`: types, `NoPosterBlocks`, that the pump has a task
exactly while it invokes one, the start-up order, and that a poster which has not
pushed yet is the only holder of its task.  The last two are what the types alone lack:
without the start-up order a poster could be caught in the condition variable, without
the ownership a task could be pushed twice.  From `Shape`:

* `TypeCorrect`, `PostersNeverBlock`;
* `WakeupsHold`: `NoLostWakeup`, `EveryWakeHasAByte` and `FullPipeIsSafe` are inductive
  together, relative to `Shape`;
* `PumpImplementsTaskQueue`: push maps to `Post`, pop to `Begin`, the return of
  `Invoke` to `End`, and every other step to a stutter.

`UnaryRequestProofs`, for any calls, awaited or not, and any frontends that disappear.
The inductive invariant `Life` says what each `Request` has pending: the newest one its
call and nothing else, an older one in `FINISH` its finish unless it was dropped, one in
`READ` is the one the handler waits on, a dead one nothing; no two have the same call, and a
call is unanswered until its `Request` finishes.  `NoEventForTheDead` alone is not
inductive: that the finish a `Request` waits for is its only operation follows from its
status, which the property does not mention.  From it `TypeCorrect`, `AlwaysOneArmed`,
`DeadAreNotTouched`, `OnlyTheGoneLeak`.

`RecvPackStreamProofs`, for any uploads of any number of chunks.  Tags carry no identity,
so nothing in the state says which operation an event belongs to; the invariant has to.
`Inv` splits the life of the served `Request` into phases and gives for each the pending
operations, the message in its buffer, the flags, and where the frontend is in its upload
(`Served`), and for the frontends that are not served the state of their streams
(`Streams`).  Each action moves between two phases; one lemma per action shows it.  All
eight invariants of the `stream` run follow from `Inv` without induction, from
`TypeCorrect` to `OnlyLossBlocks`.

`RepositoryManagerProofs`, for any packs, references, repositories, failures and stale
names: `TypeCorrect`, with the strengthening that an opened `GitRepo` belongs to a
repository that exists (otherwise its name would not be an index of the disk's
functions), `ReferencesHaveTargets`, and the action property `DiskOnlyGrows`.  Listing
references needs lemmas of its own (`ListKeeps`, `ListTyped`): it may pass through an unset
pointer, yet leaves the disk alone.  `Healthy` is the invariant of a manager whose opens
find their repository: an open `GitRepo` has all its pointers set.

`PushServiceProofs`, for any pushes and fetches, any failures and any order of the tasks.
The argument has layers, because each part's theorems are needed to establish the next:

1. `ServiceRunsTheStream`: every step of the service is one of `RecvPackStream` or leaves
   its variables alone, so `Inv` holds in the service.
2. `CallsHold`: each task in the queue is the one its handler waits for (`Waits`), each
   handler works on a call its frontend waits for (`Taken`), only a push that was told of
   its reference closes (`Closing`), and a frontend in the middle of its upload is nowhere
   else (`Uploading`).  `Inv` gives what the stream handler waits for.  `AnswersGoHome` follows.
3. `ServiceRunsTheManager`: every task is a step `RepositoryManager` allows, since the
   arguments of a task are still those its handler put there; so its invariants hold.
4. `ToldHolds`: while a push uploads, the repository is open or somebody has closed it
   (`OpenedFirst`), and an answer "success" on its way from the task to the frontend means
   the reference is on disk (`Told`), where `DiskOnlyGrows` keeps it.  `OkIsDurable` and
   `OwnCloseIsHarmless` follow.
5. `AloneIsSafe`: with at most one push and with opens that find their repository
   (`Alone`, the hypotheses of the run `push_alone`), no order of the tasks ends the
   process in a task.  Only the Read of a deleted `Request` can (`DiesOver`), and by
   `Inv` the push it belongs to has had all its chunks appended.

`TaskManagerProofs`, for any posters, tasks, priorities, named runners and pools, up to
the first undefined behaviour.  `Shape` has the types, what the place of a poster says of
its locals (`Posting`), that a queue which is not empty has storage with one of its own
tasks in the first slot (`Slots`), and that a runner invokes and pops only what is there
(`Places`); without the last two a pop could empty an empty queue.  On top of it

* `Asleep`: a runner with a task in its queue that sleeps, or has looked and is about to,
  has missed a signal or has a poster about to signal it; and a worker in use has its
  task or a poster about to hand it over.  The property speaks of the sleep alone; a
  signal that comes between look and sleep makes the longer form necessary.
  `SleepersAreSignalled` follows.
* `Called`: how often a task was called at each point of its life: not posted, on its way,
  queued, called and not yet popped, popped.  Which task is on top is decided by priorities,
  which the proof does not look at; what counts is whether the slot changed between the
  call and the pop (`overtaken`).  `TasksAreExact` follows.

`PickleProofs`, for any values, header sizes, units of allocation and disturbed streams.
`Sound` is what every pickle keeps: offset and payload on the grid of words, the offset in
the payload, an allocated payload inside its allocation.  `Own` is what it keeps until it
is sent: the offset is the end of the payload.  `Inside` is what an iterator keeps.  A
damaged stream keeps its first four bytes or is rejected, so the size read from it is on
the grid; this is what carries `Sound` through `ReceiveAll`.  `AllocationIsEnough` and
`ReaderIsContained` follow.  `ValuesSurvive` needs to say which bytes the payload has.
`Chain` does without recursion: there are places, each the width of a value behind the one
before, at which the values are found, and the last is the end of the payload.  A write
extends the chain, a read takes its first link off, and a pickle cut out of a stream by
`FindNext` has the payload that was sent.  It holds under `Small`: the widths of
`MaxItems` values add up to an `int` (the run: 3 values of at most 12 bytes), because
`payload_size` and the lengths are read back as `int`.  The other hypothesis, that no copy
of a received pickle is written to, is what `pickle_copy` shows to be needed.

`EventHubProofs`, for any threads, runners, workers, events, handlers and callers, and any
number of triggers and removals.  `Inv` has four parts:

* `TypeInv`: the types, those of the calls on each thread's stack included.
* `ThreadInv`: each call is on the thread it belongs to (`CallOK`): a pump's loop on the
  thread that made the runner or is the Thread, a handler's task in the queue of its owner
  and then on the owner's thread.  The creations under way are at most one, the one the
  static handle is for, or all of them are `mixed`; and an unmixed thread has its Id and
  its name or a call under way that will give it.  `ThreadIdentity` says nothing of the
  queues and posts a task comes through, nor of the handle, which decides whose name the
  next step sets.
* `HubInv`: every vector of the table has the handlers of its event, none twice; the table
  and each copy a thread is about to store (`EraseOK`) agree with `registered`, except on the
  `raced` handlers and the one being removed; and two threads that erase from one vector
  have raced.  The copies are what the table alone lacks: `StoreHandlers` puts one back.
* `DeliveryInv`: a share of an event is in at most one place (`OnePlace`), a position in a
  stack, a queue, `dropped` or done; it is somewhere (`Somewhere`) exactly if its handler was
  expected.  A place is a position, not a frame, since two equal frames are one element of
  a set: only so does a push or a pop on one stack leave the places of all other shares.

A step either moves no share (`Still`, `Passive`) or moves one from one place to another
(`Moves`), or it is `TriggerEvent`, which creates the shares of a new event in its loop
(`Enters`) and needs `HubInv` to know that these are the expected ones.  `StoreHandlers`
keeps `HubInv` because another copy of the same vector would have raced.  From `Inv`:
`HandlersOnTheirThreads`, `EventHubTypes`, and `EventsDeliveredOnce`, in which the five sets
that `Shares` counts are shown to be empty but for one element.

Assumptions on constants: the init task is one of the tasks without arguments,
priorities are integers that include `LOW`, the pipe holds at least one byte; each
pack's reference is a name, and `NoRepo` is neither a pack, nor a name, nor a `GitRepo`;
the values that mean "nobody", "no call" and "no answer" are not requests, calls or
answers; an upload may have a chunk; the repository that is asked for is one of `Repos`, a
missing one being an open that fails; the names of runners, the numbers of workers and the
posters are different things; a handler has an event of the hub and an owner that is a
runner, a Thread or nobody, Threads, workers and runners are different objects, the main
thread is none that is created, and triggers and removals are bounded by naturals; a value of a fixed size has that many bytes and a wide
string whole characters, a header has room for `payload_size`, the unit of allocation is
not 0.

Only model-checked: `PayloadSurvivesBase64`, since the functions of `Base64` work through a
text of any length, which takes an induction over data; and all liveness (`PostsEnd` of
`EventHub` and the eventualities of the pump, the stream, the unary handlers and the
service), which is beyond the prover.

## Not modelled

* Message filters, raw pumps, `PostTaskToThread` and `PostTaskToTaskRunner` of the
  dispatcher: no code calls them.  Two runners of one name, which would share the state
  of the first.
* `ListRefRequests`, a stub; the synchronous `GitServiceImpl`, which is compiled and never
  registered with the server, so that no behaviour contains a step of it.
* The Windows and Android pumps: other builds, on top of message queues of the system that
  would themselves have to be modelled from their documentation.
* Data races inside a container.  Each access to the hub's map and vectors, and each
  unlocked `empty()` of a runner's or the pool's queue, is one step; what happens between
  such steps is modelled, a torn access is not.
* What a call of libgit2 through an unset pointer destroys: it dies or has no effect.  So
  `RefIntegrity` and `DiskOnlyGrows` say nothing of a wild write.
* More than one reference per push; parsing of the command list; what an
  advertisement contains.
* Failures at start-up and of `pthread_create`, which the code logs or exits on; logging,
  metrics, the IPC wrappers, vendored and build code.

## Plan

The modules were written from the bottom up: `TaskQueue` and `MessagePump`, the handlers
`RecvPackStream` and `UnaryRequest`, `RepositoryManager`, their composition `PushService`,
then the library: `EventHub` with Threads, `TaskManager`, `Pickle`, `Base64`.  Every safety
invariant of the runs that does not take an induction over data is proved.  Open: a
push with several references, and the pumps of the other platforms.

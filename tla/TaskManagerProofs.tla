-------------------------- MODULE TaskManagerProofs --------------------------
(***************************************************************************)
(* Proofs about the task manager, for any runners, posters, tasks,         *)
(* priorities and programs, and a pool of any size.                        *)
(*                                                                         *)
(* Every claim stops at undefined behaviour.  What is shown before it does *)
(* not rest on the priorities: a task is in danger when the slot that      *)
(* top() points to changes while its runner is between Invoke and pop, and *)
(* a runner is in danger between its last look and its sleep.              *)
(***************************************************************************)
EXTENDS TaskManager, FiniteSetTheorems, WellFoundedInduction, TLAPS

---------------------------------------------------------------------------
(* The invariants.                                                         *)

\* What a poster's place says of its locals.
Posting ==
    \A p \in Posters :
        /\ postPc[p] \in {"pushing", "signal"} =>
              postTask[p] \in DOMAIN HomeOf /\ target[p] = HomeOf[postTask[p]]
        /\ postPc[p] \in {"top", "reset", "poolsignal", "queuepop"} => target[p] \in Workers
        /\ postPc[p] = "reset" => held[p] # Null

\* A queue that is not empty has storage, with one of its tasks in the first slot; and a
\* queue holds its own tasks only.
Slots ==
    /\ \A q \in Queues : queue[q] # {} => slot[q] \in queue[q] /\ cap[q] # 0
    /\ \A q \in Names : \A t \in queue[q] : t \in DOMAIN HomeOf /\ HomeOf[t] = q
    /\ queue["pool"] \subseteq PoolTasks
    /\ cap["pool"] # 0 => slot["pool"] \in PoolTasks

\* What a runner's place says: only a runner with a queue pops, it does so from a queue
\* that is not empty, and a worker that invokes has been given a pointer.
Places ==
    \A r \in Runners :
        /\ runnerPc[r] \in {"pop", "test"} => r \in Names
        /\ runnerPc[r] \in {"invoking", "pop"} /\ r \in Names => queue[r] # {}
        /\ runnerPc[r] = "invoking" /\ r \notin Names => cap["pool"] # 0

Shape == TypeOK /\ Posting /\ Slots /\ Places

\* A poster that is about to signal r, its own queue having been filled.
ToSignal(r) == \E p \in Posters : target[p] = r /\ postPc[p] = "signal"

\* A poster that is about to hand a task to worker r, or to signal it.
ToHandOver(r) == \E p \in Posters : target[p] = r /\ postPc[p] = "reset"
ToPoolSignal(r) == \E p \in Posters : target[p] = r /\ postPc[p] = "poolsignal"

\* The work of a runner that sleeps or is about to: what it will be signalled for, or has
\* missed.  A worker in use has its task, or is about to get it.
RunnerAsleep(r) ==
    runnerPc[r] \in {"sleepy", "waiting"} /\ queue[r] # {} => r \in missed \/ ToSignal(r)
WorkerAsleep(r) ==
    inUse[r] =>
        /\ pending[r] = Null => ToHandOver(r)
        /\ runnerPc[r] \in {"sleepy", "waiting"} =>
              r \in missed \/ ToHandOver(r) \/ ToPoolSignal(r)

Asleep ==
    \/ undefined
    \/ (\A r \in Names : RunnerAsleep(r)) /\ (\A r \in Workers : WorkerAsleep(r))

OnTheWay(t) == \E p \in Posters : postPc[p] = "pushing" /\ postTask[p] = t
Begun(t) == runnerPc[HomeOf[t]] \in {"invoking", "pop"} /\ slot[HomeOf[t]] = t

\* A task of a runner's own queue: not posted, on its way, in the queue, begun, or popped.
Exact(t) ==
    /\ t \notin posted \/ OnTheWay(t) =>
          runs[t] = 0 /\ t \notin completed /\ t \notin queue[HomeOf[t]]
    /\ t \notin posted => ~OnTheWay(t)
    /\ t \in queue[HomeOf[t]] /\ ~Begun(t) => runs[t] = 0 /\ t \notin completed
    /\ t \in queue[HomeOf[t]] /\ Begun(t) =>
          runs[t] = 1 /\ (t \in completed => runnerPc[HomeOf[t]] = "pop")
    /\ t \in posted /\ ~OnTheWay(t) /\ t \notin queue[HomeOf[t]] => runs[t] = 1

Called == undefined \/ \A t \in DOMAIN HomeOf : HomeOf[t] \in overtaken \/ Exact(t)

---------------------------------------------------------------------------
(* The shape of the state.                                                 *)

\* A pool of at least one unused worker has a first one.
LEMMA FirstUnused ==
    ASSUME TypeOK, Unused # {}
    PROVE  (CHOOSE w \in Unused : \A v \in Unused : w <= v) \in Workers
<1>1. Unused \subseteq Nat /\ Unused \subseteq Workers
    BY SizeAssumption DEF TypeOK, Unused, ThreadPool, Workers
<1>2. \E w \in Unused : \A v \in Unused : ~(<<v, w>> \in OpToRel(<, Nat))
    BY <1>1, NatLessThanWellFounded, WFMin
<1>3. \A v, w \in Nat : v < w => <<v, w>> \in OpToRel(<, Nat)
    BY DEF OpToRel
<1>4. \E w \in Unused : \A v \in Unused : w <= v
  <2>1. PICK w \in Unused : \A v \in Unused : ~(<<v, w>> \in OpToRel(<, Nat))
    BY <1>2
  <2>2. \A v \in Unused : ~(v < w)
    BY <1>1, <1>3, <2>1
  <2>3. \A v \in Unused : w <= v
    BY <1>1, <2>2
  <2>4. QED BY <2>3
<1>5. (CHOOSE w \in Unused : \A v \in Unused : w <= v) \in Unused
    BY <1>4
<1>6. QED BY <1>1, <1>5

\* What a push does: it adds the task to one queue, which then has storage, and puts it
\* into the first slot or leaves the slot alone.
LEMMA PushEffect ==
    ASSUME Shape, NEW q \in Queues, NEW t \in Tasks, Push(q, t)
    PROVE  /\ queue' \in [Queues -> SUBSET Tasks] /\ slot' \in [Queues -> Tasks]
           /\ cap' \in [Queues -> Nat] /\ completed' = completed
           /\ queue'[q] = queue[q] \cup {t}
           /\ slot'[q] \in {t, slot[q]} /\ (queue[q] = {} => slot'[q] = t)
           /\ cap'[q] # 0
           /\ \A o \in Queues : o # q => /\ queue'[o] = queue[o] /\ slot'[o] = slot[o]
                                         /\ cap'[o] = cap[o]
<1>1. cap[q] \in Nat /\ (cap[q] = 0 => queue[q] = {})
    BY DEF Shape, TypeOK, Slots
<1>2. cap[q] = 0 => ~(Cardinality(queue[q]) < cap[q])
    BY <1>1, FS_EmptySet
<1> DEFINE c == IF Cardinality(queue[q]) < cap[q] THEN cap[q]
                ELSE IF cap[q] = 0 THEN 1 ELSE 2 * cap[q]
<1>3. c \in Nat /\ c # 0
  <2>1. CASE cap[q] = 0
    BY <1>2, <2>1
  <2>2. CASE cap[q] # 0
    BY <1>1, <2>2
  <2>3. QED BY <2>1, <2>2
<1>4. cap' = [cap EXCEPT ![q] = c]
    BY DEF Push
<1> HIDE DEF c
<1>5. cap' \in [Queues -> Nat] /\ cap'[q] # 0 /\ \A o \in Queues : o # q => cap'[o] = cap[o]
    BY <1>3, <1>4 DEF Shape, TypeOK
<1>6. /\ queue' \in [Queues -> SUBSET Tasks] /\ queue'[q] = queue[q] \cup {t}
      /\ \A o \in Queues : o # q => queue'[o] = queue[o]
    BY DEF Push, Shape, TypeOK
<1> DEFINE s == IF queue[q] = {} \/ prio[t] < prio[slot[q]] THEN t ELSE slot[q]
<1>7. s \in {t, slot[q]} /\ (queue[q] = {} => s = t) /\ slot' = [slot EXCEPT ![q] = s]
    BY DEF Push
<1> HIDE DEF s
<1>8. /\ slot' \in [Queues -> Tasks] /\ slot'[q] = s
      /\ \A o \in Queues : o # q => slot'[o] = slot[o]
    BY <1>7 DEF Shape, TypeOK
<1>9. QED BY <1>5, <1>6, <1>7, <1>8 DEF Push

\* What a pop does: the task in the first slot goes, and one of the others takes its place.
LEMMA PopEffect ==
    ASSUME Shape, NEW q \in Queues, Pop(q)
    PROVE  /\ queue' \in [Queues -> SUBSET Tasks] /\ slot' \in [Queues -> Tasks]
           /\ cap' = cap /\ completed' = completed
           /\ queue'[q] = queue[q] \ {slot[q]}
           /\ queue'[q] # {} => slot'[q] \in queue'[q]
           /\ slot'[q] \in queue[q] \cup {slot[q]}
           /\ \A o \in Queues : o # q => queue'[o] = queue[o] /\ slot'[o] = slot[o]
<1> DEFINE rest == queue[q] \ {slot[q]}
<1>1. /\ queue' = [queue EXCEPT ![q] = rest]
      /\ UNCHANGED <<cap, completed>>
      /\ \/ rest = {} /\ slot' = slot
         \/ \E t \in rest : slot' = [slot EXCEPT ![q] = t]
    BY DEF Pop
<1>2. /\ queue' \in [Queues -> SUBSET Tasks] /\ queue'[q] = rest
      /\ \A o \in Queues : o # q => queue'[o] = queue[o]
    BY <1>1 DEF Shape, TypeOK
<1>3. /\ slot' \in [Queues -> Tasks]
      /\ \A o \in Queues : o # q => slot'[o] = slot[o]
      /\ slot'[q] \in rest \/ (rest = {} /\ slot'[q] = slot[q])
    BY <1>1 DEF Shape, TypeOK
<1>4. QED BY <1>1, <1>2, <1>3

\* The runners and the main thread are there, and one task is in one queue.
LEMMA InitShape == Init => Shape
<1> SUFFICES ASSUME Init PROVE Shape
    OBVIOUS
<1>1. PICK program \in Programs : size = PoolSize(program.asked) /\ load = program.load
    BY DEF Init
<1>2. size \in 0 .. Hardware /\ load \subseteq Tasks
    BY <1>1, ProgramAssumption, SizeAssumption DEF PoolSize, Tasks
<1>3. InitTask \in Tasks /\ Main \in Runners /\ Main \in Queues /\ "pool" \in Queues
    BY HomeAssumption, NamesAssumption DEF Tasks, Runners, Queues
<1>4. TypeOK
    BY <1>2, <1>3 DEF Init, TypeOK, Bind, CreateRunnerOnNewThread, CreateThread, Null
<1>5. Posting
    BY DEF Init, Posting
<1>6. Slots
  <2>1. /\ queue = [q \in Queues |-> IF q = Main THEN {InitTask} ELSE {}]
        /\ slot = [q \in Queues |-> InitTask]
        /\ cap = [q \in Queues |-> IF q = Main THEN 1 ELSE 0]
    BY DEF Init, CreateRunnerOnNewThread
  <2>2. "pool" # Main /\ Names \subseteq Queues
    BY NamesAssumption DEF Queues
  <2>3. QED BY <1>3, <2>1, <2>2, HomeAssumption DEF Slots
<1>7. Places
    BY DEF Init, Places, CreateThread
<1>8. QED BY <1>4, <1>5, <1>6, <1>7 DEF Shape

\* A step of a poster that leaves the queues and the runners' places alone.
LEMMA PosterShape ==
    ASSUME Shape, NEW p \in Posters, UNCHANGED <<prio, size, load>>,
           \/ \E t \in Tasks : PostNonThreadPoolTask(p, t)
           \/ RunnerSignal(p) \/ GetUnusedThread(p) \/ TakeTop(p) \/ PoolPostTask(p) \/ PoolSignal(p)
    PROVE  Shape'
<1>1. InitTask \in Tasks /\ Main \in Runners /\ p \notin Runners /\ Names \subseteq Runners
      /\ Workers \subseteq Runners /\ "pool" \in Queues
      /\ \A t \in DOMAIN HomeOf : t \in Tasks /\ HomeOf[t] \in Names
    BY HomeAssumption, NamesAssumption DEF Tasks, Runners, Workers, Queues
<1>2. target[p] \in Runners /\ (postPc[p] = "top" => target[p] \in Workers)
    BY DEF Shape, TypeOK, Posting
<1>3. CASE \E t \in Tasks : PostNonThreadPoolTask(p, t)
  <2>1. PICK t \in Tasks : PostNonThreadPoolTask(p, t)
    BY <1>3
  <2>2. TypeOK'
    BY <1>1, <2>1 DEF PostNonThreadPoolTask, Shape, TypeOK, queueVars, runnerVars
  <2>3. Posting'
    BY <1>1, <2>1 DEF PostNonThreadPoolTask, Shape, TypeOK, Posting
  <2>4. Slots' /\ Places'
    BY <2>1 DEF PostNonThreadPoolTask, Shape, Slots, Places, queueVars, runnerVars
  <2>5. QED BY <2>2, <2>3, <2>4 DEF Shape
<1>4. CASE RunnerSignal(p)
  <2>1. TypeOK'
    BY <1>1, <1>2, <1>4 DEF RunnerSignal, Signal, Return, Null, Shape, TypeOK, queueVars
  <2>2. Posting'
    BY <1>1, <1>4 DEF RunnerSignal, Return, Shape, TypeOK, Posting
  <2>3. Slots' /\ Places'
    BY <1>2, <1>4 DEF RunnerSignal, Signal, Shape, TypeOK, Slots, Places, queueVars
  <2>4. QED BY <2>1, <2>2, <2>3 DEF Shape
<1>5. CASE GetUnusedThread(p)
  <2> DEFINE w == CHOOSE w \in Unused : \A v \in Unused : w <= v
  <2>1. Unused # {} => w \in Workers
    BY FirstUnused DEF Shape
  <2>2. \/ Return(p)
        \/ /\ Unused # {} /\ target' = [target EXCEPT ![p] = w]
           /\ postPc' = [postPc EXCEPT ![p] = "top"] /\ UNCHANGED <<postTask, held>>
    BY <1>5 DEF GetUnusedThread
  <2>3. UNCHANGED <<queueVars, runnerVars, posted, undefined, runs, overtaken>>
    BY <1>5 DEF GetUnusedThread
  <2> HIDE DEF w
  <2>4. TypeOK'
    BY <1>1, <2>1, <2>2, <2>3 DEF Return, Null, Shape, TypeOK, queueVars, runnerVars
  <2>5. Posting'
    BY <2>1, <2>2 DEF Return, Shape, TypeOK, Posting
  <2>6. Slots' /\ Places'
    BY <2>3 DEF Shape, Slots, Places, queueVars, runnerVars
  <2>7. QED BY <2>4, <2>5, <2>6 DEF Shape
<1>6. CASE TakeTop(p)
  <2>1. TypeOK'
    <3>1. inUse' = inUse \/ inUse' = [inUse EXCEPT ![target[p]] = TRUE]
      BY <1>6 DEF TakeTop
    <3>2. inUse' \in [Workers -> BOOLEAN]
      BY <3>1 DEF Shape, TypeOK
    <3>3. held' = held \/ held' = [held EXCEPT ![p] = cap["pool"]]
      BY <1>6 DEF TakeTop
    <3>4. held' \in [Posters \cup Runners -> Nat]
      BY <1>1, <3>3 DEF Shape, TypeOK
    <3>5. QED
      BY <3>2, <3>4, <1>6 DEF TakeTop, Shape, TypeOK, queueVars
  <2>2. Posting'
    BY <1>1, <1>6 DEF TakeTop, Shape, TypeOK, Posting, Slots, Null
  <2>3. Slots' /\ Places'
    BY <1>6 DEF TakeTop, Shape, Slots, Places, queueVars
  <2>4. QED BY <2>1, <2>2, <2>3 DEF Shape
<1>7. CASE PoolPostTask(p)
  <2>0. target[p] \in Workers
    BY <1>7 DEF PoolPostTask, Shape, Posting
  <2>1. TypeOK'
    <3>1. /\ postPc' = [postPc EXCEPT ![p] = "poolsignal"]
          /\ pending' = pending \/ pending' = [pending EXCEPT ![target[p]] = held[p]]
      BY <1>7 DEF PoolPostTask, Fail, runnerVars
    <3>2. pending' \in [Workers -> Nat]
      BY <1>1, <2>0, <3>1 DEF Shape, TypeOK
    <3>3. undefined' \in BOOLEAN
      BY <1>7 DEF PoolPostTask, Fail, Shape, TypeOK
    <3>4. QED BY <3>1, <3>2, <3>3, <1>7 DEF PoolPostTask, Fail, Shape, TypeOK, queueVars, runnerVars
  <2>2. Posting'
    BY <1>7 DEF PoolPostTask, Fail, Shape, TypeOK, Posting
  <2>3. Slots' /\ Places'
    BY <1>7 DEF PoolPostTask, Fail, Shape, Slots, Places, queueVars, runnerVars
  <2>4. QED BY <2>1, <2>2, <2>3 DEF Shape
<1>8. CASE PoolSignal(p)
  <2>1. TypeOK'
    BY <1>2, <1>8 DEF PoolSignal, Signal, Shape, TypeOK, queueVars
  <2>2. Posting'
    BY <1>8 DEF PoolSignal, Shape, TypeOK, Posting
  <2>3. Slots' /\ Places'
    BY <1>2, <1>8 DEF PoolSignal, Signal, Shape, TypeOK, Slots, Places, queueVars
  <2>4. QED BY <2>1, <2>2, <2>3 DEF Shape
<1>9. QED BY <1>3, <1>4, <1>5, <1>6, <1>7, <1>8

\* The steps of a poster that push or pop.
LEMMA PushShape ==
    ASSUME Shape, NEW p \in Posters, UNCHANGED <<prio, size, load>>,
           \/ RunnerPostTask(p) \/ QueuePop(p)
           \/ \E t \in Tasks : PostThreadPoolTask(p, t)
    PROVE  Shape'
<1>1. /\ Names \subseteq Runners /\ Names \subseteq Queues /\ "pool" \in Queues /\ "pool" \notin Names
      /\ \A q \in Queues : q \in Names \/ q = "pool"
      /\ \A t \in DOMAIN HomeOf : t \in Tasks /\ HomeOf[t] \in Names
    BY HomeAssumption, NamesAssumption DEF Tasks, Runners, Queues
<1>2. ASSUME Fail, UNCHANGED <<postTask, target>>, posted' \subseteq Tasks,
             \E pc \in {"signal", "exec"} :
                 postPc' = [postPc EXCEPT ![p] = pc] /\ (pc = "signal" => postPc[p] = "pushing")
      PROVE  Shape'
  <2>1. TypeOK'
    BY <1>2 DEF Fail, Shape, TypeOK, queueVars, runnerVars
  <2>2. Posting'
    BY <1>2 DEF Fail, Shape, TypeOK, Posting
  <2>3. Slots' /\ Places'
    BY <1>2 DEF Fail, Shape, Slots, Places, queueVars, runnerVars
  <2>4. QED BY <2>1, <2>2, <2>3 DEF Shape
<1>3. CASE RunnerPostTask(p)
  <2>1. CASE Fail
    BY <1>2, <1>3, <2>1 DEF RunnerPostTask, Shape, TypeOK
  <2>2. CASE ~Fail
    <3> DEFINE q == target[p]
               t == postTask[p]
    <3>1. q \in Names /\ t \in DOMAIN HomeOf /\ HomeOf[t] = q /\ t \in Tasks
      BY <1>1, <1>3 DEF RunnerPostTask, Shape, Posting
    <3>2. Push(q, t) /\ UNCHANGED <<runnerVars, held, undefined, runs>>
      BY <1>3, <2>2 DEF RunnerPostTask
    <3>3. /\ queue' \in [Queues -> SUBSET Tasks] /\ slot' \in [Queues -> Tasks]
          /\ cap' \in [Queues -> Nat] /\ completed' = completed
          /\ queue'[q] = queue[q] \cup {t}
          /\ slot'[q] \in {t, slot[q]} /\ (queue[q] = {} => slot'[q] = t)
          /\ cap'[q] # 0
          /\ \A o \in Queues : o # q => /\ queue'[o] = queue[o] /\ slot'[o] = slot[o]
                                        /\ cap'[o] = cap[o]
      BY <1>1, <3>1, <3>2, PushEffect
    <3>4. /\ UNCHANGED <<postTask, target, posted>> /\ postPc' = [postPc EXCEPT ![p] = "signal"]
          /\ postPc[p] = "pushing" /\ (overtaken' = overtaken \/ overtaken' = overtaken \cup {q})
      BY <1>3, <2>2 DEF RunnerPostTask
    <3> HIDE DEF q, t
    <3>5. TypeOK'
      BY <1>1, <3>1, <3>2, <3>3, <3>4 DEF Shape, TypeOK, runnerVars
    <3>6. Posting'
      BY <3>2, <3>4 DEF Shape, TypeOK, Posting
    <3>7. Slots'
      BY <1>1, <3>1, <3>3 DEF Shape, Slots
    <3>8. Places'
      BY <1>1, <3>1, <3>2, <3>3 DEF Shape, Places, runnerVars
    <3>9. QED BY <3>5, <3>6, <3>7, <3>8 DEF Shape
  <2>3. QED BY <2>1, <2>2
<1>4. CASE \E t \in Tasks : PostThreadPoolTask(p, t)
  <2>0. PICK t \in Tasks : PostThreadPoolTask(p, t)
    BY <1>4
  <2>1. CASE Fail
    BY <1>2, <2>0, <2>1 DEF PostThreadPoolTask, Shape, TypeOK
  <2>2. CASE ~Fail
    <3>1. Push("pool", t) /\ UNCHANGED <<runnerVars, held, undefined, runs, overtaken>> /\ t \in PoolTasks
      BY <2>0, <2>2 DEF PostThreadPoolTask
    <3>2. /\ queue' \in [Queues -> SUBSET Tasks] /\ slot' \in [Queues -> Tasks]
          /\ cap' \in [Queues -> Nat] /\ completed' = completed
          /\ queue'["pool"] = queue["pool"] \cup {t}
          /\ slot'["pool"] \in {t, slot["pool"]} /\ (queue["pool"] = {} => slot'["pool"] = t)
          /\ cap'["pool"] # 0
          /\ \A o \in Queues : o # "pool" => /\ queue'[o] = queue[o] /\ slot'[o] = slot[o]
                                             /\ cap'[o] = cap[o]
      BY <1>1, <3>1, PushEffect
    <3>3. /\ UNCHANGED <<postTask, target>> /\ postPc' = [postPc EXCEPT ![p] = "exec"]
          /\ posted' = posted \cup {t}
      BY <2>0 DEF PostThreadPoolTask
    <3>4. TypeOK'
      BY <3>1, <3>2, <3>3 DEF Shape, TypeOK, runnerVars
    <3>5. Posting'
      BY <3>1, <3>3 DEF Shape, TypeOK, Posting
    <3>6. Slots'
      <4>1. cap["pool"] = 0 => queue["pool"] = {}
        BY <1>1 DEF Shape, Slots
      <4>2. QED BY <1>1, <3>1, <3>2, <4>1 DEF Shape, Slots
    <3>7. Places'
      BY <1>1, <3>1, <3>2 DEF Shape, Places, runnerVars
    <3>8. QED BY <3>4, <3>5, <3>6, <3>7 DEF Shape
  <2>3. QED BY <2>1, <2>2
<1>5. CASE QueuePop(p)
  <2>1. CASE Fail
    BY <1>2, <1>5, <2>1 DEF QueuePop, Shape, TypeOK
  <2>2. CASE ~Fail
    <3>1. /\ Pop("pool") /\ queue["pool"] # {}
          /\ UNCHANGED <<runnerVars, held, undefined, runs, overtaken>>
      BY <1>5, <2>2 DEF QueuePop
    <3>2. /\ queue' \in [Queues -> SUBSET Tasks] /\ slot' \in [Queues -> Tasks]
          /\ cap' = cap /\ completed' = completed
          /\ queue'["pool"] = queue["pool"] \ {slot["pool"]}
          /\ queue'["pool"] # {} => slot'["pool"] \in queue'["pool"]
          /\ slot'["pool"] \in queue["pool"] \cup {slot["pool"]}
          /\ \A o \in Queues : o # "pool" => queue'[o] = queue[o] /\ slot'[o] = slot[o]
      BY <1>1, <3>1, PopEffect
    <3>3. /\ UNCHANGED <<postTask, target, posted>> /\ postPc' = [postPc EXCEPT ![p] = "exec"]
      BY <1>5 DEF QueuePop
    <3>4. TypeOK'
      BY <3>1, <3>2, <3>3 DEF Shape, TypeOK, runnerVars
    <3>5. Posting'
      BY <3>1, <3>3 DEF Shape, TypeOK, Posting
    <3>6. Slots'
      BY <1>1, <3>1, <3>2 DEF Shape, Slots
    <3>7. Places'
      BY <1>1, <3>1, <3>2 DEF Shape, Places, runnerVars
    <3>8. QED BY <3>4, <3>5, <3>6, <3>7 DEF Shape
  <2>3. QED BY <2>1, <2>2
<1>6. QED BY <1>3, <1>4, <1>5

\* The steps of a runner.
LEMMA RunnerShape ==
    ASSUME Shape, NEW r \in Runners, UNCHANGED <<prio, size, load, posterVars>>,
           \/ ThreadMain(r) \/ ExecuteRegularTask(r) \/ ExecuteThreadPoolTask(r) \/ InvokeReturns(r)
           \/ PopTask(r) \/ TestEmpty(r) \/ Wait(r) \/ SpuriousWake(r)
    PROVE  Shape'
<1>1. /\ Names \subseteq Runners /\ Names \subseteq Queues /\ "pool" \in Queues /\ "pool" \notin Names
      /\ r \notin Posters /\ QueueOf(r) \in Queues
    BY NamesAssumption DEF Runners, Queues, Workers, QueueOf
<1>2. ASSUME Fail PROVE Shape'
    BY <1>2 DEF Fail, Shape, TypeOK, Posting, Slots, Places, queueVars, runnerVars, posterVars
<1>3. ASSUME NEW pc \in {"look", "pop", "test", "sleepy", "waiting"}, Goto(r, pc),
             pc \in {"pop", "test"} => r \in Names, pc = "pop" => queue[r] # {},
             UNCHANGED <<queueVars, pending, inUse, held, undefined, runs, overtaken>>,
             missed' \subseteq missed
      PROVE  Shape'
  <2>1. TypeOK'
    BY <1>3 DEF Goto, Shape, TypeOK, queueVars, posterVars
  <2>2. Posting' /\ Slots'
    BY <1>3 DEF Shape, Posting, Slots, queueVars, posterVars
  <2>3. Places'
    BY <1>1, <1>3 DEF Goto, Shape, TypeOK, Places, queueVars
  <2>4. QED BY <2>1, <2>2, <2>3 DEF Shape
<1>4. ASSUME NEW pointer \in Nat, BeginInvoke(r, pointer),
             IF r \in Names THEN queue[r] # {} ELSE pointer # Null
      PROVE  Shape'
  <2>1. CASE Fail
    BY <1>2, <2>1
  <2>2. CASE ~Fail
    <3>1. /\ pointer = cap[QueueOf(r)] /\ held' = [held EXCEPT ![r] = pointer]
          /\ runs' = [runs EXCEPT ![slot[QueueOf(r)]] = IF @ < Many THEN @ + 1 ELSE @]
          /\ runnerPc' = [runnerPc EXCEPT ![r] = "invoking"]
          /\ UNCHANGED <<queueVars, pending, inUse, missed, undefined, overtaken>>
      BY <1>4, <2>2 DEF BeginInvoke, Goto
    <3>2. runs' \in [Tasks -> Nat]
      BY <1>1, <3>1 DEF Shape, TypeOK, Many
    <3>3. TypeOK'
      BY <1>1, <1>4, <3>1, <3>2 DEF Shape, TypeOK, queueVars, posterVars
    <3>4. Posting' /\ Slots'
      BY <1>1, <3>1 DEF Shape, TypeOK, Posting, Slots, queueVars, posterVars
    <3>5. Places'
      BY <1>1, <1>4, <3>1 DEF Shape, TypeOK, Places, queueVars, QueueOf, Null
    <3>6. QED BY <3>3, <3>4, <3>5 DEF Shape
  <2>3. QED BY <2>1, <2>2
<1>5. CASE ThreadMain(r)
    BY <1>3, <1>5 DEF ThreadMain
<1>6. CASE ExecuteRegularTask(r)
  <2>1. cap[r] \in Nat /\ r \in Names
    BY <1>1, <1>6 DEF ExecuteRegularTask, Shape, TypeOK
  <2>2. CASE queue[r] # {} /\ BeginInvoke(r, cap[r])
    BY <1>4, <2>1, <2>2
  <2>3. CASE /\ Goto(r, IF queue[r] = {} THEN "test" ELSE "pop")
             /\ UNCHANGED <<queueVars, pending, inUse, missed, held, undefined, runs, overtaken>>
    <3>1. CASE queue[r] = {}
      BY <1>3, <2>1, <2>3, <3>1
    <3>2. CASE queue[r] # {}
      BY <1>3, <2>1, <2>3, <3>2
    <3>3. QED BY <3>1, <3>2
  <2>4. QED BY <1>2, <1>6, <2>2, <2>3 DEF ExecuteRegularTask
<1>7. CASE ExecuteThreadPoolTask(r)
  <2>1. r \in Workers /\ r \notin Names
    BY <1>7, NamesAssumption DEF ExecuteThreadPoolTask, Workers
  <2>2. pending[r] \in Nat
    BY <2>1 DEF Shape, TypeOK
  <2>3. QED BY <1>3, <1>4, <1>7, <2>1, <2>2 DEF ExecuteThreadPoolTask
<1>8. CASE InvokeReturns(r)
  <2>1. CASE Fail
    BY <1>2, <2>1
  <2>2. CASE ~Fail
    <3>1. /\ runnerPc[r] = "invoking" /\ completed' = completed \cup {slot[QueueOf(r)]}
          /\ inUse' = [w \in Workers |-> IF w = r THEN FALSE ELSE inUse[w]]
          /\ runnerPc' = [runnerPc EXCEPT ![r] = IF r \in Names THEN "pop" ELSE "sleepy"]
          /\ held' = [held EXCEPT ![r] = Null]
          /\ UNCHANGED <<queue, slot, cap, pending, missed, undefined, runs, overtaken>>
      BY <1>8, <2>2 DEF InvokeReturns, Goto
    <3>2. inUse' \in [Workers -> BOOLEAN]
      BY <3>1 DEF Shape, TypeOK
    <3>3. TypeOK'
      BY <1>1, <3>1, <3>2 DEF Shape, TypeOK, posterVars, Null
    <3>4. Posting' /\ Slots'
      BY <1>1, <3>1 DEF Shape, TypeOK, Posting, Slots, posterVars
    <3>5. Places'
      BY <1>1, <3>1 DEF Shape, TypeOK, Places
    <3>6. QED BY <3>3, <3>4, <3>5 DEF Shape
  <2>3. QED BY <2>1, <2>2
<1>9. CASE PopTask(r)
  <2>1. CASE Fail
    BY <1>2, <2>1
  <2>2. CASE ~Fail
    <3>1. /\ r \in Names /\ Pop(r) /\ runnerPc' = [runnerPc EXCEPT ![r] = "test"]
          /\ UNCHANGED <<pending, inUse, missed, held, undefined, runs, overtaken>>
      BY <1>9, <2>2 DEF PopTask, Goto, Shape, Places
    <3>2. /\ queue' \in [Queues -> SUBSET Tasks] /\ slot' \in [Queues -> Tasks]
          /\ cap' = cap /\ completed' = completed
          /\ queue'[r] = queue[r] \ {slot[r]}
          /\ queue'[r] # {} => slot'[r] \in queue'[r]
          /\ \A o \in Queues : o # r => queue'[o] = queue[o] /\ slot'[o] = slot[o]
      BY <1>1, <3>1, PopEffect
    <3>3. TypeOK'
      BY <1>1, <3>1, <3>2 DEF Shape, TypeOK, posterVars
    <3>4. Posting'
      BY <3>1 DEF Shape, Posting, posterVars
    <3>5. Slots'
      BY <1>1, <3>1, <3>2 DEF Shape, Slots
    <3>6. Places'
      BY <1>1, <3>1, <3>2 DEF Shape, TypeOK, Places
    <3>7. QED BY <3>3, <3>4, <3>5, <3>6 DEF Shape
  <2>3. QED BY <2>1, <2>2
<1>10. CASE TestEmpty(r)
  <2>1. CASE queue[r] = {}
    BY <1>3, <1>10, <2>1 DEF TestEmpty
  <2>2. CASE queue[r] # {}
    BY <1>3, <1>10, <2>2 DEF TestEmpty
  <2>3. QED BY <2>1, <2>2
<1>11. CASE Wait(r)
    BY <1>3, <1>11 DEF Wait
<1>12. CASE SpuriousWake(r)
    BY <1>3, <1>12 DEF SpuriousWake
<1>13. QED BY <1>5, <1>6, <1>7, <1>8, <1>9, <1>10, <1>11, <1>12

\* Shape is inductive.
LEMMA StepShape == Shape /\ [Next]_vars => Shape'
<1> SUFFICES ASSUME Shape, [Next]_vars PROVE Shape'
    OBVIOUS
<1>1. ASSUME NEW p \in Posters, PosterStep(p) PROVE Shape'
    BY <1>1, PosterShape, PushShape DEF PosterStep
<1>2. ASSUME NEW r \in Runners, StartTaskRunner(r) \/ Wake(r) PROVE Shape'
    BY <1>2, RunnerShape DEF StartTaskRunner, Wake
<1>3. CASE UNCHANGED vars
    BY <1>3 DEF vars, Shape, TypeOK, Posting, Slots, Places
<1>4. QED BY <1>1, <1>2, <1>3 DEF Next

\* The shape holds: the pool's workers and the runners' queues are never confused.
THEOREM ShapeHolds == Spec => []Shape
BY InitShape, StepShape, PTL DEF Spec

\* The types hold; the size of the pool is clamped also for a negative size.
THEOREM TypeCorrect == Spec => []TypeOK
<1>1. Shape => TypeOK
    BY DEF Shape
<1>2. QED BY <1>1, ShapeHolds, PTL

---------------------------------------------------------------------------
(* Sleep.                                                                  *)

\* Where the other posters are: what they are about to do stays to be done.
LEMMA OthersStay ==
    ASSUME Shape, NEW p \in Posters, PosterStep(p)
    PROVE  \A o \in Posters : o # p =>
               postPc'[o] = postPc[o] /\ target'[o] = target[o] /\ postTask'[o] = postTask[o]
BY DEF PosterStep, PostNonThreadPoolTask, PostThreadPoolTask, RunnerPostTask, RunnerSignal,
       GetUnusedThread, TakeTop, PoolPostTask, PoolSignal, QueuePop, Return, Shape, TypeOK

\* A poster fills a queue or gives a worker its task before it signals, and stays on the
\* way to the signal until it is given.
LEMMA PosterAsleep ==
    ASSUME Shape, Asleep, NEW p \in Posters, PosterStep(p)
    PROVE  Asleep'
<1> SUFFICES ASSUME ~undefined' PROVE Asleep'
    BY DEF Asleep
<1>1. /\ ~undefined /\ ~Fail
      /\ \A r \in Names : RunnerAsleep(r)
      /\ \A r \in Workers : WorkerAsleep(r)
    BY DEF PosterStep, Asleep, Fail
<1>2. \A o \in Posters : o # p => postPc'[o] = postPc[o] /\ target'[o] = target[o]
    BY OthersStay
<1>3. /\ Names \cap Workers = {} /\ Names \subseteq Runners /\ Workers \subseteq Runners
      /\ Names \subseteq Queues /\ "pool" \in Queues /\ "pool" \notin Names
      /\ \A t \in DOMAIN HomeOf : t \in Tasks /\ HomeOf[t] \in Names
    BY HomeAssumption, NamesAssumption DEF Runners, Workers, Queues, Tasks
<1>4. ASSUME postPc[p] \notin {"signal", "reset", "poolsignal"},
             UNCHANGED <<runnerPc, missed, pending, inUse>>,
             \A r \in Names : queue'[r] = queue[r]
      PROVE  Asleep'
  <2>1. \A r \in Runners : /\ ToSignal(r) => ToSignal(r)'
                           /\ ToHandOver(r) => ToHandOver(r)'
                           /\ ToPoolSignal(r) => ToPoolSignal(r)'
    BY <1>2, <1>4 DEF ToSignal, ToHandOver, ToPoolSignal
  <2>2. (\A r \in Names : RunnerAsleep(r)') /\ (\A r \in Workers : WorkerAsleep(r)')
    BY <1>1, <1>3, <1>4, <2>1 DEF RunnerAsleep, WorkerAsleep
  <2>3. QED BY <2>2 DEF Asleep
<1>5. ASSUME NEW t \in Tasks, PostNonThreadPoolTask(p, t) \/ PostThreadPoolTask(p, t) PROVE Asleep'
  <2>1. CASE PostNonThreadPoolTask(p, t)
    BY <1>4, <2>1 DEF PostNonThreadPoolTask, queueVars, runnerVars
  <2>2. CASE PostThreadPoolTask(p, t)
    <3>1. Push("pool", t) /\ UNCHANGED runnerVars /\ postPc[p] = "idle"
      BY <1>1, <2>2 DEF PostThreadPoolTask
    <3>2. \A r \in Names : queue'[r] = queue[r]
      BY <1>3, <3>1, PushEffect
    <3>3. QED BY <1>4, <3>1, <3>2 DEF runnerVars
  <2>3. QED BY <1>5, <2>1, <2>2
<1>6. CASE RunnerPostTask(p)
  <2>1. PICK q \in Names, t \in Tasks : q = target[p] /\ t = postTask[p]
    BY <1>3, <1>6 DEF RunnerPostTask, Shape, Posting
  <2>2. Push(q, t) /\ UNCHANGED <<runnerVars, target>> /\ postPc[p] = "pushing"
        /\ postPc' = [postPc EXCEPT ![p] = "signal"]
    BY <1>1, <1>6, <2>1 DEF RunnerPostTask
  <2>3. \A r \in Names : r # q => queue'[r] = queue[r]
    BY <1>3, <2>1, <2>2, PushEffect
  <2>4. ToSignal(q)'
    BY <2>1, <2>2 DEF ToSignal, Shape, TypeOK
  <2>5. \A r \in Runners : /\ ToSignal(r) => ToSignal(r)'
                           /\ ToHandOver(r) => ToHandOver(r)'
                           /\ ToPoolSignal(r) => ToPoolSignal(r)'
    BY <1>2, <2>2 DEF ToSignal, ToHandOver, ToPoolSignal
  <2>6. (\A r \in Names : RunnerAsleep(r)') /\ (\A r \in Workers : WorkerAsleep(r)')
    BY <1>1, <1>3, <2>2, <2>3, <2>4, <2>5 DEF RunnerAsleep, WorkerAsleep, runnerVars
  <2>7. QED BY <2>6 DEF Asleep
<1>7. ASSUME RunnerSignal(p) \/ PoolSignal(p) PROVE Asleep'
  <2>0. PICK q \in Runners : q = target[p]
    BY DEF Shape, TypeOK
  <2>1. /\ q \in Runners /\ postPc[p] \in {"signal", "poolsignal"}
        /\ Signal(q) /\ UNCHANGED queueVars
    BY <1>7, <2>0 DEF RunnerSignal, PoolSignal, Shape, TypeOK
  <2>2. /\ runnerPc'[q] # "waiting"
        /\ runnerPc'[q] = "sleepy" => q \in missed'
        /\ \A r \in Runners : r # q => /\ runnerPc'[r] = runnerPc[r]
                                       /\ r \in missed => r \in missed'
        /\ UNCHANGED <<pending, inUse>>
    BY <2>1 DEF Signal, Shape, TypeOK
  <2>3. \A r \in Runners : r # q => /\ ToSignal(r) => ToSignal(r)'
                                    /\ ToPoolSignal(r) => ToPoolSignal(r)'
    BY <1>2, <2>0 DEF ToSignal, ToPoolSignal
  <2>4. \A r \in Runners : ToHandOver(r) => ToHandOver(r)'
    BY <1>2, <2>1 DEF ToHandOver
  <2>5. \A r \in Names : RunnerAsleep(r)'
    BY <1>1, <1>3, <2>1, <2>2, <2>3 DEF RunnerAsleep, queueVars
  <2>6. \A r \in Workers : WorkerAsleep(r)'
    BY <1>1, <1>3, <2>1, <2>2, <2>3, <2>4 DEF WorkerAsleep
  <2>7. QED BY <2>5, <2>6 DEF Asleep
<1>8. CASE GetUnusedThread(p)
    BY <1>4, <1>8 DEF GetUnusedThread, queueVars, runnerVars
<1>9. CASE TakeTop(p)
  <2>0. PICK w \in Workers : w = target[p]
    BY <1>9 DEF TakeTop, Shape, Posting
  <2>1. /\ postPc[p] = "top" /\ target' = target
        /\ UNCHANGED <<queueVars, runnerPc, pending, missed>>
    BY <1>9 DEF TakeTop, Shape, Posting
  <2>2. CASE inUse' = inUse
    BY <1>4, <2>1, <2>2 DEF queueVars
  <2>3. CASE inUse' # inUse
    <3>1. inUse' = [inUse EXCEPT ![w] = TRUE] /\ postPc' = [postPc EXCEPT ![p] = "reset"]
      BY <1>9, <2>0, <2>3 DEF TakeTop
    <3>2. ToHandOver(w)'
      BY <2>0, <2>1, <3>1 DEF ToHandOver, Shape, TypeOK
    <3>3. \A r \in Runners : /\ ToSignal(r) => ToSignal(r)'
                             /\ ToHandOver(r) => ToHandOver(r)'
                             /\ ToPoolSignal(r) => ToPoolSignal(r)'
      BY <1>2, <2>1 DEF ToSignal, ToHandOver, ToPoolSignal
    <3>4. \A r \in Workers : r # w => inUse'[r] = inUse[r]
      BY <3>1 DEF Shape, TypeOK
    <3>5. (\A r \in Names : RunnerAsleep(r)') /\ (\A r \in Workers : WorkerAsleep(r)')
      BY <1>1, <1>3, <2>1, <3>2, <3>3, <3>4 DEF RunnerAsleep, WorkerAsleep, queueVars
    <3>6. QED BY <3>5 DEF Asleep
  <2>4. QED BY <2>2, <2>3
<1>10. CASE PoolPostTask(p)
  <2>0. PICK w \in Workers : w = target[p]
    BY <1>10 DEF PoolPostTask, Shape, Posting
  <2>1. /\ postPc[p] = "reset" /\ target' = target /\ held[p] # Null
        /\ pending' = [pending EXCEPT ![w] = held[p]]
        /\ postPc' = [postPc EXCEPT ![p] = "poolsignal"]
        /\ UNCHANGED <<queueVars, runnerPc, inUse, missed>>
    BY <1>1, <1>10, <2>0 DEF PoolPostTask, Shape, Posting
  <2>2. ToPoolSignal(w)'
    BY <2>0, <2>1 DEF ToPoolSignal, Shape, TypeOK
  <2>3. \A r \in Runners : /\ ToSignal(r) => ToSignal(r)'
                           /\ r # w /\ ToHandOver(r) => ToHandOver(r)'
                           /\ ToPoolSignal(r) => ToPoolSignal(r)'
    BY <1>2, <2>0, <2>1 DEF ToSignal, ToHandOver, ToPoolSignal
  <2>4. pending'[w] # Null /\ \A r \in Workers : r # w => pending'[r] = pending[r]
    BY <2>1 DEF Shape, TypeOK
  <2>5. (\A r \in Names : RunnerAsleep(r)') /\ (\A r \in Workers : WorkerAsleep(r)')
    BY <1>1, <1>3, <2>1, <2>2, <2>3, <2>4 DEF RunnerAsleep, WorkerAsleep, queueVars
  <2>6. QED BY <2>5 DEF Asleep
<1>11. CASE QueuePop(p)
  <2>1. Pop("pool") /\ UNCHANGED runnerVars /\ postPc[p] = "queuepop"
    BY <1>1, <1>11 DEF QueuePop
  <2>2. \A r \in Names : queue'[r] = queue[r]
    BY <1>3, <2>1, PopEffect
  <2>3. QED BY <1>4, <2>1, <2>2 DEF runnerVars
<1>12. QED
    BY <1>5, <1>6, <1>7, <1>8, <1>9, <1>10, <1>11 DEF PosterStep

\* A runner goes to sleep with an empty queue, a worker without a task or when its task
\* is done; the posters stay where they are.
LEMMA RunnerStepAsleep ==
    ASSUME Shape, Asleep, NEW r \in Runners, StartTaskRunner(r) \/ Wake(r)
    PROVE  Asleep'
<1> SUFFICES ASSUME ~undefined' PROVE Asleep'
    BY DEF Asleep
<1>1. /\ ~undefined /\ ~Fail /\ UNCHANGED posterVars
      /\ \A x \in Names : RunnerAsleep(x)
      /\ \A x \in Workers : WorkerAsleep(x)
    BY DEF StartTaskRunner, Wake, Asleep, Fail
<1>2. /\ Names \cap Workers = {} /\ Names \subseteq Runners /\ Workers \subseteq Runners
      /\ Names \subseteq Queues
    BY NamesAssumption DEF Runners, Workers, Queues
<1>3. \A x : /\ ToSignal(x)' <=> ToSignal(x)
             /\ ToHandOver(x)' <=> ToHandOver(x)
             /\ ToPoolSignal(x)' <=> ToPoolSignal(x)
    BY <1>1 DEF posterVars, ToSignal, ToHandOver, ToPoolSignal
<1>4. ASSUME NEW pc, runnerPc' = [runnerPc EXCEPT ![r] = pc],
             \A x \in Runners : x # r /\ x \in missed => x \in missed',
             \A x \in Names : x # r => queue'[x] = queue[x],
             \A x \in Workers : x # r => inUse'[x] = inUse[x],
             pending' = pending, r \in Workers /\ inUse'[r] => inUse[r],
             pc \in {"sleepy", "waiting"} =>
                 \/ runnerPc[r] \in {"sleepy", "waiting"} /\ UNCHANGED <<queue, missed>>
                 \/ r \in Names /\ queue'[r] = {}
                 \/ r \in Workers /\ (pending[r] = Null \/ ~inUse'[r])
      PROVE  Asleep'
  <2>1. /\ runnerPc'[r] = pc
        /\ \A x \in Runners : x # r => runnerPc'[x] = runnerPc[x]
    BY <1>4 DEF Shape, TypeOK
  <2>2. \A x \in Names : RunnerAsleep(x)'
    BY <1>1, <1>2, <1>3, <1>4, <2>1 DEF RunnerAsleep
  <2>3. \A x \in Workers : WorkerAsleep(x)'
    BY <1>1, <1>2, <1>3, <1>4, <2>1 DEF WorkerAsleep
  <2>4. QED BY <2>2, <2>3 DEF Asleep
<1>5. ASSUME NEW pc, Goto(r, pc), UNCHANGED <<queueVars, pending, inUse, missed>>,
             pc \in {"sleepy", "waiting"} =>
                 \/ runnerPc[r] \in {"sleepy", "waiting"}
                 \/ r \in Names /\ queue[r] = {}
                 \/ r \in Workers /\ pending[r] = Null
      PROVE  Asleep'
    BY <1>4, <1>5 DEF Goto, queueVars
<1>6. ASSUME NEW pointer, BeginInvoke(r, pointer) PROVE Asleep'
    BY <1>1, <1>5, <1>6 DEF BeginInvoke
<1>7. CASE ThreadMain(r)
    BY <1>5, <1>7 DEF ThreadMain
<1>8. CASE ExecuteRegularTask(r)
  <2>1. CASE Goto(r, IF queue[r] = {} THEN "test" ELSE "pop") /\ UNCHANGED <<queueVars, pending, inUse, missed>>
    BY <1>5, <2>1
  <2>2. QED BY <1>1, <1>6, <1>8, <2>1 DEF ExecuteRegularTask
<1>9. CASE ExecuteThreadPoolTask(r)
    BY <1>5, <1>6, <1>9 DEF ExecuteThreadPoolTask
<1>10. CASE InvokeReturns(r)
  <2>1. /\ inUse' = [w \in Workers |-> IF w = r THEN FALSE ELSE inUse[w]]
        /\ Goto(r, IF r \in Names THEN "pop" ELSE "sleepy")
        /\ UNCHANGED <<queue, pending, missed>>
    BY <1>1, <1>10 DEF InvokeReturns
  <2>2. r \in Workers \/ r \in Names
    BY DEF Runners
  <2>3. CASE r \in Names
    BY <1>2, <1>4, <2>1, <2>3 DEF Goto
  <2>4. CASE r \in Workers
    BY <1>2, <1>4, <2>1, <2>4 DEF Goto
  <2>5. QED BY <2>2, <2>3, <2>4
<1>11. CASE PopTask(r)
  <2>1. r \in Names /\ Pop(r) /\ Goto(r, "test") /\ UNCHANGED <<pending, inUse, missed>>
    BY <1>1, <1>11 DEF PopTask, Shape, Places
  <2>2. \A x \in Names : x # r => queue'[x] = queue[x]
    BY <1>2, <2>1, PopEffect
  <2>3. QED BY <1>2, <1>4, <2>1, <2>2 DEF Goto
<1>12. CASE TestEmpty(r)
  <2>1. r \in Names
    BY <1>12 DEF TestEmpty, Shape, Places
  <2>2. CASE queue[r] = {}
    BY <1>5, <1>12, <2>1, <2>2 DEF TestEmpty
  <2>3. CASE queue[r] # {}
    BY <1>5, <1>12, <2>3 DEF TestEmpty
  <2>4. QED BY <2>2, <2>3
<1>13. CASE Wait(r)
    BY <1>5, <1>13 DEF Wait
<1>14. CASE SpuriousWake(r)
    BY <1>4, <1>14 DEF SpuriousWake, Goto, queueVars
<1>15. QED
    BY <1>7, <1>8, <1>9, <1>10, <1>11, <1>12, <1>13, <1>14 DEF StartTaskRunner, Wake

\* A runner sleeps on work only if it is about to be signalled or has missed its signal:
\* the one window of the wait without a predicate, for runners and for workers.
THEOREM SleepersAreSignalled == Spec => []SleepsOnWorkOnlyIfMissed
<1>1. Init => Asleep
    BY DEF Init, Asleep, RunnerAsleep, WorkerAsleep, CreateThread, Runners
<1>2. Shape /\ Asleep /\ [Next]_vars => Asleep'
  <2> SUFFICES ASSUME Shape, Asleep, [Next]_vars PROVE Asleep'
    OBVIOUS
  <2>1. CASE UNCHANGED vars
    BY <2>1 DEF vars, Asleep, RunnerAsleep, WorkerAsleep, ToSignal, ToHandOver, ToPoolSignal
  <2>2. QED BY <2>1, PosterAsleep, RunnerStepAsleep DEF Next
<1>3. Asleep => SleepsOnWorkOnlyIfMissed
  <2> SUFFICES ASSUME Asleep, ~undefined, NEW r \in Runners, runnerPc[r] = "waiting",
                      IF r \in Names THEN queue[r] # {} ELSE inUse[r]
               PROVE  \/ r \in missed
                      \/ \E p \in Posters : target[p] = r /\ postPc[p] \in {"signal", "reset", "poolsignal"}
    BY DEF SleepsOnWorkOnlyIfMissed
  <2>1. CASE r \in Names
    BY <2>1 DEF Asleep, RunnerAsleep, ToSignal
  <2>2. CASE r \notin Names
    BY <2>2 DEF Runners, Asleep, WorkerAsleep, ToHandOver, ToPoolSignal
  <2>3. QED BY <2>1, <2>2
<1>4. QED BY <1>1, <1>2, <1>3, ShapeHolds, PTL DEF Spec

---------------------------------------------------------------------------
(* Tasks of a runner's own queue are called once each.                     *)

\* A step that changes nothing of what Exact speaks of, for one task.
LEMMA SameExact ==
    ASSUME NEW t, Exact(t), OnTheWay(t)' <=> OnTheWay(t), Begun(t)' <=> Begun(t),
           runs'[t] = runs[t], t \in completed' <=> t \in completed,
           t \in posted' <=> t \in posted,
           t \in queue'[HomeOf[t]] <=> t \in queue[HomeOf[t]],
           runnerPc[HomeOf[t]] = "pop" => runnerPc'[HomeOf[t]] = "pop"
    PROVE  Exact(t)'
BY DEF Exact

\* Posters: a task is posted once, is not called on its way, and when it arrives it is
\* not the one being run, unless it overtakes that one.
LEMMA PosterCalled ==
    ASSUME Shape, Called, NEW p \in Posters, PosterStep(p)
    PROVE  Called'
<1> SUFFICES ASSUME ~undefined', NEW u \in DOMAIN HomeOf, HomeOf[u] \notin overtaken'
             PROVE  Exact(u)'
    BY DEF Called
<1>1. /\ ~undefined /\ ~Fail
      /\ HomeOf[u] \notin overtaken => Exact(u)
    BY DEF PosterStep, Called, Fail
<1>2. \A o \in Posters : o # p => postPc'[o] = postPc[o] /\ postTask'[o] = postTask[o]
    BY OthersStay
<1>3. /\ Names \subseteq Runners /\ Names \subseteq Queues /\ "pool" \in Queues /\ "pool" \notin Names
      /\ u \in Tasks /\ HomeOf[u] \in Names /\ u \notin PoolTasks
      /\ \A t \in DOMAIN HomeOf : t \in Tasks /\ HomeOf[t] \in Names
    BY HomeAssumption, NamesAssumption DEF Runners, Queues, Tasks
<1>4. ASSUME postPc[p] # "pushing", postPc'[p] # "pushing",
             UNCHANGED <<completed, runs, overtaken>>, u \in posted' <=> u \in posted,
             queue'[HomeOf[u]] = queue[HomeOf[u]], slot'[HomeOf[u]] = slot[HomeOf[u]],
             \A pc \in {"invoking", "pop"} :
                 runnerPc'[HomeOf[u]] = pc <=> runnerPc[HomeOf[u]] = pc
      PROVE  Exact(u)'
  <2>1. OnTheWay(u)' <=> OnTheWay(u)
    BY <1>2, <1>4 DEF OnTheWay
  <2>2. Begun(u)' <=> Begun(u)
    BY <1>4 DEF Begun
  <2>3. QED BY <1>1, <1>4, <2>1, <2>2, SameExact
<1>5. ASSUME NEW t \in Tasks, PostNonThreadPoolTask(p, t) PROVE Exact(u)'
  <2>1. /\ postPc[p] = "idle" /\ t \notin posted /\ posted' = posted \cup {t}
        /\ postPc'[p] = "pushing" /\ postTask'[p] = t
        /\ UNCHANGED <<queueVars, runnerVars, runs, overtaken>>
    BY <1>5 DEF PostNonThreadPoolTask, Shape, TypeOK
  <2>2. Exact(u)
    BY <1>1, <2>1
  <2>3. CASE u = t
    <3>1. OnTheWay(u)'
      BY <2>1, <2>3 DEF OnTheWay
    <3>2. QED BY <2>1, <2>2, <2>3, <3>1 DEF Exact, queueVars
  <2>4. CASE u # t
    <3>1. OnTheWay(u)' <=> OnTheWay(u)
      BY <1>2, <2>1, <2>4 DEF OnTheWay
    <3>2. Begun(u)' <=> Begun(u)
      BY <2>1 DEF Begun, queueVars, runnerVars
    <3>3. QED BY <2>1, <2>2, <2>4, <3>1, <3>2, SameExact DEF queueVars, runnerVars
  <2>5. QED BY <2>3, <2>4
<1>6. ASSUME NEW t \in Tasks, PostThreadPoolTask(p, t) PROVE Exact(u)'
  <2>1. /\ t \in PoolTasks /\ Push("pool", t) /\ UNCHANGED <<runnerVars, runs, overtaken>>
        /\ postPc[p] = "idle" /\ postPc'[p] = "exec" /\ posted' = posted \cup {t}
    BY <1>1, <1>6 DEF PostThreadPoolTask, Shape, TypeOK
  <2>2. /\ queue'[HomeOf[u]] = queue[HomeOf[u]] /\ slot'[HomeOf[u]] = slot[HomeOf[u]]
        /\ completed' = completed
    BY <1>3, <2>1, PushEffect
  <2>3. QED BY <1>3, <1>4, <2>1, <2>2 DEF runnerVars
<1>7. CASE RunnerPostTask(p)
  <2>1. PICK q \in Names, t \in DOMAIN HomeOf :
            q = target[p] /\ t = postTask[p] /\ HomeOf[t] = q /\ t \in Tasks
    BY <1>3, <1>7 DEF RunnerPostTask, Shape, Posting
  <2>2. /\ Push(q, t) /\ UNCHANGED <<runnerVars, runs, posted, postTask>>
        /\ postPc[p] = "pushing" /\ postPc'[p] = "signal" /\ ~PushesCollide(p)
        /\ overtaken' = IF runnerPc[q] \in {"invoking", "pop"} /\ slot'[q] # slot[q]
                        THEN overtaken \cup {q} ELSE overtaken
    BY <1>1, <1>7, <2>1 DEF RunnerPostTask, Shape, TypeOK
  <2>3. /\ completed' = completed /\ queue'[q] = queue[q] \cup {t}
        /\ \A o \in Queues : o # q => queue'[o] = queue[o] /\ slot'[o] = slot[o]
    BY <1>3, <2>1, <2>2, PushEffect
  <2>4. Exact(u)
    BY <1>1, <2>2
  <2>5. CASE HomeOf[u] # q
    <3>1. u # t
      BY <2>1, <2>5
    <3>2. OnTheWay(u)' <=> OnTheWay(u)
      BY <1>2, <2>1, <2>2, <3>1 DEF OnTheWay
    <3>3. Begun(u)' <=> Begun(u)
      BY <1>3, <2>2, <2>3, <2>5 DEF Begun, runnerVars
    <3>4. QED BY <1>3, <2>2, <2>3, <2>4, <2>5, <3>2, <3>3, SameExact DEF runnerVars
  <2>6. CASE HomeOf[u] = q
    <3>1. runnerPc[q] \in {"invoking", "pop"} => slot'[q] = slot[q] /\ slot[q] \in queue[q]
      BY <1>3, <2>1, <2>2, <2>6 DEF Shape, Places, Slots
    <3>2. Begun(u)' <=> Begun(u)
      BY <2>2, <2>6, <3>1 DEF Begun, runnerVars
    <3>3. CASE u = t
      <4>1. OnTheWay(u)
        BY <2>1, <2>2, <3>3 DEF OnTheWay
      <4>2. u \in posted /\ runs[u] = 0 /\ u \notin completed /\ u \notin queue[q]
        BY <2>4, <2>6, <4>1 DEF Exact
      <4>3. ~OnTheWay(u)'
        BY <1>2, <2>1, <2>2, <3>3 DEF OnTheWay, PushesCollide, Shape, Posting
      <4>4. ~Begun(u)'
        BY <2>6, <3>1, <3>2, <4>2 DEF Begun
      <4>5. QED BY <2>1, <2>2, <2>3, <2>6, <3>3, <4>2, <4>3, <4>4 DEF Exact
    <3>4. CASE u # t
      <4>1. OnTheWay(u)' <=> OnTheWay(u)
        BY <1>2, <2>1, <2>2, <3>4 DEF OnTheWay
      <4>2. QED BY <2>2, <2>3, <2>4, <2>6, <3>2, <3>4, <4>1, SameExact DEF runnerVars
    <3>5. QED BY <3>3, <3>4
  <2>7. QED BY <2>5, <2>6
<1>8. ASSUME RunnerSignal(p) \/ PoolSignal(p) PROVE Exact(u)'
  <2>1. /\ target[p] \in Runners /\ Signal(target[p]) /\ UNCHANGED <<queueVars, posted, runs, overtaken>>
        /\ postPc[p] # "pushing" /\ postPc'[p] # "pushing"
    BY <1>8 DEF RunnerSignal, PoolSignal, Return, Shape, TypeOK
  <2>2. \A pc \in {"invoking", "pop"} : \A r \in Runners : runnerPc'[r] = pc <=> runnerPc[r] = pc
    BY <2>1 DEF Signal, Shape, TypeOK
  <2>3. QED BY <1>3, <1>4, <2>1, <2>2 DEF queueVars
<1>9. ASSUME GetUnusedThread(p) \/ TakeTop(p) \/ PoolPostTask(p) PROVE Exact(u)'
  <2>1. /\ UNCHANGED <<queueVars, runnerPc, posted, runs, overtaken>>
        /\ postPc[p] # "pushing" /\ postPc'[p] # "pushing"
    BY <1>1, <1>9 DEF GetUnusedThread, TakeTop, PoolPostTask, Return, runnerVars, Shape, TypeOK
  <2>2. QED BY <1>4, <2>1 DEF queueVars
<1>10. CASE QueuePop(p)
  <2>1. /\ Pop("pool") /\ UNCHANGED <<runnerVars, posted, runs, overtaken>>
        /\ postPc[p] = "queuepop" /\ postPc'[p] = "exec"
    BY <1>1, <1>10 DEF QueuePop, Shape, TypeOK
  <2>2. /\ queue'[HomeOf[u]] = queue[HomeOf[u]] /\ slot'[HomeOf[u]] = slot[HomeOf[u]]
        /\ completed' = completed
    BY <1>3, <2>1, PopEffect
  <2>3. QED BY <1>4, <2>1, <2>2 DEF runnerVars
<1>11. QED
    BY <1>5, <1>6, <1>7, <1>8, <1>9, <1>10 DEF PosterStep

\* Runners: the task in the first slot is called, marked and popped, and it is the same
\* one all the while; workers touch the pool's tasks only.
LEMMA RunnerCalled ==
    ASSUME Shape, Called, NEW r \in Runners, StartTaskRunner(r) \/ Wake(r)
    PROVE  Called'
<1> SUFFICES ASSUME ~undefined', NEW u \in DOMAIN HomeOf, HomeOf[u] \notin overtaken'
             PROVE  Exact(u)'
    BY DEF Called
<1>1. /\ ~undefined /\ ~Fail /\ UNCHANGED posterVars
      /\ HomeOf[u] \notin overtaken => Exact(u)
    BY DEF StartTaskRunner, Wake, Called, Fail
<1>2. /\ Names \cap Workers = {} /\ Names \subseteq Queues /\ "pool" \in Queues /\ "pool" \notin Names
      /\ HomeOf[u] \in Names /\ HomeOf[u] \in Runners /\ u \notin PoolTasks
    BY HomeAssumption, NamesAssumption DEF Runners, Workers, Queues
<1>3. OnTheWay(u)' <=> OnTheWay(u)
    BY <1>1 DEF posterVars, OnTheWay
<1>4. HomeOf[u] # r => runnerPc'[HomeOf[u]] = runnerPc[HomeOf[u]]
    BY <1>1, <1>2 DEF StartTaskRunner, Wake, ThreadMain, ExecuteRegularTask, ExecuteThreadPoolTask,
        BeginInvoke, InvokeReturns, PopTask, TestEmpty, Wait, SpuriousWake, Goto, Shape, TypeOK
<1>5. ASSUME NEW pc \in {"look", "test", "sleepy", "waiting"}, Goto(r, pc),
             UNCHANGED <<queueVars, runs, overtaken>>,
             runnerPc[r] \notin {"invoking", "pop"}
      PROVE  Exact(u)'
  <2>1. runnerPc'[r] = pc
    BY <1>5 DEF Goto, Shape, TypeOK
  <2>2. Begun(u)' <=> Begun(u)
    BY <1>4, <1>5, <2>1 DEF Begun, queueVars
  <2>3. QED BY <1>1, <1>3, <1>4, <1>5, <2>2, SameExact DEF queueVars, posterVars
<1>6. ASSUME NEW pointer, BeginInvoke(r, pointer), runnerPc[r] = "look",
             IF r \in Names THEN queue[r] # {} ELSE pointer # Null
      PROVE  Exact(u)'
  <2> DEFINE s == slot[QueueOf(r)]
  <2>1. /\ pointer = cap[QueueOf(r)]
        /\ runs' = [runs EXCEPT ![s] = IF @ < Many THEN @ + 1 ELSE @]
        /\ runnerPc' = [runnerPc EXCEPT ![r] = "invoking"]
        /\ UNCHANGED <<queueVars, overtaken>>
    BY <1>1, <1>6 DEF BeginInvoke, Goto
  <2>2. runnerPc'[r] = "invoking"
    BY <2>1 DEF Shape, TypeOK
  <2>3. Exact(u)
    BY <1>1, <2>1
  <2>4. CASE r \notin Names
    <3>1. s \in PoolTasks
      BY <1>6, <2>1, <2>4 DEF QueueOf, Shape, Slots, Null
    <3>2. runs'[u] = runs[u]
      BY <1>2, <2>1, <3>1 DEF Shape, TypeOK, Tasks
    <3>3. Begun(u)' <=> Begun(u)
      BY <1>2, <1>4, <2>1, <2>4 DEF Begun, queueVars
    <3>4. QED BY <1>1, <1>2, <1>3, <1>4, <2>1, <2>3, <2>4, <3>2, <3>3, SameExact DEF queueVars, posterVars
  <2>5. CASE r \in Names
    <3>1. s = slot[r] /\ s \in queue[r] /\ s \in DOMAIN HomeOf /\ HomeOf[s] = r /\ s \in Tasks
      BY <1>2, <1>6, <2>5 DEF QueueOf, Shape, Slots, Tasks
    <3>2. CASE u # s
      <4>1. runs'[u] = runs[u]
        BY <2>1, <3>2 DEF Shape, TypeOK, Tasks
      <4>2. Begun(u)' <=> Begun(u)
        BY <1>4, <1>6, <2>1, <2>2, <3>1, <3>2 DEF Begun, queueVars
      <4>3. QED BY <1>1, <1>3, <1>4, <1>6, <2>1, <2>2, <2>3, <4>1, <4>2, SameExact DEF queueVars, posterVars
    <3>3. CASE u = s
      <4>1. ~Begun(u) /\ Begun(u)'
        BY <1>6, <2>1, <2>2, <3>1, <3>3 DEF Begun, queueVars
      <4>2. runs[u] = 0 /\ u \notin completed /\ u \in posted /\ ~OnTheWay(u)
        BY <2>3, <3>1, <3>3, <4>1 DEF Exact
      <4>3. runs'[u] = 1
        BY <2>1, <3>1, <3>3, <4>2 DEF Shape, TypeOK, Many
      <4>4. QED BY <1>1, <1>3, <2>1, <3>1, <3>3, <4>1, <4>2, <4>3 DEF Exact, queueVars, posterVars
    <3>4. QED BY <3>2, <3>3
  <2>6. QED BY <2>4, <2>5
<1>7. CASE ThreadMain(r)
    BY <1>5, <1>7 DEF ThreadMain
<1>8. CASE ExecuteRegularTask(r)
  <2>1. CASE queue[r] # {} /\ slot[r] \notin completed
    BY <1>1, <1>6, <1>8, <2>1 DEF ExecuteRegularTask
  <2>2. CASE queue[r] = {}
    BY <1>1, <1>5, <1>8, <2>2 DEF ExecuteRegularTask
  <2>3. CASE queue[r] # {} /\ slot[r] \in completed
    <3>1. /\ r \in Names /\ runnerPc[r] = "look" /\ UNCHANGED <<queueVars, runs, overtaken>>
          /\ runnerPc' = [runnerPc EXCEPT ![r] = "pop"]
      BY <1>1, <1>8, <2>3 DEF ExecuteRegularTask, Goto
    <3>2. slot[r] \in queue[r] /\ slot[r] \in DOMAIN HomeOf /\ HomeOf[slot[r]] = r
      BY <1>2, <2>3, <3>1 DEF Shape, Slots
    <3>3. r \in overtaken
      <4>1. ~Begun(slot[r])
        BY <3>1, <3>2 DEF Begun
      <4>2. ~Exact(slot[r])
        BY <2>3, <3>2, <4>1 DEF Exact
      <4>3. QED BY <1>1, <3>2, <4>2 DEF Called
    <3>4. HomeOf[u] # r
      BY <3>1, <3>3
    <3>5. Begun(u)' <=> Begun(u)
      BY <1>4, <3>1, <3>4 DEF Begun, queueVars
    <3>6. QED BY <1>1, <1>3, <1>4, <3>1, <3>4, <3>5, SameExact DEF queueVars, posterVars
  <2>4. QED BY <2>1, <2>2, <2>3
<1>9. CASE ExecuteThreadPoolTask(r)
    BY <1>2, <1>5, <1>6, <1>9 DEF ExecuteThreadPoolTask
<1>10. CASE InvokeReturns(r)
  <2> DEFINE s == slot[QueueOf(r)]
  <2>1. /\ runnerPc[r] = "invoking" /\ completed' = completed \cup {s}
        /\ runnerPc' = [runnerPc EXCEPT ![r] = IF r \in Names THEN "pop" ELSE "sleepy"]
        /\ UNCHANGED <<queue, slot, runs, overtaken>>
    BY <1>1, <1>10 DEF InvokeReturns, Goto
  <2>2. Exact(u)
    BY <1>1, <2>1
  <2>3. CASE r \notin Names
    <3>1. s \in PoolTasks
      BY <2>1, <2>3 DEF QueueOf, Shape, Places, Slots
    <3>2. Begun(u)' <=> Begun(u)
      BY <1>2, <1>4, <2>1, <2>3 DEF Begun
    <3>3. QED BY <1>1, <1>2, <1>3, <1>4, <2>1, <2>2, <2>3, <3>1, <3>2, SameExact DEF posterVars
  <2>4. CASE r \in Names
    <3>1. s = slot[r] /\ s \in queue[r] /\ HomeOf[s] = r
      BY <1>2, <2>1, <2>4 DEF QueueOf, Shape, Slots, Places
    <3>2. runnerPc'[r] = "pop"
      BY <2>1, <2>4 DEF Shape, TypeOK
    <3>3. Begun(u)' <=> Begun(u)
      BY <1>4, <2>1, <3>2 DEF Begun
    <3>4. CASE u # s
      BY <1>1, <1>3, <1>4, <2>1, <2>2, <3>2, <3>3, <3>4, SameExact DEF posterVars
    <3>5. CASE u = s
      BY <1>1, <1>3, <2>1, <2>2, <3>1, <3>2, <3>3, <3>5 DEF Exact, Begun, posterVars
    <3>6. QED BY <3>4, <3>5
  <2>5. QED BY <2>3, <2>4
<1>11. CASE PopTask(r)
  <2>1. /\ r \in Names /\ Pop(r) /\ runnerPc[r] = "pop" /\ UNCHANGED <<runs, overtaken>>
        /\ runnerPc'[r] = "test"
    BY <1>1, <1>11 DEF PopTask, Goto, Shape, TypeOK, Places
  <2>2. /\ completed' = completed /\ queue'[r] = queue[r] \ {slot[r]}
        /\ \A o \in Queues : o # r => queue'[o] = queue[o] /\ slot'[o] = slot[o]
    BY <1>2, <2>1, PopEffect
  <2>3. Exact(u)
    BY <1>1, <2>1
  <2>4. CASE HomeOf[u] # r
    <3>1. Begun(u)' <=> Begun(u)
      BY <1>2, <1>4, <2>2, <2>4 DEF Begun
    <3>2. QED BY <1>1, <1>2, <1>3, <1>4, <2>1, <2>2, <2>3, <2>4, <3>1, SameExact DEF posterVars
  <2>5. CASE HomeOf[u] = r
    <3>1. ~Begun(u)' /\ (Begun(u) <=> slot[r] = u)
      BY <2>1, <2>5 DEF Begun
    <3>2. slot[r] \in queue[r]
      BY <1>2, <2>1 DEF Shape, Places, Slots
    <3>3. QED BY <1>1, <1>3, <2>1, <2>2, <2>3, <2>5, <3>1, <3>2 DEF Exact, posterVars
  <2>6. QED BY <2>4, <2>5
<1>12. CASE TestEmpty(r)
  <2>1. (IF queue[r] = {} THEN "sleepy" ELSE "look") \in {"sleepy", "look"}
    OBVIOUS
  <2>2. QED BY <1>5, <1>12, <2>1 DEF TestEmpty
<1>13. CASE Wait(r)
    BY <1>5, <1>13 DEF Wait
<1>14. CASE SpuriousWake(r)
    BY <1>5, <1>14 DEF SpuriousWake
<1>15. QED
    BY <1>7, <1>8, <1>9, <1>10, <1>11, <1>12, <1>13, <1>14 DEF StartTaskRunner, Wake

\* A runner with its own queue calls every task posted to it exactly once, unless a more
\* urgent task was pushed while one was running; the priorities, the other queues and the
\* pool do not matter.
THEOREM TasksAreExact == Spec => []ExactUnlessOvertaken
<1>1. Init => Called
  <2> SUFFICES ASSUME Init, NEW t \in DOMAIN HomeOf PROVE Exact(t)
    BY DEF Called
  <2>1. t \in Tasks /\ HomeOf[t] \in Names /\ HomeOf[t] \in Queues /\ HomeOf[t] \in Runners
    BY HomeAssumption DEF Tasks, Queues, Runners
  <2>2. /\ runs[t] = 0 /\ completed = {} /\ posted = {InitTask} /\ ~OnTheWay(t)
        /\ queue[HomeOf[t]] = IF HomeOf[t] = Main THEN {InitTask} ELSE {}
        /\ ~Begun(t)
    BY <2>1 DEF Init, OnTheWay, Begun, CreateRunnerOnNewThread, CreateThread
  <2>3. QED BY <2>1, <2>2, HomeAssumption DEF Exact
<1>2. Shape /\ Called /\ [Next]_vars => Called'
  <2> SUFFICES ASSUME Shape, Called, [Next]_vars PROVE Called'
    OBVIOUS
  <2>1. CASE UNCHANGED vars
    BY <2>1 DEF vars, Called, Exact, OnTheWay, Begun
  <2>2. QED BY <2>1, PosterCalled, RunnerCalled DEF Next
<1>3. Called => ExactUnlessOvertaken
    BY DEF Called, Exact, Begun, OnTheWay, ExactUnlessOvertaken
<1>4. QED BY <1>1, <1>2, <1>3, ShapeHolds, PTL DEF Spec
=============================================================================

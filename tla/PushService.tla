---------------------------- MODULE PushService ----------------------------
(***************************************************************************)
(* The whole service: git clients' requests at the HTTP frontend, the      *)
(* three gRPC handler threads of the server, the tasks they post to the    *)
(* Main task runner, and the RepositoryManager the tasks run on.           *)
(*                                                                         *)
(* A request opens the repository; a push then uploads its pack on a       *)
(* stream, asks for its reference to be written, and asks for the          *)
(* repository to be closed.  All requests share the one open repository,   *)
(* and each answers to its own thread: nothing orders the tasks of         *)
(* different handlers.  Nothing orders even a close and the next open,     *)
(* posted by the same handler, since the close is not waited for.  The     *)
(* runner takes any waiting task next: priorities of tasks with arguments  *)
(* are uninitialised (MessagePump, TaskQueue).                             *)
(***************************************************************************)
EXTENDS Naturals, Sequences

CONSTANTS Pushes,        \* pushes: a POST git-receive-pack each
          Fetches,       \* ref advertisements: a GET each, which opens and never closes
          MaxChunks, Mortal, NoPush,
          RefNames, RefOf, Repos, RepoName, StaleNames, Failures, EmptyName, NoRepo,
          Nobody, NoAnswer

Frontends == Pushes \cup Fetches

ASSUME FrontendAssumption ==
    /\ Pushes \cap Fetches = {}
    /\ Nobody \notin Frontends

VARIABLES client, sent, wire, acks, accepted, served, ops, orphans, hpc, msg, isRunning,
          repoOpen, attempted, streamCrash
VARIABLES currentRepo, repoRefCnt, odb, refs, head, undefined, repoCrash
VARIABLES front,         \* where each request is in the frontend's code
          rpc,           \* the state of each request's unary call
          busy,          \* the request whose call each unary handler works on
          future,        \* the answer to each handler's task, once it has run
          tasks,         \* the tasks in the queue
          report,        \* what the git client was told of its reference
          closedBy       \* whose close task ran last

streamVars  == <<client, sent, wire, acks, accepted, served, ops, orphans, hpc, msg,
                 isRunning, repoOpen, attempted, streamCrash>>
managerVars == <<currentRepo, repoRefCnt, odb, refs, head, undefined, repoCrash>>
serviceVars == <<front, rpc, busy, future, tasks, report, closedBy>>
vars == <<streamVars, managerVars, serviceVars>>

Stream  == INSTANCE RecvPackStream WITH crashed <- streamCrash
Manager == INSTANCE RepositoryManager WITH crashed <- repoCrash, Packs <- Pushes

ASSUME StreamAssumption ==
    /\ NoPush \notin Pushes /\ Mortal \subseteq Pushes
    /\ MaxChunks \in Nat \ {0}

\* The repository asked for exists: one that does not is an open that fails, as Failures has it.
ASSUME ManagerAssumption ==
    /\ RefOf \in [Pushes -> RefNames] /\ NoRepo \notin Pushes \cup RefNames
    /\ NoRepo \notin Manager!GitRepos
    /\ RepoName \in Repos
    /\ NoAnswer \notin Manager!Answers

Init ==
    /\ Stream!Init /\ Manager!Init
    /\ front = [c \in Frontends |-> "start"]
    /\ rpc = [c \in Frontends |-> "none"]
    /\ busy = [h \in {"state", "ref"} |-> Nobody]
    /\ future = [h \in {"state", "ref", "stream"} |-> NoAnswer]
    /\ tasks = {}
    /\ report = [c \in Pushes |-> "none"]
    /\ closedBy = Nobody

Up == ~streamCrash /\ ~repoCrash

---------------------------------------------------------------------------
(* The frontend.                                                           *)

\* Make a call; a frontend goroutine has one call in progress.
Call(c, next) ==
    /\ front' = [front EXCEPT ![c] = next]
    /\ rpc' = [rpc EXCEPT ![c] = "sent"]

Return(c, next) ==
    /\ front' = [front EXCEPT ![c] = next]
    /\ rpc' = [rpc EXCEPT ![c] = "none"]

Answered(c) == rpc[c] \in {"ok", "failed"}

\* GitHTTPHandler opens the repository for every GET and every POST.
RequestOpen(c) ==
    /\ front[c] = "start"
    /\ Call(c, "opening")
    /\ UNCHANGED <<streamVars, managerVars, busy, future, tasks, report, closedBy>>

\* A GET that closes the repository again.
OpenReturnsThenClose(c) ==
    /\ front[c] = "opening" /\ Answered(c)
    /\ IF c \in Pushes THEN Return(c, "upload") ELSE Call(c, "closing")
    /\ UNCHANGED <<streamVars, managerVars, busy, future, tasks, report, closedBy>>

\* changeRepoState only logs an error: the request goes on without the repository.
OpenReturns(c) ==
    /\ front[c] = "opening" /\ Answered(c)
    /\ Return(c, IF c \in Pushes THEN "upload" ELSE "finished")
    /\ UNCHANGED <<streamVars, managerVars, busy, future, tasks, report, closedBy>>

\* unbufferedWriteStream.
Upload(c) ==
    /\ front[c] = "upload"
    /\ Stream!Client(c)
    /\ UNCHANGED <<managerVars, serviceVars>>

FrontendDisappears(c) ==
    /\ front[c] = "upload"
    /\ Stream!Disappear(c)
    /\ UNCHANGED <<managerVars, serviceVars>>

\* The commands do not decode, or no pack data follows them: packUpload returns, and
\* the repository stays open.
NothingToUpload(c) ==
    /\ front[c] = "upload" /\ client[c] = "idle"
    /\ front' = [front EXCEPT ![c] = "finished"]
    /\ UNCHANGED <<streamVars, managerVars, rpc, busy, future, tasks, report, closedBy>>

\* writeReferences, for the one reference of this push.
RequestReference(c) ==
    /\ front[c] = "upload" /\ client[c] = "unpacked"
    /\ Call(c, "writing")
    /\ UNCHANGED <<streamVars, managerVars, busy, future, tasks, report, closedBy>>

\* The git client is told "ok" whatever the answer was.
ReferenceReturnsOk(c) ==
    /\ front[c] = "writing" /\ Answered(c)
    /\ report' = [report EXCEPT ![c] = "ok"]
    /\ Call(c, "closing")
    /\ UNCHANGED <<streamVars, managerVars, busy, future, tasks, closedBy>>

\* The call's status is passed on as it is.
ReferenceReturnsRaw(c) ==
    /\ front[c] = "writing" /\ Answered(c)
    /\ report' = [report EXCEPT ![c] = rpc[c]]
    /\ Call(c, "closing")
    /\ UNCHANGED <<streamVars, managerVars, busy, future, tasks, closedBy>>

\* "ok" or "ng" to the git client, and the repository is closed in either case.
ReferenceReturns(c) ==
    /\ front[c] = "writing" /\ Answered(c)
    /\ report' = [report EXCEPT ![c] = IF rpc[c] = "ok" THEN "ok" ELSE "ng"]
    /\ Call(c, "closing")
    /\ UNCHANGED <<streamVars, managerVars, busy, future, tasks, closedBy>>

CloseReturns(c) ==
    /\ front[c] = "closing" /\ Answered(c)
    /\ Return(c, "finished")
    /\ UNCHANGED <<streamVars, managerVars, busy, future, tasks, report, closedBy>>

---------------------------------------------------------------------------
(* The unary handlers: RepoStateChange and WriteReference.                 *)

\* A task, with what its arguments hold: the name, chunk or reference of its request, and
\* the promise of the handler that posts it.
Args(op, c) == [op |-> op, by |-> c]

\* A handler that takes a call while it waits for another's future.
HandleOpenAtOnce(c) ==
    /\ front[c] = "opening" /\ rpc[c] = "sent"
    /\ rpc' = [rpc EXCEPT ![c] = "taken"]
    /\ busy' = [busy EXCEPT !["state"] = c]
    /\ tasks' = tasks \cup {Args("open", c)}
    /\ UNCHANGED <<streamVars, managerVars, front, future, report, closedBy>>

\* Open: post the task and wait for its future.
HandleOpen(c) ==
    /\ front[c] = "opening" /\ rpc[c] = "sent" /\ busy["state"] = Nobody
    /\ rpc' = [rpc EXCEPT ![c] = "taken"]
    /\ busy' = [busy EXCEPT !["state"] = c]
    /\ tasks' = tasks \cup {Args("open", c)}
    /\ UNCHANGED <<streamVars, managerVars, front, future, report, closedBy>>

\* A close that is waited for, though its task sets no promise.
HandleCloseAndWait(c) ==
    /\ front[c] = "closing" /\ rpc[c] = "sent" /\ busy["state"] = Nobody
    /\ rpc' = [rpc EXCEPT ![c] = "taken"]
    /\ busy' = [busy EXCEPT !["state"] = c]
    /\ tasks' = tasks \cup {Args("close", c)}
    /\ UNCHANGED <<streamVars, managerVars, front, future, report, closedBy>>

\* Close: post the task and answer at once.
HandleClose(c) ==
    /\ front[c] = "closing" /\ rpc[c] = "sent" /\ busy["state"] = Nobody
    /\ rpc' = [rpc EXCEPT ![c] = "ok"]
    /\ tasks' = tasks \cup {Args("close", c)}
    /\ UNCHANGED <<streamVars, managerVars, front, busy, future, report, closedBy>>

HandleReference(c) ==
    /\ front[c] = "writing" /\ rpc[c] = "sent" /\ busy["ref"] = Nobody
    /\ rpc' = [rpc EXCEPT ![c] = "taken"]
    /\ busy' = [busy EXCEPT !["ref"] = c]
    /\ tasks' = tasks \cup {Args("ref", c)}
    /\ UNCHANGED <<streamVars, managerVars, front, future, report, closedBy>>

\* The future is ready: Write finishes the call, with an error status unless "success".
Finish(h) ==
    /\ busy[h] # Nobody /\ future[h] # NoAnswer
    /\ rpc' = [rpc EXCEPT ![busy[h]] = IF future[h] = "success" THEN "ok" ELSE "failed"]
    /\ busy' = [busy EXCEPT ![h] = Nobody]
    /\ future' = [future EXCEPT ![h] = NoAnswer]
    /\ UNCHANGED <<streamVars, managerVars, front, tasks, report, closedBy>>

---------------------------------------------------------------------------
(* The stream handler, with its tasks posted and its futures answered.     *)

HandleStream ==
    /\ Stream!Handler
    /\ tasks' = IF hpc' = "next" THEN tasks ELSE tasks \cup {Args(hpc', served)}
    /\ UNCHANGED <<managerVars, front, rpc, busy, future, report, closedBy>>

StreamAnswered ==
    /\ future["stream"] # NoAnswer
    /\ Stream!AppendReturns(future["stream"]) \/ Stream!CommitReturns(future["stream"])
    /\ future' = [future EXCEPT !["stream"] = NoAnswer]
    /\ UNCHANGED <<managerVars, front, rpc, busy, tasks, report, closedBy>>

---------------------------------------------------------------------------
(* The Main thread.                                                        *)

HandlerOf(op) == CASE op = "open" -> "state" [] op = "ref" -> "ref" [] OTHER -> "stream"

\* Run a waiting task to its end.  A close has no promise to set.
RunTask(t, res) ==
    /\ \/ t.op = "open" /\ Manager!OpenRepo(RepoName, res)
       \/ t.op = "close" /\ Manager!CloseRepo(res)
       \/ t.op = "append" /\ Manager!AppendDataToPack(<<t.by, msg.data>>, res)
       \/ t.op = "commit" /\ Manager!CommitPackChanges(res)
       \/ t.op = "ref" /\ Manager!NewReference(t.by, res)
    /\ tasks' = tasks \ {t}
    /\ future' = IF t.op = "close" \/ res = "none" THEN future
                 ELSE [future EXCEPT ![HandlerOf(t.op)] = res]
    /\ closedBy' = IF t.op = "close" THEN t.by ELSE closedBy
    /\ UNCHANGED <<streamVars, front, rpc, busy, report>>

RunSomeTask == \E t \in tasks, res \in Manager!Answers : RunTask(t, res)

---------------------------------------------------------------------------
Frontend(c) ==
    \/ RequestOpen(c) \/ OpenReturns(c) \/ CloseReturns(c)
    \/ /\ c \in Pushes
       /\ \/ Upload(c) \/ NothingToUpload(c) \/ RequestReference(c) \/ ReferenceReturns(c)

StateHandler == (\E c \in Frontends : HandleOpen(c) \/ HandleClose(c)) \/ Finish("state")

RefHandler == (\E c \in Pushes : HandleReference(c)) \/ Finish("ref")

StreamHandler == HandleStream \/ StreamAnswered

\* Nothing happens in a process that has died, and its frontends get no answers.
Next ==
    /\ Up
    /\ \/ \E c \in Frontends : Frontend(c)
       \/ \E c \in Pushes : FrontendDisappears(c)
       \/ StateHandler \/ RefHandler \/ StreamHandler \/ RunSomeTask

Spec == Init /\ [][Next]_vars

\* Every thread and every frontend that can run does, and the runner never stops
\* while a task waits (MessagePump).
FairSpec ==
    /\ Spec
    /\ \A c \in Frontends : WF_vars(Up /\ Frontend(c))
    /\ WF_vars(Up /\ StateHandler) /\ WF_vars(Up /\ RefHandler)
    /\ WF_vars(Up /\ StreamHandler) /\ WF_vars(Up /\ RunSomeTask)

---------------------------------------------------------------------------
(* Properties.                                                             *)

\* Every variable of the service keeps its type, and so do its parts'.
TypeOK ==
    /\ Stream!TypeOK /\ Manager!TypeOK
    /\ front \in [Frontends -> {"start", "opening", "upload", "writing", "closing", "finished"}]
    /\ rpc \in [Frontends -> {"none", "sent", "taken", "ok", "failed"}]
    /\ busy \in [{"state", "ref"} -> Frontends \cup {Nobody}]
    /\ future \in [{"state", "ref", "stream"} -> Manager!Answers \cup {NoAnswer}]
    /\ tasks \subseteq [op : {"open", "close", "append", "commit", "ref"}, by : Frontends]
    /\ report \in [Pushes -> {"none", "ok", "ng"}]
    /\ closedBy \in Frontends \cup {Nobody}

\* A git client that was told "ok" for its reference has its pack committed and its
\* reference on disk, whatever other requests opened, committed or closed meanwhile.
OkImpliesDurable ==
    \A c \in Pushes :
        report[c] = "ok" /\ ~undefined =>
            \E r \in Repos : c \in odb[r] /\ refs[r][RefOf[c]] = c

\* A push never closes the repository under its own appends: an append that finds the
\* repository closed (and ends the process) finds it closed by another request.
OnlyAForeignCloseKills ==
    \A t \in tasks :
        t.op = "append" /\ currentRepo = NoRepo => closedBy \in Frontends \ {t.by}

\* With a single push, any number of ref advertisements around it, and opens that find
\* their repository, no task ever meets a repository that is closed under it, in whatever
\* order the tasks run.  What is left is the Read that outlives its Request: it may still
\* end the process, once every chunk of the push has been appended and its stream finished.
NoCrashDuringUpload ==
    /\ ~repoCrash
    /\ streamCrash =>
          \A c \in Pushes : c \in accepted /\ served # c /\ Len(attempted[c]) = sent[c]

\* Each handler has at most one task waiting, and it is the one its future is for: no
\* answer is delivered to a handler that waits for another.
AnswersMatchWaits ==
    /\ \A t, u \in tasks :
          t.op # "close" /\ u.op # "close" /\ HandlerOf(t.op) = HandlerOf(u.op) => t = u
    /\ \A t \in tasks : t.op # "close" => future[HandlerOf(t.op)] = NoAnswer
    /\ \A t \in tasks : t.op \in {"append", "commit"} => hpc = t.op /\ served = t.by

\* Unless the process died or a frontend disappeared, every request comes to its end.
EveryRequestEnds ==
    \A c \in Frontends :
        front[c] = "start" ~>
            \/ front[c] = "finished"
            \/ ~Up
            \/ \E s \in Pushes : client[s] = "gone"
=============================================================================

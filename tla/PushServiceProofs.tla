-------------------------- MODULE PushServiceProofs --------------------------
(***************************************************************************)
(* Proofs about the whole service, for any pushes and fetches, chunks,     *)
(* repositories and failures of libgit2, and any order of the tasks.       *)
(*                                                                         *)
(* The service is first shown to run its two parts: every step of it is a  *)
(* step of the stream handler's specification or leaves its variables      *)
(* alone, and likewise for the repository manager.  So all that            *)
(* RecvPackStreamProofs and RepositoryManagerProofs establish about the    *)
(* parts alone holds in the service too.  Between the two stands Waits,    *)
(* the invariant that ties each task in the queue to the handler that      *)
(* waits for it: a manager's step is one its specification allows only     *)
(* because the task's arguments still are what its handler put there.      *)
(***************************************************************************)
EXTENDS PushService, TLAPS

SP == INSTANCE RecvPackStreamProofs WITH crashed <- streamCrash
MP == INSTANCE RepositoryManagerProofs WITH crashed <- repoCrash, Packs <- Pushes

---------------------------------------------------------------------------
(* The invariants.                                                         *)

Types ==
    /\ front \in [Frontends -> {"start", "opening", "upload", "writing", "closing", "finished"}]
    /\ rpc \in [Frontends -> {"none", "sent", "taken", "ok", "failed"}]
    /\ busy \in [{"state", "ref"} -> Frontends \cup {Nobody}]
    /\ future \in [{"state", "ref", "stream"} -> Manager!Answers \cup {NoAnswer}]
    /\ tasks \subseteq [op : {"open", "close", "append", "commit", "ref"}, by : Frontends]
    /\ report \in [Pushes -> {"none", "ok", "ng"}]
    /\ closedBy \in Frontends \cup {Nobody}

\* A unary handler works on a call that its frontend waits for.
Taken ==
    /\ busy["state"] # Nobody =>
          front[busy["state"]] = "opening" /\ rpc[busy["state"]] = "taken"
    /\ busy["ref"] # Nobody =>
          front[busy["ref"]] = "writing" /\ rpc[busy["ref"]] = "taken"

\* A handler waits for its task or for the answer to it, never for both.
Waits ==
    /\ \A t \in tasks : t.op = "open" => busy["state"] = t.by /\ future["state"] = NoAnswer
    /\ \A t \in tasks : t.op = "ref" => busy["ref"] = t.by /\ future["ref"] = NoAnswer
    /\ \A t \in tasks : t.op \in {"append", "commit"} =>
          hpc = t.op /\ served = t.by /\ future["stream"] = NoAnswer
    /\ \A h \in {"state", "ref"} : future[h] # NoAnswer => busy[h] # Nobody
    /\ future["stream"] # NoAnswer => hpc # "next"

\* Only a push that has been told of its reference closes the repository.
Closing ==
    /\ \A t \in tasks : t.op = "close" => front[t.by] \in {"closing", "finished"} /\ t.by \in Pushes
    /\ closedBy # Nobody => front[closedBy] \in {"closing", "finished"} /\ closedBy \in Pushes
    /\ \A c \in Frontends : front[c] \in {"upload", "writing", "closing"} => c \in Pushes

\* A frontend that is in the middle of its upload is nowhere else.
Uploading == \A c \in Pushes : client[c] \notin {"idle", "unpacked"} => front[c] = "upload"

Calls == Types /\ Taken /\ Waits /\ Closing /\ Uploading

\* The repository has been opened; it is still open, or someone closed it.
Opened == currentRepo # NoRepo \/ closedBy # Nobody

\* Every request that is past its open has seen the repository opened.
OpenedFirst ==
    /\ future["state"] # NoAnswer => Opened
    /\ \A c \in Frontends :
          front[c] # "start" /\ (front[c] = "opening" => Answered(c)) => Opened

\* The reference of c is on disk, or an answer was made up by an uninitialised pointer.
Safe(c) == undefined \/ \E r \in Repos : c \in odb[r] /\ refs[r][RefOf[c]] = c

\* Every "success" on its way to a git client is about a reference that is on disk.
Told ==
    /\ \A c \in Pushes : report[c] = "ok" => Safe(c)
    /\ \A c \in Pushes : front[c] = "writing" /\ rpc[c] = "ok" => Safe(c)
    /\ future["ref"] = "success" => Safe(busy["ref"])

---------------------------------------------------------------------------
(* The service runs the stream handler.                                    *)

\* The assumptions of the stream handler's module hold here.
LEMMA StreamAssumed == SP!PushAssumption /\ SP!ChunkAssumption
BY StreamAssumption DEF SP!PushAssumption, SP!ChunkAssumption

\* The instance that the proofs are about is the one the service is made of.
LEMMA SameStream ==
    /\ Stream!Init <=> SP!Init
    /\ Stream!Next <=> SP!Next
    /\ UNCHANGED Stream!vars <=> UNCHANGED SP!vars
    /\ Stream!TypeOK <=> SP!TypeOK
    /\ Stream!Handler <=> SP!Handler
<1>1. Stream!Init <=> SP!Init
    BY
    DEF Stream!Init, SP!Init, Stream!Armed, SP!Armed, Stream!NoOps, SP!NoOps, Stream!Tags,
        SP!Tags, Stream!EmptyMsg, SP!EmptyMsg
<1>2. UNCHANGED Stream!vars <=> UNCHANGED SP!vars
    BY
    DEF Stream!vars, SP!vars, Stream!clientVars, SP!clientVars, Stream!linkVars,
        SP!linkVars, Stream!bindVars, SP!bindVars, Stream!requestVars, SP!requestVars
<1>3. Stream!TypeOK <=> SP!TypeOK
    BY
    DEF Stream!TypeOK, SP!TypeOK, Stream!Messages, SP!Messages, Stream!Chunk, SP!Chunk,
        Stream!DoneMsg, SP!DoneMsg, Stream!EmptyMsg, SP!EmptyMsg, Stream!Tags, SP!Tags
<1>4. Stream!Handler <=> SP!Handler
    BY
    DEF Stream!Handler, SP!Handler, Stream!OnConnect, SP!OnConnect, Stream!OnRead,
        SP!OnRead, Stream!OnReadFailed, SP!OnReadFailed, Stream!OnWrite, SP!OnWrite,
        Stream!OnWriteFailed, SP!OnWriteFailed, Stream!OnDone, SP!OnDone, Stream!OnFinish,
        SP!OnFinish, Stream!OnOrphanRead, SP!OnOrphanRead, Stream!Returns, SP!Returns,
        Stream!RaiseDone, SP!RaiseDone, Stream!NewRequest, SP!NewRequest, Stream!Armed,
        SP!Armed, Stream!NoOps, SP!NoOps, Stream!Tags, SP!Tags, Stream!EmptyMsg,
        SP!EmptyMsg, Stream!clientVars, SP!clientVars, Stream!linkVars, SP!linkVars,
        Stream!bindVars, SP!bindVars, Stream!requestVars, SP!requestVars
<1>5. Stream!Repository <=> SP!Repository
    BY
    DEF Stream!Repository, SP!Repository, Stream!Answers, SP!Answers, Stream!AppendReturns,
        SP!AppendReturns, Stream!CommitReturns, SP!CommitReturns, Stream!RaiseDone,
        SP!RaiseDone, Stream!clientVars, SP!clientVars, Stream!linkVars, SP!linkVars,
        Stream!bindVars, SP!bindVars, Stream!requestVars, SP!requestVars
<1>6. \A c \in Pushes : (Stream!Client(c) \/ Stream!Disappear(c)) <=> (SP!Client(c) \/ SP!Disappear(c))
    BY
    DEF Stream!Client, SP!Client, Stream!StartStream, SP!StartStream, Stream!SendChunk,
        SP!SendChunk, Stream!RecvAck, SP!RecvAck, Stream!SendDone, SP!SendDone,
        Stream!RecvDoneAck, SP!RecvDoneAck, Stream!Disappear, SP!Disappear, Stream!Chunk,
        SP!Chunk, Stream!DoneMsg, SP!DoneMsg, Stream!clientVars, SP!clientVars,
        Stream!linkVars, SP!linkVars, Stream!bindVars, SP!bindVars, Stream!requestVars,
        SP!requestVars
<1>7. Stream!Next <=> SP!Next
    BY <1>4, <1>5, <1>6 DEF Stream!Next, SP!Next
<1>8. QED BY <1>1, <1>2, <1>3, <1>4, <1>7

\* A step of the service is a step of the stream handler and its frontends, or none of theirs.
LEMMA StreamStep == [Next]_vars => [Stream!Next]_(Stream!vars)
<1> SUFFICES ASSUME [Next]_vars PROVE [Stream!Next]_(Stream!vars)
    OBVIOUS
<1>1. ASSUME UNCHANGED streamVars PROVE [Stream!Next]_(Stream!vars)
    BY <1>1
    DEF streamVars, Stream!vars, Stream!clientVars, Stream!linkVars, Stream!requestVars, Stream!bindVars
<1>2. ASSUME NEW c \in Pushes, Upload(c) \/ FrontendDisappears(c)
      PROVE  [Stream!Next]_(Stream!vars)
    BY <1>2 DEF Upload, FrontendDisappears, Stream!Next
<1>3. ASSUME HandleStream PROVE [Stream!Next]_(Stream!vars)
    BY <1>3 DEF HandleStream, Stream!Next
<1>4. ASSUME StreamAnswered PROVE [Stream!Next]_(Stream!vars)
  <2> DEFINE answer == IF future["stream"] = "success" THEN "success" ELSE "error"
  <2>1. Stream!AppendReturns(answer) \/ Stream!CommitReturns(answer)
    BY <1>4 DEF StreamAnswered, Stream!AppendReturns, Stream!CommitReturns
  <2>2. answer \in Stream!Answers
    BY DEF Stream!Answers
  <2>3. QED BY <2>1, <2>2 DEF Stream!Next, Stream!Repository
<1>5. ASSUME NEW c \in Frontends,
             \/ RequestOpen(c) \/ OpenReturns(c) \/ CloseReturns(c)
             \/ NothingToUpload(c) \/ RequestReference(c) \/ ReferenceReturns(c)
             \/ HandleOpen(c) \/ HandleClose(c) \/ HandleReference(c)
      PROVE  UNCHANGED streamVars
    BY <1>5
    DEF RequestOpen, OpenReturns, CloseReturns, NothingToUpload, RequestReference,
        ReferenceReturns, HandleOpen, HandleClose, HandleReference
<1>6. ASSUME NEW h, Finish(h) PROVE UNCHANGED streamVars
    BY <1>6 DEF Finish
<1>7. ASSUME RunSomeTask PROVE UNCHANGED streamVars
    BY <1>7 DEF RunSomeTask, RunTask
<1>8. CASE Next
    BY <1>1, <1>2, <1>3, <1>4, <1>5, <1>6, <1>7, <1>8
    DEF Next, Frontend, StateHandler, RefHandler, StreamHandler, Frontends
<1>9. CASE UNCHANGED vars
    BY <1>1, <1>9 DEF vars
<1>10. QED BY <1>8, <1>9

\* The service, seen through the variables of the stream handler, is the stream handler:
\* connecting it to the repository's answers adds no behaviour to RecvPackStream.
THEOREM ServiceRunsTheStream == Spec => Stream!Spec
<1>1. Init => Stream!Init
    BY DEF Init
<1>2. QED BY <1>1, StreamStep, PTL DEF Spec, Stream!Spec

\* So the phases of RecvPackStreamProofs hold in the service.
THEOREM StreamHolds == Spec => []SP!Inv
<1>1. Init => SP!Init
    BY SameStream DEF Init
<1>2. [Next]_vars => [SP!Next]_(SP!vars)
    BY StreamStep, SameStream
<1>3. SP!Spec => []SP!Inv
    BY StreamAssumed, SP!Invariant
<1>4. Spec => SP!Spec
    BY <1>1, <1>2, PTL DEF Spec, SP!Spec
<1>5. QED BY <1>3, <1>4, PTL

---------------------------------------------------------------------------
(* The calls, the tasks and who waits for them.                            *)

\* At the start nobody has called.
LEMMA InitCalls == Init => Calls
<1> SUFFICES ASSUME Init PROVE Calls
    OBVIOUS
<1>1. Types
    BY DEF Init, Types
<1>2. Taken /\ Waits /\ Closing
    BY DEF Init, Taken, Waits, Closing
<1>3. Uploading
    BY DEF Init, Stream!Init, Uploading
<1>4. QED BY <1>1, <1>2, <1>3 DEF Calls

\* A frontend goes on when its call has been answered, so no handler works for it.
LEMMA RequestCalls ==
    ASSUME Calls, NEW c \in Frontends,
           \/ RequestOpen(c) \/ OpenReturns(c) \/ CloseReturns(c)
           \/ c \in Pushes /\ (NothingToUpload(c) \/ RequestReference(c) \/ ReferenceReturns(c))
    PROVE  Calls'
<1>1. PICK f \in {"opening", "upload", "writing", "closing", "finished"},
           q \in {"none", "sent", rpc[c]} :
          /\ front' = [front EXCEPT ![c] = f]
          /\ rpc' = [rpc EXCEPT ![c] = q]
          /\ \/ front[c] = "start" /\ f = "opening"
             \/ front[c] = "opening" /\ Answered(c) /\ f = (IF c \in Pushes THEN "upload" ELSE "finished")
             \/ front[c] = "closing" /\ f = "finished"
             \/ front[c] = "upload" /\ client[c] = "idle" /\ f = "finished"
             \/ front[c] = "upload" /\ client[c] = "unpacked" /\ f = "writing"
             \/ front[c] = "writing" /\ Answered(c) /\ f = "closing"
          /\ report' \in [Pushes -> {"none", "ok", "ng"}]
          /\ UNCHANGED <<streamVars, busy, future, tasks, closedBy>>
  <2>1. CASE RequestOpen(c)
    BY <2>1 DEF RequestOpen, Call, Calls, Types
  <2>2. CASE OpenReturns(c)
    BY <2>2 DEF OpenReturns, Return, Calls, Types
  <2>3. CASE CloseReturns(c)
    BY <2>3 DEF CloseReturns, Return, Calls, Types
  <2>4. CASE NothingToUpload(c)
    <3>1. rpc' = [rpc EXCEPT ![c] = rpc[c]]
      BY <2>4 DEF NothingToUpload, Calls, Types
    <3>2. QED BY <2>4, <3>1 DEF NothingToUpload, Calls, Types
  <2>5. CASE RequestReference(c)
    BY <2>5 DEF RequestReference, Call, Calls, Types
  <2>6. CASE ReferenceReturns(c)
    BY <2>6 DEF ReferenceReturns, Call, Calls, Types
  <2>7. QED BY <2>1, <2>2, <2>3, <2>4, <2>5, <2>6
<1>2. /\ front'[c] = f /\ rpc'[c] = q /\ rpc[c] \in {"none", "sent", "taken", "ok", "failed"}
      /\ \A d \in Frontends : d # c => front'[d] = front[d] /\ rpc'[d] = rpc[d]
    BY <1>1 DEF Calls, Types
<1>3. Types'
    BY <1>1, <1>2 DEF Calls, Types
<1>4. busy["state"] # c /\ busy["ref"] # c
    BY <1>1, FrontendAssumption DEF Calls, Taken, Answered
<1>5. Taken'
    BY <1>1, <1>2, <1>4 DEF Calls, Types, Taken
<1>6. Waits'
    BY <1>1 DEF Calls, Waits, streamVars
<1>7. Closing'
    BY <1>1, <1>2, FrontendAssumption DEF Calls, Types, Closing
<1>8. Uploading'
    BY <1>1, <1>2 DEF Calls, Uploading, streamVars, Frontends
<1>9. QED BY <1>3, <1>5, <1>6, <1>7, <1>8 DEF Calls

\* An upload moves no call.
LEMMA UploadCalls ==
    ASSUME Calls, SP!Inv, NEW c \in Pushes, Upload(c) \/ FrontendDisappears(c)
    PROVE  Calls'
<1>1. /\ front[c] = "upload" /\ UNCHANGED serviceVars
      /\ Stream!Client(c) \/ Stream!Disappear(c)
    BY DEF Upload, FrontendDisappears
<1>2. UNCHANGED <<hpc, served>> /\ \A d \in Pushes : d # c => client'[d] = client[d]
    BY <1>1
    DEF SP!Inv, SP!TypeOK, Stream!Client, Stream!Disappear, Stream!StartStream, Stream!SendChunk, Stream!RecvAck,
        Stream!SendDone, Stream!RecvDoneAck, Stream!requestVars, Stream!bindVars
<1>3. QED
    BY <1>1, <1>2 DEF Calls, Types, Taken, Waits, Closing, Uploading, serviceVars

\* A unary handler that takes a call has no other.
LEMMA HandlerCalls ==
    ASSUME Calls, NEW c \in Frontends,
           HandleOpen(c) \/ HandleClose(c) \/ (c \in Pushes /\ HandleReference(c))
    PROVE  Calls'
<1>1. UNCHANGED <<streamVars, front, future, report, closedBy>> /\ rpc[c] = "sent"
    BY DEF HandleOpen, HandleClose, HandleReference
<1>2. Uploading'
    BY <1>1 DEF Calls, Uploading, streamVars
<1>3. busy["state"] # c /\ busy["ref"] # c
    BY <1>1, FrontendAssumption DEF Calls, Taken
<1>4. CASE HandleOpen(c)
  <2>1. Args("open", c).op = "open" /\ Args("open", c).by = c
    BY DEF Args
  <2>2. Types'
    BY <1>1, <1>4 DEF Calls, Types, HandleOpen, Args
  <2>3. Taken'
    BY <1>1, <1>3, <1>4 DEF Calls, Types, Taken, HandleOpen
  <2>4. Waits'
    BY <1>1, <1>4, <2>1, FrontendAssumption DEF Calls, Types, Waits, HandleOpen, streamVars
  <2>5. Closing'
    BY <1>1, <1>4, <2>1 DEF Calls, Closing, HandleOpen
  <2>6. QED BY <1>2, <2>2, <2>3, <2>4, <2>5 DEF Calls
<1>5. CASE HandleClose(c)
  <2>1. Args("close", c).op = "close" /\ Args("close", c).by = c
    BY DEF Args
  <2>2. Types'
    BY <1>1, <1>5 DEF Calls, Types, HandleClose, Args
  <2>3. Taken'
    BY <1>1, <1>3, <1>5 DEF Calls, Types, Taken, HandleClose
  <2>4. Waits'
    BY <1>1, <1>5, <2>1 DEF Calls, Types, Waits, HandleClose, streamVars
  <2>5. Closing'
    BY <1>1, <1>5, <2>1 DEF Calls, Closing, HandleClose
  <2>6. QED BY <1>2, <2>2, <2>3, <2>4, <2>5 DEF Calls
<1>6. CASE HandleReference(c)
  <2>1. Args("ref", c).op = "ref" /\ Args("ref", c).by = c
    BY DEF Args
  <2>2. Types'
    BY <1>1, <1>6 DEF Calls, Types, HandleReference, Args
  <2>3. Taken'
    BY <1>1, <1>3, <1>6 DEF Calls, Types, Taken, HandleReference
  <2>4. Waits'
    BY <1>1, <1>6, <2>1, FrontendAssumption DEF Calls, Types, Waits, HandleReference, streamVars
  <2>5. Closing'
    BY <1>1, <1>6, <2>1 DEF Calls, Closing, HandleReference
  <2>6. QED BY <1>2, <2>2, <2>3, <2>4, <2>5 DEF Calls
<1>7. QED BY <1>4, <1>5, <1>6

\* A unary handler that has its answer has no task in the queue.
LEMMA FinishCalls ==
    ASSUME Calls, NEW h \in {"state", "ref"}, Finish(h)
    PROVE  Calls'
<1>1. /\ busy[h] \in Frontends /\ future[h] # NoAnswer
      /\ UNCHANGED <<streamVars, front, tasks, report, closedBy>>
    BY DEF Finish, Calls, Types
<1>2. \A t \in tasks : (h = "state" => t.op # "open") /\ (h = "ref" => t.op # "ref")
    BY <1>1 DEF Calls, Waits
<1>3. Types'
    BY <1>1 DEF Finish, Calls, Types
<1>4. /\ busy'[h] = Nobody /\ future'[h] = NoAnswer
      /\ \A g \in {"state", "ref"} : g # h => busy'[g] = busy[g]
      /\ \A g \in {"state", "ref", "stream"} : g # h => future'[g] = future[g]
      /\ \A d \in Frontends : d # busy[h] => rpc'[d] = rpc[d]
    BY <1>1 DEF Finish, Calls, Types
<1>5. Taken'
    BY <1>1, <1>4 DEF Calls, Types, Taken
<1>6. Waits'
    BY <1>1, <1>2, <1>4 DEF Calls, Waits, streamVars
<1>7. Closing' /\ Uploading'
    BY <1>1 DEF Calls, Closing, Uploading, streamVars
<1>8. QED BY <1>3, <1>5, <1>6, <1>7 DEF Calls

\* The stream handler posts a task when it has none and waits for nothing.
LEMMA StreamCalls ==
    ASSUME Calls, SP!Inv, HandleStream
    PROVE  Calls'
<1>1. /\ Stream!Handler /\ UNCHANGED <<front, rpc, busy, future, report, closedBy>>
      /\ tasks' = IF hpc' = "next" THEN tasks ELSE tasks \cup {Args(hpc', served)}
    BY DEF HandleStream
<1>2. /\ hpc = "next" /\ hpc' \in {"next", "append", "commit"}
      /\ hpc' # "next" => served \in Pushes /\ served' = served
    BY <1>1, StreamAssumed, SameStream, SP!HandlerPosts
<1>3. UNCHANGED client
    BY <1>1
    DEF Stream!Handler, Stream!OnConnect, Stream!OnRead, Stream!OnReadFailed, Stream!OnWrite,
        Stream!OnWriteFailed, Stream!OnDone, Stream!OnFinish, Stream!OnOrphanRead, Stream!clientVars
<1>4. /\ future["stream"] = NoAnswer
      /\ \A t \in tasks : t.op \notin {"append", "commit"}
    BY <1>2 DEF Calls, Waits
<1>5. Taken' /\ Uploading'
    BY <1>1, <1>3 DEF Calls, Taken, Uploading
<1>6. CASE hpc' = "next"
    BY <1>1, <1>4, <1>5, <1>6 DEF Calls, Types, Waits, Closing
<1>7. CASE hpc' \in {"append", "commit"}
  <2> DEFINE t == Args(hpc', served)
  <2>1. t.op = hpc' /\ t.by = served /\ tasks' = tasks \cup {t}
    BY <1>1, <1>7 DEF Args
  <2>2. t \in [op : {"open", "close", "append", "commit", "ref"}, by : Frontends]
    BY <1>2, <1>7 DEF Args, Frontends
  <2> HIDE DEF t
  <2>3. Types' /\ Closing'
    BY <1>1, <1>7, <2>1, <2>2 DEF Calls, Types, Closing
  <2>4. Waits'
    BY <1>1, <1>2, <1>4, <1>7, <2>1 DEF Calls, Waits
  <2>5. QED BY <1>5, <2>3, <2>4 DEF Calls
<1>8. QED BY <1>2, <1>6, <1>7

\* The stream handler takes the answer to its task.
LEMMA AnsweredCalls ==
    ASSUME Calls, StreamAnswered
    PROVE  Calls'
<1>1. /\ hpc' = "next" /\ future["stream"] # NoAnswer
      /\ future' = [future EXCEPT !["stream"] = NoAnswer]
      /\ UNCHANGED <<client, served, front, rpc, busy, tasks, report, closedBy>>
    BY
    DEF StreamAnswered, Stream!AppendReturns, Stream!CommitReturns, Stream!clientVars, Stream!bindVars
<1>2. \A t \in tasks : t.op \notin {"append", "commit"}
    BY <1>1 DEF Calls, Waits
<1>3. /\ future'["stream"] = NoAnswer /\ future'["state"] = future["state"]
      /\ future'["ref"] = future["ref"]
    BY <1>1 DEF Calls, Types
<1>4. Types'
    BY <1>1 DEF Calls, Types
<1>5. Waits'
    BY <1>1, <1>2, <1>3 DEF Calls, Waits
<1>6. Taken' /\ Closing' /\ Uploading'
    BY <1>1 DEF Calls, Taken, Closing, Uploading
<1>7. QED BY <1>4, <1>5, <1>6 DEF Calls

\* A task answers the handler that waits for it, and no other.
LEMMA TaskCalls ==
    ASSUME Calls, NEW t \in tasks, NEW res \in Manager!Answers, RunTask(t, res)
    PROVE  Calls'
<1>1. /\ tasks' = tasks \ {t} /\ UNCHANGED <<streamVars, front, rpc, busy, report>>
      /\ future' = IF t.op = "close" \/ res = "none" THEN future
                   ELSE [future EXCEPT ![HandlerOf(t.op)] = res]
      /\ closedBy' = IF t.op = "close" THEN t.by ELSE closedBy
    BY DEF RunTask
<1>2. /\ t.op \in {"open", "close", "append", "commit", "ref"} /\ t.by \in Frontends
      /\ HandlerOf(t.op) \in {"state", "ref", "stream"}
      /\ t.op = "open" => HandlerOf(t.op) = "state"
      /\ t.op = "ref" => HandlerOf(t.op) = "ref"
      /\ t.op \in {"append", "commit"} => HandlerOf(t.op) = "stream"
    BY DEF Calls, Types, HandlerOf
<1>3. Types'
    BY <1>1, <1>2 DEF Calls, Types
<1>4. Taken' /\ Closing' /\ Uploading'
    BY <1>1, <1>2, FrontendAssumption DEF Calls, Taken, Closing, Uploading, streamVars
<1>5. ASSUME NEW u \in tasks, u # t, u.op # "close", t.op # "close"
      PROVE  HandlerOf(t.op) # HandlerOf(u.op)
  <2>1. u \in [op : {"open", "close", "append", "commit", "ref"}, by : Frontends]
    BY DEF Calls, Types
  <2>2. t \in [op : {"open", "close", "append", "commit", "ref"}, by : Frontends]
    BY DEF Calls, Types
  <2>3. u.op # t.op \/ u.by # t.by
    BY <1>5, <2>1, <2>2
  <2>4. QED BY <1>5, <2>1, <2>2, <2>3 DEF Calls, Waits, HandlerOf
<1>6. Waits'
  <2>1. CASE t.op = "close" \/ res = "none"
    BY <1>1, <2>1 DEF Calls, Waits, streamVars
  <2>2. CASE t.op # "close" /\ res # "none"
    <3>1. /\ future'[HandlerOf(t.op)] = res
          /\ \A h \in {"state", "ref", "stream"} : h # HandlerOf(t.op) => future'[h] = future[h]
      BY <1>1, <1>2, <2>2 DEF Calls, Types
    <3>2. \A u \in tasks' : u \in tasks /\ (u.op # "close" => HandlerOf(t.op) # HandlerOf(u.op))
      BY <1>1, <1>5, <2>2
    <3>3. \A u \in tasks :
            /\ u.op = "open" => HandlerOf(u.op) = "state"
            /\ u.op = "ref" => HandlerOf(u.op) = "ref"
            /\ u.op \in {"append", "commit"} => HandlerOf(u.op) = "stream"
      BY DEF HandlerOf
    <3>4. /\ t.op = "open" => busy["state"] = t.by
          /\ t.op = "ref" => busy["ref"] = t.by
          /\ t.op \in {"append", "commit"} => hpc = t.op
      BY DEF Calls, Waits
    <3>5. QED
      BY <1>1, <1>2, <2>2, <3>1, <3>2, <3>3, <3>4, FrontendAssumption DEF Calls, Waits, streamVars
  <2>3. QED BY <2>1, <2>2
<1>7. QED BY <1>3, <1>4, <1>6 DEF Calls

\* Every step keeps the calls in order, given the phases of the stream handler.
LEMMA StepCalls == Calls /\ SP!Inv /\ [Next]_vars => Calls'
<1> SUFFICES ASSUME Calls, SP!Inv, [Next]_vars PROVE Calls'
    OBVIOUS
<1>1. CASE UNCHANGED vars
    BY <1>1 DEF vars, streamVars, serviceVars, Calls, Types, Taken, Waits, Closing, Uploading
<1>2. ASSUME NEW c \in Frontends, Frontend(c) PROVE Calls'
    BY <1>2, RequestCalls, UploadCalls DEF Frontend
<1>3. ASSUME StateHandler \/ RefHandler PROVE Calls'
    BY <1>3, HandlerCalls, FinishCalls DEF StateHandler, RefHandler, Frontends
<1>4. ASSUME RunSomeTask PROVE Calls'
    BY <1>4, TaskCalls DEF RunSomeTask
<1>5. CASE Next
    BY <1>2, <1>3, <1>4, <1>5, UploadCalls, StreamCalls, AnsweredCalls DEF Next, StreamHandler
<1>6. QED BY <1>1, <1>5

\* The invariant of the calls holds throughout.
THEOREM CallsHold == Spec => []Calls
BY InitCalls, StepCalls, StreamHolds, PTL DEF Spec

\* No handler's future is ever set by the task of another (RepoProxy's promises, one per
\* call): each handler has one task at most, and has its answer only once it is gone.
THEOREM AnswersGoHome == Spec => []AnswersMatchWaits
<1>1. Calls => AnswersMatchWaits
  <2> SUFFICES ASSUME Calls PROVE AnswersMatchWaits
    OBVIOUS
  <2>1. ASSUME NEW t \in tasks, NEW u \in tasks, t.op # "close", u.op # "close",
               HandlerOf(t.op) = HandlerOf(u.op)
        PROVE  t = u
    <3>1. t.op = u.op /\ t.by = u.by
      BY <2>1 DEF Calls, Types, Waits, HandlerOf
    <3>2. t \in [op : {"open", "close", "append", "commit", "ref"}, by : Frontends]
      BY DEF Calls, Types
    <3>3. u \in [op : {"open", "close", "append", "commit", "ref"}, by : Frontends]
      BY DEF Calls, Types
    <3>4. QED BY <3>1, <3>2, <3>3
  <2>2. ASSUME NEW t \in tasks, t.op # "close" PROVE future[HandlerOf(t.op)] = NoAnswer
    BY <2>2 DEF Calls, Types, Waits, HandlerOf
  <2>3. QED BY <2>1, <2>2 DEF Calls, Waits, AnswersMatchWaits
<1>2. QED BY <1>1, CallsHold, PTL

---------------------------------------------------------------------------
(* The service runs the repository manager.                                *)

\* The assumptions of the manager's module hold here.
LEMMA ManagerAssumed == MP!RefAssumption /\ MP!NullAssumption
BY ManagerAssumption DEF MP!RefAssumption, MP!NullAssumption, MP!GitRepos, Manager!GitRepos

\* The instance that the proofs are about is the one the service is made of.
LEMMA SameManager ==
    /\ Manager!Init <=> MP!Init
    /\ Manager!TypeOK <=> MP!TypeOK
    /\ Manager!Answers = MP!Answers
    /\ UNCHANGED Manager!vars <=> UNCHANGED MP!vars
    /\ \A res : /\ Manager!OpenRepo(RepoName, res) <=> MP!OpenRepo(RepoName, res)
                /\ Manager!CloseRepo(res) <=> MP!CloseRepo(res)
                /\ Manager!CommitPackChanges(res) <=> MP!CommitPackChanges(res)
                /\ Manager!GetRepoRefs(res) <=> MP!GetRepoRefs(res)
    /\ \A k, res : Manager!NewReference(k, res) <=> MP!NewReference(k, res)
    /\ \A chunk, res : Manager!AppendDataToPack(chunk, res) <=> MP!AppendDataToPack(chunk, res)
<1>1. Manager!Init <=> MP!Init
    BY DEF Manager!Init, MP!Init
<1>2. Manager!TypeOK <=> MP!TypeOK
    BY DEF Manager!TypeOK, MP!TypeOK, Manager!GitRepos, MP!GitRepos
<1>3. Manager!Answers = MP!Answers
    BY DEF Manager!Answers, MP!Answers
<1>4. UNCHANGED Manager!vars <=> UNCHANGED MP!vars
    BY
    DEF Manager!vars, MP!vars, Manager!repoVars, MP!repoVars, Manager!diskVars, MP!diskVars
<1>5. ASSUME NEW res
      PROVE  /\ Manager!OpenRepo(RepoName, res) <=> MP!OpenRepo(RepoName, res)
             /\ Manager!CloseRepo(res) <=> MP!CloseRepo(res)
    BY
    DEF Manager!OpenRepo, MP!OpenRepo, Manager!OpenNew, MP!OpenNew, Manager!GitRepo,
        MP!GitRepo, Manager!Abort, MP!Abort, Manager!CloseRepo, MP!CloseRepo,
        Manager!FreesUnset, MP!FreesUnset, Manager!vars, MP!vars, Manager!repoVars,
        MP!repoVars, Manager!diskVars, MP!diskVars
<1>6. ASSUME NEW res
      PROVE  /\ Manager!CommitPackChanges(res) <=> MP!CommitPackChanges(res)
             /\ Manager!GetRepoRefs(res) <=> MP!GetRepoRefs(res)
    BY
    DEF Manager!CommitPackChanges, MP!CommitPackChanges, Manager!PackCommit, MP!PackCommit,
        Manager!Pack, MP!Pack, Manager!MayFail, MP!MayFail, Manager!UseUninitialised,
        MP!UseUninitialised, Manager!Abort, MP!Abort, Manager!GetRepoRefs, MP!GetRepoRefs,
        Manager!GetRepoReferences, MP!GetRepoReferences, Manager!vars, MP!vars,
        Manager!repoVars, MP!repoVars, Manager!diskVars, MP!diskVars
<1>7. ASSUME NEW k, NEW res PROVE Manager!NewReference(k, res) <=> MP!NewReference(k, res)
    BY
    DEF Manager!NewReference, MP!NewReference, Manager!CreateReference, MP!CreateReference,
        Manager!MayFail, MP!MayFail, Manager!UseUninitialised, MP!UseUninitialised,
        Manager!Abort, MP!Abort, Manager!vars, MP!vars, Manager!repoVars, MP!repoVars,
        Manager!diskVars, MP!diskVars
<1>8. ASSUME NEW chunk, NEW res
      PROVE  Manager!AppendDataToPack(chunk, res) <=> MP!AppendDataToPack(chunk, res)
    BY
    DEF Manager!AppendDataToPack, MP!AppendDataToPack, Manager!PackAppend, MP!PackAppend,
        Manager!UseUninitialised, MP!UseUninitialised, Manager!Abort, MP!Abort,
        Manager!vars, MP!vars, Manager!repoVars, MP!repoVars, Manager!diskVars, MP!diskVars
<1>9. QED BY <1>1, <1>2, <1>3, <1>4, <1>5, <1>6, <1>7, <1>8

\* What a task does to the repository, with the arguments its handler gave it.
LEMMA TaskRuns ==
    ASSUME Calls, SP!Inv, NEW t \in tasks, NEW res \in Manager!Answers, RunTask(t, res)
    PROVE  \/ t.op = "open" /\ MP!OpenRepo(RepoName, res) /\ busy["state"] = t.by
           \/ t.op = "close" /\ MP!CloseRepo(res) /\ t.by \in Pushes
           \/ /\ t.op = "append" /\ MP!AppendDataToPack(<<t.by, msg.data>>, res)
              /\ t.by \in Pushes /\ msg.data \in 1..MaxChunks
              /\ front[t.by] = "upload"
           \/ t.op = "commit" /\ MP!CommitPackChanges(res)
           \/ t.op = "ref" /\ MP!NewReference(t.by, res) /\ t.by \in Pushes /\ busy["ref"] = t.by
<1>1. \/ t.op = "open" /\ Manager!OpenRepo(RepoName, res)
      \/ t.op = "close" /\ Manager!CloseRepo(res)
      \/ t.op = "append" /\ Manager!AppendDataToPack(<<t.by, msg.data>>, res)
      \/ t.op = "commit" /\ Manager!CommitPackChanges(res)
      \/ t.op = "ref" /\ Manager!NewReference(t.by, res)
    BY DEF RunTask
<1>2. /\ t.op = "open" => busy["state"] = t.by
      /\ t.op = "close" => t.by \in Pushes
      /\ t.op = "ref" => busy["ref"] = t.by /\ t.by \in Frontends
      /\ t.op = "append" => hpc = "append" /\ served = t.by
    BY DEF Calls, Types, Waits, Closing
<1>3. t.op = "ref" => t.by \in Pushes
    BY <1>2, FrontendAssumption DEF Calls, Taken, Closing
<1>4. t.op = "append" => t.by \in Pushes /\ msg.data \in 1..MaxChunks /\ front[t.by] = "upload"
  <2>1. hpc = "append" =>
            served \in Pushes /\ msg.data \in 1..MaxChunks /\ client[served] \notin {"idle", "unpacked"}
    BY StreamAssumed, SP!InvWaits
  <2>2. QED BY <1>2, <2>1 DEF Calls, Uploading
<1>5. QED BY <1>1, <1>2, <1>3, <1>4, SameManager

\* A step of the service is a step of the repository manager, or leaves it alone.
LEMMA ManagerStep == Calls /\ SP!Inv /\ [Next]_vars => [MP!Next]_(MP!vars)
<1> SUFFICES ASSUME Calls, SP!Inv, [Next]_vars PROVE [MP!Next]_(MP!vars)
    OBVIOUS
<1>1. ASSUME UNCHANGED managerVars PROVE [MP!Next]_(MP!vars)
    BY <1>1 DEF managerVars, MP!vars, MP!repoVars, MP!diskVars
<1>2. ASSUME NEW t \in tasks, NEW res \in Manager!Answers, RunTask(t, res)
      PROVE  MP!Next
    BY <1>2, TaskRuns, SameManager, ManagerAssumption DEF MP!Next
<1>3. ASSUME NEW c \in Frontends,
             \/ Frontend(c) \/ FrontendDisappears(c)
             \/ HandleOpen(c) \/ HandleClose(c) \/ HandleReference(c)
      PROVE  UNCHANGED managerVars
    BY <1>3
    DEF Frontend, RequestOpen, OpenReturns, CloseReturns, Upload, FrontendDisappears,
        NothingToUpload, RequestReference, ReferenceReturns, HandleOpen, HandleClose, HandleReference
<1>4. ASSUME NEW h, Finish(h) PROVE UNCHANGED managerVars
    BY <1>4 DEF Finish
<1>5. ASSUME StreamHandler PROVE UNCHANGED managerVars
    BY <1>5 DEF StreamHandler, HandleStream, StreamAnswered
<1>6. CASE Next
    BY <1>1, <1>2, <1>3, <1>4, <1>5, <1>6 DEF Next, RunSomeTask, StateHandler, RefHandler, Frontends
<1>7. CASE UNCHANGED vars
    BY <1>1, <1>7 DEF vars
<1>8. QED BY <1>6, <1>7

\* The service, seen through the variables of the repository manager, is the manager: its
\* handlers call it with arguments that RepositoryManager allows, whatever order the runner
\* takes their tasks in.
THEOREM ServiceRunsTheManager == Spec => Manager!Spec
<1>1. Init => Manager!Init
    BY DEF Init
<1>2. MP!Next => Manager!Next
  <2>1. \A name, res : MP!OpenRepo(name, res) <=> Manager!OpenRepo(name, res)
    BY
    DEF Manager!OpenRepo, MP!OpenRepo, Manager!OpenNew, MP!OpenNew, Manager!GitRepo,
        MP!GitRepo, Manager!Abort, MP!Abort, Manager!vars, MP!vars, Manager!repoVars,
        MP!repoVars, Manager!diskVars, MP!diskVars
  <2>2. QED BY <2>1, SameManager DEF MP!Next, Manager!Next
<1>3. Calls /\ SP!Inv /\ [Next]_vars => [Manager!Next]_(Manager!vars)
    BY <1>2, ManagerStep, SameManager
<1>4. QED BY <1>1, <1>3, StreamHolds, CallsHold, PTL DEF Spec, Manager!Spec

\* So the types of RepositoryManagerProofs hold in the service.
THEOREM ManagerHolds == Spec => []MP!Typed
<1>1. Init => MP!Init
    BY SameManager DEF Init
<1>2. MP!Spec => []MP!Typed
    BY ManagerAssumed, MP!TypedHolds
<1>3. Spec => MP!Spec
    BY <1>1, ManagerStep, StreamHolds, CallsHold, PTL DEF Spec, MP!Spec
<1>4. QED BY <1>2, <1>3, PTL

\* Every variable of the service keeps its type, those of its two parts included.
THEOREM TypeCorrect == Spec => []TypeOK
<1>1. SP!Inv /\ MP!Typed /\ Calls => TypeOK
    BY SameStream, SameManager DEF SP!Inv, MP!Typed, Calls, Types, TypeOK
<1>2. QED BY <1>1, StreamHolds, ManagerHolds, CallsHold, PTL

---------------------------------------------------------------------------
(* Opens, closes and what the git clients are told.                        *)

\* Once opened, the repository is open until somebody closes it.
LEMMA StaysOpened ==
    ASSUME Calls, SP!Inv, MP!Typed, [Next]_vars, Opened
    PROVE  Opened'
<1>1. ASSUME UNCHANGED <<managerVars, closedBy>> PROVE Opened'
    BY <1>1 DEF Opened, managerVars
<1>2. ASSUME NEW t \in tasks, NEW res \in Manager!Answers, RunTask(t, res) PROVE Opened'
  <2>1. closedBy' = IF t.op = "close" THEN t.by ELSE closedBy
    BY <1>2 DEF RunTask
  <2>2. t.by # Nobody
    BY FrontendAssumption DEF Calls, Types
  <2>3. ASSUME currentRepo # NoRepo, t.op # "close" PROVE currentRepo' # NoRepo
    BY <1>2, <2>3, TaskRuns, SameManager, ManagerAssumed, ManagerAssumption, MP!OnlyCloseForgets
  <2>4. QED BY <2>1, <2>2, <2>3 DEF Opened
<1>3. ASSUME NEW c \in Frontends,
             \/ Frontend(c) \/ FrontendDisappears(c)
             \/ HandleOpen(c) \/ HandleClose(c) \/ HandleReference(c)
      PROVE  UNCHANGED <<managerVars, closedBy>>
    BY <1>3
    DEF Frontend, RequestOpen, OpenReturns, CloseReturns, Upload, FrontendDisappears, NothingToUpload,
        RequestReference, ReferenceReturns, HandleOpen, HandleClose, HandleReference, serviceVars
<1>4. ASSUME NEW h, Finish(h) PROVE UNCHANGED <<managerVars, closedBy>>
    BY <1>4 DEF Finish
<1>5. ASSUME StreamHandler PROVE UNCHANGED <<managerVars, closedBy>>
    BY <1>5 DEF StreamHandler, HandleStream, StreamAnswered
<1>6. CASE Next
    BY <1>1, <1>2, <1>3, <1>4, <1>5, <1>6 DEF Next, RunSomeTask, StateHandler, RefHandler, Frontends
<1>7. CASE UNCHANGED vars
    BY <1>1, <1>7 DEF vars, serviceVars
<1>8. QED BY <1>6, <1>7

\* A reference that is on disk stays there.
LEMMA StaysSafe ==
    ASSUME Calls, SP!Inv, MP!Typed, [Next]_vars, NEW c \in Pushes, Safe(c)
    PROVE  Safe(c)'
<1>1. [MP!Next]_(MP!vars)
    BY ManagerStep
<1>2. undefined => undefined'
    BY <1>1, ManagerAssumed, MP!UndefinedStays
<1>3. MP!NothingLost
    BY <1>1, ManagerAssumed, MP!StepKeepsDisk
<1>4. RefOf[c] \in RefNames /\ c # NoRepo
    BY ManagerAssumption
<1>5. QED BY <1>2, <1>3, <1>4 DEF Safe, MP!NothingLost

\* The frontends' steps: an answer is passed on.
LEMMA FrontendTold ==
    ASSUME Calls, OpenedFirst, Told, NEW c \in Frontends, Frontend(c),
           Opened => Opened', \A d \in Pushes : Safe(d) => Safe(d)'
    PROVE  OpenedFirst' /\ Told'
<1>1. UNCHANGED <<busy, future>> /\ (future["ref"] = "success" => busy["ref"] \in Pushes)
  <2>1. UNCHANGED <<busy, future>>
    BY DEF Frontend, RequestOpen, OpenReturns, CloseReturns, Upload, NothingToUpload,
           RequestReference, ReferenceReturns, serviceVars
  <2>2. future["ref"] = "success" => busy["ref"] # Nobody
    BY ManagerAssumption DEF Calls, Waits, Manager!Answers
  <2>3. QED BY <2>1, <2>2 DEF Calls, Types, Taken, Closing
<1>2. ASSUME UNCHANGED <<front, rpc, report>> PROVE OpenedFirst' /\ Told'
    BY <1>1, <1>2 DEF OpenedFirst, Told, Answered
<1>3. ASSUME NEW f, NEW q, front' = [front EXCEPT ![c] = f], rpc' = [rpc EXCEPT ![c] = q],
             (f # "opening" \/ q \in {"ok", "failed"}) => Opened,
             f = "writing" => q # "ok",
             \A d \in Pushes : report'[d] = "ok" =>
                 report[d] = "ok" \/ (d = c /\ front[c] = "writing" /\ rpc[c] = "ok")
      PROVE  OpenedFirst' /\ Told'
  <2>1. /\ front'[c] = f /\ rpc'[c] = q
        /\ \A d \in Frontends : d # c => front'[d] = front[d] /\ rpc'[d] = rpc[d]
    BY <1>3 DEF Calls, Types
  <2>2. OpenedFirst'
    BY <1>1, <1>3, <2>1 DEF OpenedFirst, Answered
  <2>3. Told'
    BY <1>1, <1>3, <2>1 DEF Told, Frontends
  <2>4. QED BY <2>2, <2>3
<1>4. CASE RequestOpen(c)
    BY <1>3, <1>4 DEF RequestOpen, Call
<1>5. CASE OpenReturns(c)
    BY <1>3, <1>5 DEF OpenReturns, Return, OpenedFirst
<1>6. CASE CloseReturns(c)
    BY <1>3, <1>6 DEF CloseReturns, Return, OpenedFirst
<1>7. CASE c \in Pushes /\ Upload(c)
    BY <1>2, <1>7 DEF Upload, serviceVars
<1>8. CASE c \in Pushes /\ NothingToUpload(c)
  <2>1. rpc' = [rpc EXCEPT ![c] = rpc[c]]
    BY <1>8 DEF NothingToUpload, Calls, Types
  <2>2. QED BY <1>3, <1>8, <2>1 DEF NothingToUpload, OpenedFirst
<1>9. CASE c \in Pushes /\ RequestReference(c)
    BY <1>3, <1>9 DEF RequestReference, Call, OpenedFirst
<1>10. CASE c \in Pushes /\ ReferenceReturns(c)
  <2>1. \A d \in Pushes : report'[d] = "ok" =>
            report[d] = "ok" \/ (d = c /\ front[c] = "writing" /\ rpc[c] = "ok")
    BY <1>10 DEF ReferenceReturns, Calls, Types
  <2>2. QED BY <1>3, <1>10, <2>1 DEF ReferenceReturns, Call, OpenedFirst
<1>11. QED BY <1>4, <1>5, <1>6, <1>7, <1>8, <1>9, <1>10 DEF Frontend

\* The unary handlers' steps: an answer is that of the task.
LEMMA HandlerTold ==
    ASSUME Calls, OpenedFirst, Told, StateHandler \/ RefHandler,
           Opened => Opened', \A d \in Pushes : Safe(d) => Safe(d)'
    PROVE  OpenedFirst' /\ Told'
<1>1. "success" # NoAnswer
    BY ManagerAssumption DEF Manager!Answers
<1>2. future["ref"] = "success" => busy["ref"] \in Pushes
    BY <1>1 DEF Calls, Types, Taken, Waits, Closing
<1>3. ASSUME NEW c \in Frontends, HandleOpen(c) PROVE OpenedFirst' /\ Told'
  <2>1. /\ UNCHANGED <<front, future, report>> /\ front[c] = "opening"
        /\ busy'["ref"] = busy["ref"] /\ rpc'[c] = "taken"
        /\ \A d \in Frontends : d # c => rpc'[d] = rpc[d]
    BY <1>3 DEF HandleOpen, Calls, Types
  <2>2. OpenedFirst'
    BY <2>1 DEF OpenedFirst, Answered
  <2>3. Told'
    BY <1>2, <2>1 DEF Told, Frontends
  <2>4. QED BY <2>2, <2>3
<1>4. ASSUME NEW c \in Frontends, HandleClose(c) PROVE OpenedFirst' /\ Told'
  <2>1. /\ UNCHANGED <<front, future, report, busy>> /\ front[c] = "closing" /\ rpc'[c] = "ok"
        /\ \A d \in Frontends : d # c => rpc'[d] = rpc[d]
    BY <1>4 DEF HandleClose, Calls, Types
  <2>2. OpenedFirst'
    BY <2>1 DEF OpenedFirst, Answered
  <2>3. Told'
    BY <1>2, <2>1 DEF Told, Frontends
  <2>4. QED BY <2>2, <2>3
<1>5. ASSUME NEW c \in Pushes, HandleReference(c) PROVE OpenedFirst' /\ Told'
  <2>1. /\ UNCHANGED <<front, future, report>> /\ front[c] = "writing" /\ rpc'[c] = "taken"
        /\ busy["ref"] = Nobody
        /\ \A d \in Frontends : d # c => rpc'[d] = rpc[d]
    BY <1>5 DEF HandleReference, Calls, Types, Frontends
  <2>2. OpenedFirst'
    BY <2>1 DEF OpenedFirst, Answered
  <2>3. future["ref"] # "success"
    BY <1>1, <2>1 DEF Calls, Waits
  <2>4. Told'
    BY <2>1, <2>3 DEF Told, Frontends
  <2>5. QED BY <2>2, <2>4
<1>6. ASSUME NEW h \in {"state", "ref"}, Finish(h) PROVE OpenedFirst' /\ Told'
  <2> DEFINE c == busy[h]
  <2>1. c \in Frontends /\ future[h] # NoAnswer /\ UNCHANGED <<front, report>>
    BY <1>6 DEF Finish, Calls, Types
  <2>2. /\ rpc'[c] = (IF future[h] = "success" THEN "ok" ELSE "failed")
        /\ \A d \in Frontends : d # c => rpc'[d] = rpc[d]
        /\ future'[h] = NoAnswer
        /\ \A g \in {"state", "ref"} : g # h => future'[g] = future[g] /\ busy'[g] = busy[g]
    BY <1>6, <2>1 DEF Finish, Calls, Types
  <2>3. CASE h = "state"
    <3>1. front[c] = "opening" /\ Opened
      BY <2>1, <2>3, FrontendAssumption DEF Calls, Taken, OpenedFirst
    <3>2. QED BY <1>1, <1>2, <2>1, <2>2, <2>3, <3>1 DEF OpenedFirst, Told, Answered, Frontends
  <2>4. CASE h = "ref"
    <3>1. front[c] = "writing" /\ Opened /\ c \in Pushes
      BY <2>1, <2>4, FrontendAssumption DEF Calls, Taken, Closing, OpenedFirst
    <3>2. OpenedFirst'
      BY <2>1, <2>2, <2>4, <3>1 DEF OpenedFirst, Answered
    <3>3. Told'
      BY <1>1, <2>1, <2>2, <2>4, <3>1 DEF Told, Frontends
    <3>4. QED BY <3>2, <3>3
  <2>5. QED BY <2>3, <2>4
<1>7. QED BY <1>3, <1>4, <1>5, <1>6 DEF StateHandler, RefHandler

\* The tasks: an answered open has opened, an answered reference is on disk.
LEMMA TaskTold ==
    ASSUME Calls, SP!Inv, MP!Typed, OpenedFirst, Told,
           NEW t \in tasks, NEW res \in Manager!Answers, RunTask(t, res),
           Opened => Opened', \A d \in Pushes : Safe(d) => Safe(d)'
    PROVE  OpenedFirst' /\ Told'
<1>1. /\ UNCHANGED <<front, rpc, busy, report>>
      /\ future' = IF t.op = "close" \/ res = "none" THEN future
                   ELSE [future EXCEPT ![HandlerOf(t.op)] = res]
    BY DEF RunTask
<1>2. /\ t.op \in {"open", "close", "append", "commit", "ref"}
      /\ HandlerOf(t.op) \in {"state", "ref", "stream"}
      /\ HandlerOf(t.op) = "state" => t.op \in {"open", "close"}
      /\ HandlerOf(t.op) = "ref" => t.op \in {"ref", "close"}
    BY DEF Calls, Types, HandlerOf
<1>3. future'["state"] # NoAnswer => future["state"] # NoAnswer \/ (t.op = "open" /\ res # "none")
    BY <1>1, <1>2 DEF Calls, Types
<1>4. future'["ref"] = "success" => future["ref"] = "success" \/ (t.op = "ref" /\ res = "success")
    BY <1>1, <1>2 DEF Calls, Types
<1>5. ASSUME t.op = "open", res # "none" PROVE Opened'
    BY <1>5, TaskRuns, SameManager, ManagerAssumed, ManagerAssumption, MP!OpenLeavesARepo DEF Opened
<1>6. OpenedFirst'
    BY <1>1, <1>3, <1>5 DEF OpenedFirst, Answered
<1>7. ASSUME t.op = "ref", res = "success" PROVE Safe(busy["ref"])'
  <2>1. t.by \in Pushes /\ busy["ref"] = t.by /\ MP!NewReference(t.by, "success")
    BY <1>7, TaskRuns
  <2>2. undefined' \/ MP!OnDisk(t.by)'
    BY <2>1, ManagerAssumed, MP!SuccessTells
  <2>3. QED BY <1>1, <2>1, <2>2 DEF Safe, MP!OnDisk
<1>8. future["ref"] = "success" => busy["ref"] \in Pushes
  <2>1. "success" # NoAnswer
    BY ManagerAssumption DEF Manager!Answers
  <2>2. QED BY <2>1 DEF Calls, Types, Taken, Waits, Closing
<1>9. Told'
    BY <1>1, <1>4, <1>7, <1>8 DEF Told, Frontends
<1>10. QED BY <1>6, <1>9

\* Every step keeps what requests have seen and what git clients are told.
LEMMA StepTold ==
    Calls /\ SP!Inv /\ MP!Typed /\ OpenedFirst /\ Told /\ [Next]_vars => OpenedFirst' /\ Told'
<1> SUFFICES ASSUME Calls, SP!Inv, MP!Typed, OpenedFirst, Told, [Next]_vars
             PROVE  OpenedFirst' /\ Told'
    OBVIOUS
<1>1. (Opened => Opened') /\ \A d \in Pushes : Safe(d) => Safe(d)'
    BY StaysOpened, StaysSafe
<1>2. ASSUME UNCHANGED <<front, rpc, busy, report>>,
             future'["state"] = future["state"], future'["ref"] = future["ref"]
      PROVE  OpenedFirst' /\ Told'
  <2>1. future["ref"] = "success" => busy["ref"] \in Pushes
    <3>1. "success" # NoAnswer
      BY ManagerAssumption DEF Manager!Answers
    <3>2. QED BY <3>1 DEF Calls, Types, Taken, Waits, Closing
  <2>2. QED BY <1>1, <1>2, <2>1 DEF OpenedFirst, Told, Answered
<1>3. ASSUME HandleStream \/ \E c \in Pushes : FrontendDisappears(c)
      PROVE  OpenedFirst' /\ Told'
    BY <1>2, <1>3 DEF HandleStream, FrontendDisappears, serviceVars
<1>4. ASSUME StreamAnswered PROVE OpenedFirst' /\ Told'
    BY <1>2, <1>4 DEF StreamAnswered, Calls, Types
<1>5. ASSUME RunSomeTask PROVE OpenedFirst' /\ Told'
    BY <1>1, <1>5, TaskTold DEF RunSomeTask
<1>6. ASSUME NEW c \in Frontends, Frontend(c) PROVE OpenedFirst' /\ Told'
    BY <1>1, <1>6, FrontendTold
<1>7. CASE Next
    BY <1>1, <1>3, <1>4, <1>5, <1>6, <1>7, HandlerTold DEF Next, StreamHandler
<1>8. CASE UNCHANGED vars
    BY <1>2, <1>8 DEF vars, serviceVars
<1>9. QED BY <1>7, <1>8

\* They hold throughout.
THEOREM ToldHolds == Spec => [](OpenedFirst /\ Told)
<1>1. Init => OpenedFirst /\ Told
  <2> SUFFICES ASSUME Init PROVE OpenedFirst /\ Told
    OBVIOUS
  <2>1. "success" # NoAnswer
    BY ManagerAssumption DEF Manager!Answers
  <2>2. QED BY <2>1 DEF Init, OpenedFirst, Told, Frontends
<1>2. QED
    BY <1>1, StepTold, StreamHolds, CallsHold, ManagerHolds, PTL DEF Spec

\* "ok" reaches a git client only when its pack is committed and its reference is on disk,
\* for any number of pushes, whatever they open, commit and close under each other.
THEOREM OkIsDurable == Spec => []OkImpliesDurable
<1>1. Told => OkImpliesDurable
    BY DEF Told, Safe, OkImpliesDurable
<1>2. QED BY <1>1, ToldHolds, PTL

\* An append that would meet the null currentRepo meets a close of another request.
THEOREM OwnCloseIsHarmless == Spec => []OnlyAForeignCloseKills
<1>1. Calls /\ SP!Inv /\ OpenedFirst => OnlyAForeignCloseKills
  <2> SUFFICES ASSUME Calls, SP!Inv, OpenedFirst,
                      NEW t \in tasks, t.op = "append", currentRepo = NoRepo
               PROVE  closedBy \in Frontends \ {t.by}
    BY DEF OnlyAForeignCloseKills
  <2>1. hpc = "append" /\ served = t.by /\ t.by \in Frontends
    BY DEF Calls, Types, Waits
  <2>2. served \in Pushes /\ client[served] \notin {"idle", "unpacked"}
    BY <2>1, StreamAssumed, SP!InvWaits
  <2>3. front[t.by] = "upload"
    BY <2>1, <2>2 DEF Calls, Uploading
  <2>4. closedBy # Nobody
    BY <2>1, <2>3 DEF OpenedFirst, Opened
  <2>5. QED BY <2>3, <2>4 DEF Calls, Types, Closing
<1>2. QED BY <1>1, CallsHold, StreamHolds, ToldHolds, PTL

---------------------------------------------------------------------------
(* A push alone.                                                           *)

\* There is one push at most, and opens find the repository they ask for: a hypothesis on
\* the run of the program, since the buffer of an open's name is dead when it is read.
Alone == (\A c, d \in Pushes : c = d) /\ MP!Reliable

\* With one push no task ends the process: the only close is that push's own, and it comes
\* after its appends, however many fetches open the repository around it.
LEMMA TasksAlone ==
    Alone /\ Calls /\ SP!Inv /\ MP!Typed /\ OpenedFirst /\ MP!Healthy /\ ~repoCrash /\ [Next]_vars
        => MP!Healthy' /\ ~repoCrash'
<1> SUFFICES ASSUME Alone, Calls, SP!Inv, MP!Typed, OpenedFirst, MP!Healthy, ~repoCrash, [Next]_vars
             PROVE  MP!Healthy' /\ ~repoCrash'
    OBVIOUS
<1>1. ASSUME UNCHANGED managerVars PROVE MP!Healthy' /\ ~repoCrash'
    BY <1>1 DEF managerVars, MP!Healthy
<1>2. ASSUME NEW t \in tasks, NEW res \in Manager!Answers, RunTask(t, res)
      PROVE  MP!Healthy' /\ ~repoCrash'
  <2>1. t.op = "append" => currentRepo # NoRepo
    <3>1. t.op = "append" => t.by \in Pushes /\ front[t.by] = "upload" /\ t.by \in Frontends
      BY <1>2, TaskRuns DEF Frontends
    <3>2. closedBy # Nobody => closedBy \in Pushes /\ front[closedBy] # "upload"
      BY DEF Calls, Closing
    <3>3. QED BY <3>1, <3>2 DEF Alone, OpenedFirst, Opened
  <2>2. MP!Reliable /\ RepoName \in Repos /\ res \in MP!Answers
    BY SameManager, ManagerAssumption DEF Alone
  <2>3. MP!Healthy' /\ repoCrash' = repoCrash
    BY <1>2, <2>1, <2>2, TaskRuns, ManagerAssumed, MP!HealthyStays
  <2>4. QED BY <2>3
<1>3. ASSUME NEW c \in Frontends,
             \/ Frontend(c) \/ FrontendDisappears(c)
             \/ HandleOpen(c) \/ HandleClose(c) \/ HandleReference(c)
      PROVE  UNCHANGED managerVars
    BY <1>3
    DEF Frontend, RequestOpen, OpenReturns, CloseReturns, Upload, FrontendDisappears,
        NothingToUpload, RequestReference, ReferenceReturns, HandleOpen, HandleClose, HandleReference
<1>4. ASSUME NEW h, Finish(h) PROVE UNCHANGED managerVars
    BY <1>4 DEF Finish
<1>5. ASSUME StreamHandler PROVE UNCHANGED managerVars
    BY <1>5 DEF StreamHandler, HandleStream, StreamAnswered
<1>6. CASE Next
    BY <1>1, <1>2, <1>3, <1>4, <1>5, <1>6 DEF Next, RunSomeTask, StateHandler, RefHandler, Frontends
<1>7. CASE UNCHANGED vars
    BY <1>1, <1>7 DEF vars
<1>8. QED BY <1>6, <1>7

\* The stream handler dies over the Read of a finished stream, which is the push's own.
LEMMA StreamAlone ==
    ASSUME Alone, SP!Inv, [Next]_vars, streamCrash => \A c \in Pushes : SP!Over(c)
    PROVE  (streamCrash => \A c \in Pushes : SP!Over(c))'
<1>1. CASE streamCrash
  <2>1. UNCHANGED vars
    BY <1>1 DEF Next, Up
  <2>2. QED BY <1>1, <2>1 DEF vars, streamVars, SP!Over
<1>2. CASE ~streamCrash /\ streamCrash'
  <2>1. [SP!Next]_(SP!vars)
    BY StreamStep, SameStream
  <2>2. \E s \in Pushes : SP!Over(s)'
    BY <1>2, <2>1, StreamAssumed, SP!DiesOver
  <2>3. QED BY <2>2 DEF Alone
<1>3. QED BY <1>1, <1>2

\* A push that has the service to itself, apart from fetches, never meets a repository that
\* is closed under it: no order of the tasks ends the process.  The Read that outlives its
\* Request may, but only when every chunk of the push is appended and its stream finished.
THEOREM AloneIsSafe == Alone => (Spec => []NoCrashDuringUpload)
<1> SUFFICES ASSUME Alone PROVE Spec => []NoCrashDuringUpload
    OBVIOUS
<1> DEFINE Late == streamCrash => \A c \in Pushes : SP!Over(c)
<1>1. Init => MP!Healthy /\ ~repoCrash /\ Late
    BY DEF Init, Manager!Init, Stream!Init, MP!Healthy
<1>2. Calls /\ SP!Inv /\ MP!Typed /\ OpenedFirst /\ MP!Healthy /\ ~repoCrash /\ [Next]_vars
          => MP!Healthy' /\ ~repoCrash'
    BY TasksAlone
<1>3. SP!Inv /\ Late /\ [Next]_vars => Late'
    BY StreamAlone
<1>4. ~repoCrash /\ Late => NoCrashDuringUpload
    BY DEF NoCrashDuringUpload, SP!Over
<1>5. QED
    BY <1>1, <1>2, <1>3, <1>4, StreamHolds, CallsHold, ManagerHolds, ToldHolds, PTL DEF Spec

=============================================================================

--------------------------- MODULE RecvPackStream ---------------------------
(***************************************************************************)
(* The ReceivePackStream RPC: the handler thread of the server             *)
(* (RecvPackStream), the completion queue it waits on, and the frontends   *)
(* that upload packs to it in lock step (unbufferedWriteStream).           *)
(*                                                                         *)
(* The tags on the completion queue are bare status values, so the handler *)
(* serves one stream at a time: the Request whose operations are pending   *)
(* is always `req`.  A message is acknowledged when it is read; it is      *)
(* appended to the pack when the acknowledgement has been written and the  *)
(* next read is already under way.                                         *)
(*                                                                         *)
(* AppendReturns and CommitReturns take the answer of the repository as a  *)
(* parameter: alone, this module lets it be anything; PushService connects *)
(* it to the RepositoryManager.                                            *)
(***************************************************************************)
EXTENDS Naturals, Sequences

CONSTANTS Pushes,       \* the uploads, one stream each
          MaxChunks,    \* chunks of pack data in a whole upload
          Mortal,       \* the uploads whose frontend may disappear
          NoPush

ASSUME PushAssumption == NoPush \notin Pushes /\ Mortal \subseteq Pushes

ASSUME ChunkAssumption == MaxChunks \in Nat \ {0}

Tags == {"CONNECT", "READ", "WRITE", "DONE", "FINISH"}

VARIABLES client,       \* where each frontend is in its upload
          sent,         \* chunks each frontend has sent
          wire,         \* each stream's messages on their way to the server
          acks,         \* each stream's responses on their way to the frontend
          accepted,     \* the streams that some Request has been bound to
          served,       \* the stream bound to req, or NoPush while req awaits one
          ops,          \* operations of req whose tag has not come back, by tag
          orphans,      \* streams whose Read is still pending though req is deleted
          hpc,          \* "next", or the future the handler waits for
          msg,          \* req's message buffer
          isRunning, repoOpen,
          attempted,    \* the chunks of each stream posted for appending, in order
          crashed       \* the process is gone

clientVars  == <<client, sent>>
linkVars    == <<wire, acks>>
bindVars    == <<accepted, served, orphans>>
requestVars == <<bindVars, ops, hpc, msg, isRunning, repoOpen>>
vars == <<clientVars, linkVars, requestVars, attempted, crashed>>

Chunk(i) == [data |-> i, done |-> FALSE]
DoneMsg  == [data |-> 0, done |-> TRUE]
EmptyMsg == [data |-> 0, done |-> FALSE]
Messages == {Chunk(i) : i \in 1..MaxChunks} \cup {DoneMsg, EmptyMsg}

NoOps == [t \in Tags |-> 0]
Armed == [NoOps EXCEPT !["CONNECT"] = 1]

\* A Request that does not ask for a call.
NewRequestUnarmed ==
    /\ served' = NoPush
    /\ ops' = NoOps
    /\ msg' = EmptyMsg
    /\ isRunning' = TRUE
    /\ repoOpen' = FALSE

\* A fresh Request: CONNECT is pending, nothing else.
NewRequest ==
    /\ served' = NoPush
    /\ ops' = Armed
    /\ msg' = EmptyMsg
    /\ isRunning' = TRUE
    /\ repoOpen' = FALSE

Init ==
    /\ client = [s \in Pushes |-> "idle"]
    /\ sent = [s \in Pushes |-> 0]
    /\ wire = [s \in Pushes |-> <<>>]
    /\ acks = [s \in Pushes |-> 0]
    /\ accepted = {} /\ served = NoPush /\ ops = Armed /\ orphans = {}
    /\ hpc = "next" /\ msg = EmptyMsg
    /\ isRunning = TRUE /\ repoOpen = FALSE
    /\ attempted = [s \in Pushes |-> <<>>]
    /\ crashed = FALSE

---------------------------------------------------------------------------
(* The frontend: send one message, wait for its response.                  *)

\* The first chunk opens the stream.
StartStream(s) ==
    /\ client[s] = "idle"
    /\ client' = [client EXCEPT ![s] = "send"]
    /\ UNCHANGED <<sent, wire, acks, requestVars, attempted, crashed>>

\* A reader that does not notice the end of the upload.
SendPastTheEnd(s) ==
    /\ client[s] = "send"
    /\ sent' = [sent EXCEPT ![s] = @ + 1]
    /\ wire' = [wire EXCEPT ![s] = Append(@, Chunk(sent[s] + 1))]
    /\ client' = [client EXCEPT ![s] = "recv"]
    /\ UNCHANGED <<acks, requestVars, attempted, crashed>>

SendChunk(s) ==
    /\ client[s] = "send" /\ sent[s] < MaxChunks
    /\ sent' = [sent EXCEPT ![s] = @ + 1]
    /\ wire' = [wire EXCEPT ![s] = Append(@, Chunk(sent[s] + 1))]
    /\ client' = [client EXCEPT ![s] = "recv"]
    /\ UNCHANGED <<acks, requestVars, attempted, crashed>>

\* A frontend that takes the first acknowledgement for the end of the upload.
RecvAckEnds(s) ==
    /\ client[s] = "recv" /\ acks[s] > 0
    /\ acks' = [acks EXCEPT ![s] = @ - 1]
    /\ client' = [client EXCEPT ![s] = "unpacked"]
    /\ UNCHANGED <<sent, wire, requestVars, attempted, crashed>>

RecvAck(s) ==
    /\ client[s] = "recv" /\ acks[s] > 0
    /\ acks' = [acks EXCEPT ![s] = @ - 1]
    /\ client' = [client EXCEPT ![s] = "send"]
    /\ UNCHANGED <<sent, wire, requestVars, attempted, crashed>>

\* The body's reader returned nothing: at its end, or at an error, which is ignored.
SendDone(s) ==
    /\ client[s] = "send" /\ sent[s] > 0
    /\ wire' = [wire EXCEPT ![s] = Append(@, DoneMsg)]
    /\ client' = [client EXCEPT ![s] = "recvDone"]
    /\ UNCHANGED <<sent, acks, requestVars, attempted, crashed>>

\* "unpack ok" goes to the git client, and CloseSend half-closes the stream.
RecvDoneAck(s) ==
    /\ client[s] = "recvDone" /\ acks[s] > 0
    /\ acks' = [acks EXCEPT ![s] = @ - 1]
    /\ client' = [client EXCEPT ![s] = "unpacked"]
    /\ UNCHANGED <<sent, wire, requestVars, attempted, crashed>>

\* The frontend or its connection disappears in the middle of an upload.
Disappear(s) ==
    /\ s \in Mortal /\ client[s] \in {"send", "recv", "recvDone"}
    /\ client' = [client EXCEPT ![s] = "gone"]
    /\ UNCHANGED <<sent, wire, acks, requestVars, attempted, crashed>>

Client(s) == StartStream(s) \/ SendChunk(s) \/ RecvAck(s) \/ SendDone(s) \/ RecvDoneAck(s)

---------------------------------------------------------------------------
(* The handler thread.  Each action is one return of Next and the code it  *)
(* runs, up to the next call of Next or the wait on a future.              *)

\* A handler that does not wait for its futures.
ReturnsAtOnce(tag) == ~crashed /\ ops[tag] > 0

Returns(tag) == hpc = "next" /\ ~crashed /\ ops[tag] > 0

\* A handler that keeps a read in flight while it acknowledges.
OnReadAndReread ==
    /\ Returns("READ") /\ wire[served] # <<>>
    /\ msg' = Head(wire[served])
    /\ wire' = [wire EXCEPT ![served] = Tail(@)]
    /\ ops' = [ops EXCEPT !["WRITE"] = @ + 1]
    /\ acks' = [acks EXCEPT ![served] = @ + 1]
    /\ UNCHANGED <<clientVars, bindVars, hpc, isRunning, repoOpen, attempted, crashed>>

\* A stream is accepted: ReadMessage starts the first read, and finds no message.
OnConnect(s) ==
    /\ Returns("CONNECT") /\ client[s] # "idle" /\ s \notin accepted
    /\ served' = s /\ accepted' = accepted \cup {s}
    /\ ops' = [ops EXCEPT !["CONNECT"] = @ - 1, !["READ"] = @ + 1]
    /\ UNCHANGED <<clientVars, linkVars, orphans, hpc, msg, isRunning, repoOpen, attempted, crashed>>

\* A message has arrived: WriteResponse acknowledges it, before it is used.
OnRead ==
    /\ Returns("READ") /\ wire[served] # <<>>
    /\ msg' = Head(wire[served])
    /\ wire' = [wire EXCEPT ![served] = Tail(@)]
    /\ ops' = [ops EXCEPT !["READ"] = @ - 1, !["WRITE"] = @ + 1]
    /\ acks' = [acks EXCEPT ![served] = @ + 1]
    /\ UNCHANGED <<clientVars, bindVars, hpc, isRunning, repoOpen, attempted, crashed>>

\* The read ends without a message: half-close, or a broken stream.  `if (ok)` drops it.
OnReadFailed ==
    /\ Returns("READ")
    /\ client[served] = "gone" \/ (client[served] = "unpacked" /\ wire[served] = <<>>)
    /\ ops' = [ops EXCEPT !["READ"] = @ - 1]
    /\ UNCHANGED <<clientVars, linkVars, bindVars, hpc, msg, isRunning, repoOpen, attempted, crashed>>

\* An alarm after every message.
RaiseDoneAlways(pending) ==
    /\ ops' = [pending EXCEPT !["DONE"] = @ + 1]
    /\ msg' = [msg EXCEPT !.data = 0]

\* The end of ReadMessage: a done message raises an alarm that is due at once.
RaiseDone(pending) ==
    IF msg.done
      THEN /\ ops' = [pending EXCEPT !["DONE"] = @ + 1]
           /\ msg' = [msg EXCEPT !.data = 0]
      ELSE ops' = pending /\ UNCHANGED msg

\* The response is out: ReadMessage starts the next read, then handles the message
\* that was acknowledged.  With data it posts an append and waits for it.
OnWrite ==
    /\ Returns("WRITE")
    /\ LET written == [ops EXCEPT !["WRITE"] = @ - 1]
           reading == [written EXCEPT !["READ"] = @ + 1]
       IN  IF ~isRunning
             THEN ops' = written /\ UNCHANGED <<msg, hpc, repoOpen, attempted>>
             ELSE IF msg.data # 0
               THEN /\ ops' = reading
                    /\ repoOpen' = TRUE
                    /\ hpc' = "append"
                    /\ attempted' = [attempted EXCEPT ![served] = Append(@, msg.data)]
                    /\ UNCHANGED msg
               ELSE RaiseDone(reading) /\ UNCHANGED <<hpc, repoOpen, attempted>>
    /\ UNCHANGED <<clientVars, linkVars, bindVars, isRunning, crashed>>

\* The response could not be written; the event is dropped.
OnWriteFailed ==
    /\ Returns("WRITE") /\ client[served] = "gone"
    /\ ops' = [ops EXCEPT !["WRITE"] = @ - 1]
    /\ UNCHANGED <<clientVars, linkVars, bindVars, hpc, msg, isRunning, repoOpen, attempted, crashed>>

\* A handler that retries a failed append.
AppendRetries(res) ==
    /\ hpc = "append" /\ ~crashed
    /\ IF res = "success"
         THEN RaiseDone(ops) /\ hpc' = "next" /\ UNCHANGED attempted
         ELSE /\ attempted' = [attempted EXCEPT ![served] = Append(@, msg.data)]
              /\ UNCHANGED <<ops, msg, hpc>>
    /\ UNCHANGED <<clientVars, linkVars, bindVars, isRunning, repoOpen, crashed>>

\* The append's answer.  A failure is logged and the rest of ReadMessage skipped.
AppendReturns(res) ==
    /\ hpc = "append" /\ ~crashed
    /\ IF res = "success" THEN RaiseDone(ops) ELSE UNCHANGED <<ops, msg>>
    /\ hpc' = "next"
    /\ UNCHANGED <<clientVars, linkVars, bindVars, isRunning, repoOpen, attempted, crashed>>

\* The alarm: FinishRequest posts the commit and waits for it.
OnDone ==
    /\ Returns("DONE")
    /\ ops' = [ops EXCEPT !["DONE"] = @ - 1]
    /\ isRunning' = FALSE
    /\ hpc' = IF repoOpen THEN "commit" ELSE "next"
    /\ UNCHANGED <<clientVars, linkVars, bindVars, msg, repoOpen, attempted, crashed>>

\* A handler that returns without a status when the commit failed.
CommitFailsSilently(res) ==
    /\ hpc = "commit" /\ ~crashed
    /\ ops' = IF res = "success" THEN [ops EXCEPT !["FINISH"] = @ + 1] ELSE ops
    /\ repoOpen' = FALSE
    /\ hpc' = "next"
    /\ UNCHANGED <<clientVars, linkVars, bindVars, msg, isRunning, attempted, crashed>>

\* The commit's answer is written with the status, whatever it is.
CommitReturns(res) ==
    /\ hpc = "commit" /\ ~crashed
    /\ ops' = [ops EXCEPT !["FINISH"] = @ + 1]
    /\ repoOpen' = FALSE
    /\ hpc' = "next"
    /\ UNCHANGED <<clientVars, linkVars, bindVars, msg, isRunning, attempted, crashed>>

\* The stream is finished, well or not: delete req, and arm another.
OnFinish ==
    /\ Returns("FINISH")
    /\ orphans' = IF ops["READ"] > 0 THEN orphans \cup {served} ELSE orphans
    /\ NewRequest
    /\ UNCHANGED <<clientVars, linkVars, accepted, hpc, attempted, crashed>>

\* The read of a deleted Request ends without a message.  Its tag is dropped, but the
\* operation it is read from was freed with the Request: that may be survived or not.
OnOrphanRead(s) ==
    /\ hpc = "next" /\ ~crashed /\ s \in orphans
    /\ orphans' = orphans \ {s}
    /\ crashed' \in BOOLEAN
    /\ UNCHANGED <<clientVars, linkVars, accepted, served, ops, hpc, msg, isRunning, repoOpen, attempted>>

Handler ==
    \/ \E s \in Pushes : OnConnect(s)
    \/ OnRead \/ OnReadFailed \/ OnWrite \/ OnWriteFailed \/ OnDone \/ OnFinish
    \/ \E s \in Pushes : OnOrphanRead(s)

Answers == {"success", "error"}

Repository == \E res \in Answers : AppendReturns(res) \/ CommitReturns(res)

Next == (\E s \in Pushes : Client(s) \/ Disappear(s)) \/ Handler \/ Repository

Spec == Init /\ [][Next]_vars

\* The handler takes what the queue has, the repository answers every call, and a
\* frontend that has not disappeared goes on with its upload; an upload ends.
FairSpec ==
    /\ Spec /\ WF_vars(Handler) /\ WF_vars(Repository)
    /\ \A s \in Pushes : WF_vars(Client(s))

---------------------------------------------------------------------------
(* Properties.                                                             *)

\* Every variable keeps its type.
TypeOK ==
    /\ client \in [Pushes -> {"idle", "send", "recv", "recvDone", "unpacked", "gone"}]
    /\ sent \in [Pushes -> 0..MaxChunks]
    /\ acks \in [Pushes -> Nat]
    /\ wire \in [Pushes -> Seq(Messages)]
    /\ served \in Pushes \cup {NoPush} /\ accepted \subseteq Pushes /\ orphans \subseteq Pushes
    /\ ops \in [Tags -> Nat]
    /\ hpc \in {"next", "append", "commit"} /\ msg \in Messages
    /\ isRunning \in BOOLEAN /\ repoOpen \in BOOLEAN /\ crashed \in BOOLEAN
    /\ attempted \in [Pushes -> Seq(1..MaxChunks)]

\* gRPC allows one read and one write in flight per stream: ReadMessage never starts
\* a second Read, and WriteAndFinish never overlaps a Write.
OneOperationAtATime ==
    /\ \A t \in Tags : ops[t] <= 1
    /\ ops["WRITE"] + ops["FINISH"] <= 1
    /\ ops["CONNECT"] = 1 <=> served = NoPush

\* A Request that is deleted with its Read pending has had every message of its
\* stream: no late message can be taken for one of the next stream's.
NoStrayMessage ==
    \A s \in orphans : wire[s] = <<>> /\ client[s] \in {"recvDone", "unpacked", "gone"}

\* Chunks go to the pack once each and in the order they were sent, although each is
\* appended only after it was acknowledged and the next read was started.
AppendedInOrder ==
    \A s \in Pushes :
        /\ Len(attempted[s]) <= sent[s]
        /\ \A i \in 1..Len(attempted[s]) : attempted[s][i] = i

Appended(s) ==
    IF hpc = "append" /\ served = s THEN Len(attempted[s]) - 1 ELSE Len(attempted[s])

\* The acknowledgement runs ahead of the append by one chunk at most: before the
\* frontend may send another chunk, all but the last have been answered by the
\* repository (WriteResponse against ReadMessage's wait).
AckAheadByOne == \A s \in Pushes : client[s] = "send" => sent[s] <= Appended(s) + 1

\* The commit is posted only when every chunk the frontend sent has been posted for
\* appending before it.
CommitCoversAll ==
    hpc = "commit" =>
        /\ client[served] \in {"recvDone", "unpacked", "gone"}
        /\ Len(attempted[served]) = sent[served]

\* "unpack ok" is sent to the git client when the done message is acknowledged: the
\* repository has answered every append by then, though not the commit.
UnpackOkAfterAppends ==
    \A s \in Pushes : client[s] = "unpacked" => Appended(s) = sent[s]

\* The handler is bound to a stream for which no tag will ever come back: it drops
\* failed events, sends no FINISH for them, and so accepts no stream again.
Stuck == served # NoPush /\ hpc = "next" /\ \A t \in Tags : ops[t] = 0

\* Only a frontend that disappears can leave the service stuck.
StuckOnlyByLoss == Stuck => client[served] = "gone"

\* Unless the process died or a frontend disappeared, every upload that starts is
\* answered, and the service is ready for the next one.
EveryUploadIsServed ==
    \A s \in Pushes :
        client[s] = "send" ~>
            \/ crashed
            \/ \E r \in Pushes : client[r] = "gone"
            \/ (client[s] = "unpacked" /\ served # s)
=============================================================================

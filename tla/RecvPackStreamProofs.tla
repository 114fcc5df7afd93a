------------------------ MODULE RecvPackStreamProofs ------------------------
(***************************************************************************)
(* Proofs about the ReceivePackStream handler, for any uploads of any      *)
(* number of chunks.                                                       *)
(*                                                                         *)
(* The inductive invariant has two halves.  LockStep is the frontend's     *)
(* side: a stream never has more than one message or response on its way.  *)
(* Bound is the handler's side: the phases a Request goes through, each    *)
(* with the operations that are pending in it and with how far the appends *)
(* are behind the chunks.  The properties are the shadows of the phases: a *)
(* tag carries no identity, so which message an event stands for can only  *)
(* be told from the phase the handler is in.                               *)
(***************************************************************************)
EXTENDS RecvPackStream, SequenceTheorems, TLAPS

\* A chunk of s is on its way to the server.
Unread(s) == IF wire[s] = <<Chunk(sent[s])>> THEN 1 ELSE 0

\* The chunks of s that some Request has read.
ReadSoFar(s) == sent[s] - Unread(s)

\* At most one message or response is under way, and it is the one the frontend is at.
LockStep(s) ==
    /\ client[s] \in {"idle", "send", "unpacked"} => wire[s] = <<>> /\ acks[s] = 0
    /\ client[s] = "idle" => sent[s] = 0
    /\ client[s] \in {"recv", "recvDone", "unpacked"} => sent[s] > 0
    /\ client[s] = "recv" =>
          \/ wire[s] = <<Chunk(sent[s])>> /\ acks[s] = 0
          \/ wire[s] = <<>> /\ acks[s] = 1
    /\ client[s] = "recvDone" =>
          \/ wire[s] = <<DoneMsg>> /\ acks[s] = 0
          \/ wire[s] = <<>> /\ acks[s] = 1
    /\ client[s] = "gone" =>
          \/ wire[s] = <<>> /\ acks[s] \in 0..1
          \/ wire[s] = <<Chunk(sent[s])>> /\ acks[s] = 0 /\ sent[s] > 0
          \/ wire[s] = <<DoneMsg>> /\ acks[s] = 0 /\ sent[s] > 0

\* The pack of s holds its first n chunks, in order.
Holds(s, n) == Len(attempted[s]) = n /\ \A i \in 1..Len(attempted[s]) : attempted[s][i] = i

\* Nothing of s has been read.
Untouched(s) ==
    /\ client[s] \notin {"recvDone", "unpacked"} /\ acks[s] = 0
    /\ wire[s] # <<DoneMsg>>
    /\ ReadSoFar(s) = 0 /\ Holds(s, 0)

\* The done message of s has been read, and every chunk before it.
AllRead(s) ==
    /\ wire[s] = <<>> /\ client[s] \in {"recvDone", "unpacked", "gone"}
    /\ sent[s] > 0 /\ Holds(s, sent[s])

\* The done message of s has not been read.
MoreToCome(s) ==
    /\ client[s] # "unpacked"
    /\ client[s] = "recvDone" => wire[s] = <<DoneMsg>>

Pending(connect, read, write, done, finish) ==
    /\ ops["CONNECT"] = connect /\ ops["READ"] = read /\ ops["WRITE"] = write
    /\ ops["DONE"] = done /\ ops["FINISH"] = finish

\* The phases of the Request.
Waiting ==
    /\ served = NoPush /\ Pending(1, 0, 0, 0, 0)
    /\ hpc = "next" /\ msg = EmptyMsg /\ isRunning /\ ~repoOpen

Reading(s) ==
    /\ Pending(0, ops["READ"], 0, 0, 0)
    /\ ops["READ"] = 1 \/ (ops["READ"] = 0 /\ client[s] = "gone")
    /\ hpc \in {"next", "append"} /\ isRunning /\ ~msg.done
    /\ hpc = "append" => ops["READ"] = 1 /\ Len(attempted[s]) > 0 /\ msg.data = Len(attempted[s])
    /\ MoreToCome(s) /\ Holds(s, ReadSoFar(s))
    /\ repoOpen <=> Len(attempted[s]) > 0

Acknowledging(s) ==
    /\ Pending(0, 0, 1, 0, 0) /\ hpc = "next" /\ isRunning
    /\ ReadSoFar(s) > 0 /\ msg = Chunk(ReadSoFar(s))
    /\ MoreToCome(s) /\ Holds(s, ReadSoFar(s) - 1)
    /\ repoOpen <=> Len(attempted[s]) > 0

AcknowledgingDone(s) ==
    /\ Pending(0, 0, 1, 0, 0) /\ hpc = "next" /\ isRunning /\ msg = DoneMsg
    /\ AllRead(s) /\ repoOpen

Ending(s) ==
    /\ Pending(0, ops["READ"], 0, 1, 0) /\ ops["READ"] \in 0..1
    /\ hpc = "next" /\ isRunning /\ AllRead(s) /\ repoOpen

Committing(s) ==
    /\ Pending(0, ops["READ"], 0, 0, 0) /\ ops["READ"] \in 0..1
    /\ hpc = "commit" /\ ~isRunning /\ AllRead(s)

Finishing(s) ==
    /\ Pending(0, ops["READ"], 0, 0, 1) /\ ops["READ"] \in 0..1
    /\ hpc = "next" /\ ~isRunning /\ AllRead(s)

\* The frontend of s has gone, and the handler has dropped the event that said so.
Lost(s) ==
    /\ Pending(0, 0, 0, 0, 0) /\ hpc = "next" /\ client[s] = "gone"
    /\ Holds(s, Len(attempted[s])) /\ Len(attempted[s]) <= sent[s]

Bound(s) ==
    \/ Reading(s) \/ Acknowledging(s) \/ AcknowledgingDone(s)
    \/ Ending(s) \/ Committing(s) \/ Finishing(s) \/ Lost(s)

\* Where every stream is.
Streams ==
    \A s \in Pushes :
        /\ LockStep(s)
        /\ s \notin accepted => Untouched(s)
        /\ s \in accepted /\ s # served => AllRead(s)

Served ==
    /\ Waiting \/ (served \in accepted /\ Bound(served))
    /\ orphans \subseteq accepted \ {served}

Inv == TypeOK /\ Streams /\ Served

---------------------------------------------------------------------------
\* The messages are told apart by their fields.
LEMMA MessageFields ==
    /\ \A i \in Nat : Chunk(i).data = i /\ ~Chunk(i).done /\ Chunk(i) # DoneMsg
    /\ DoneMsg.data = 0 /\ DoneMsg.done
    /\ EmptyMsg.data = 0 /\ ~EmptyMsg.done
    /\ DoneMsg \in Messages /\ EmptyMsg \in Messages
    /\ \A i \in 1..MaxChunks : Chunk(i) \in Messages
<1>1. \A i \in Nat : Chunk(i).data = i /\ ~Chunk(i).done
    BY DEF Chunk
<1>2. DoneMsg.data = 0 /\ DoneMsg.done
    BY DEF DoneMsg
<1>3. EmptyMsg.data = 0 /\ ~EmptyMsg.done
    BY DEF EmptyMsg
<1>4. \A i \in Nat : Chunk(i) # DoneMsg
    BY <1>1, <1>2
<1>5. QED BY <1>1, <1>2, <1>3, <1>4 DEF Messages

\* A link that carries one message.
LEMMA OneMessage ==
    ASSUME NEW m \in Messages
    PROVE  /\ <<m>> \in Seq(Messages) /\ <<m>> # <<>>
           /\ Append(<<>>, m) = <<m>> /\ Head(<<m>>) = m /\ Tail(<<m>>) = <<>>
           /\ \A n \in Messages : <<m>> = <<n>> => m = n
OBVIOUS

\* Clearing the data of a done message leaves a done message.
LEMMA ClearedDone ==
    ASSUME NEW m \in Messages, m.done
    PROVE  [m EXCEPT !.data = 0] = DoneMsg /\ m = DoneMsg
<1>1. m = DoneMsg
    BY MessageFields DEF Messages
<1>2. QED BY <1>1 DEF DoneMsg

\* At the start every stream is untouched and the Request is armed.
LEMMA InitInv == Init => Inv
<1> SUFFICES ASSUME Init PROVE Inv
    OBVIOUS
<1>1. /\ Armed \in [Tags -> Nat] /\ Armed["CONNECT"] = 1
      /\ \A t \in Tags : t # "CONNECT" => Armed[t] = 0
    BY DEF Armed, NoOps, Tags
<1>2. 0 \in 0..MaxChunks /\ <<>> \in Seq(Messages) /\ <<>> \in Seq(1..MaxChunks)
    BY ChunkAssumption
<1>3. TypeOK
    BY <1>1, <1>2, MessageFields DEF Init, TypeOK
<1>5. ASSUME NEW s \in Pushes
      PROVE  LockStep(s) /\ Untouched(s) /\ s \notin accepted
  <2>1. /\ client[s] = "idle" /\ sent[s] = 0 /\ acks[s] = 0
        /\ wire[s] = <<>> /\ attempted[s] = <<>> /\ accepted = {}
    BY DEF Init
  <2>2. Unread(s) = 0 /\ wire[s] # <<DoneMsg>>
    BY <2>1 DEF Unread
  <2>3. LockStep(s)
    BY <2>1 DEF LockStep
  <2>4. Untouched(s)
    BY <2>1, <2>2 DEF Untouched, Holds, ReadSoFar
  <2>5. QED BY <2>1, <2>3, <2>4
<1>6. Served
    BY <1>1 DEF Init, Served, Waiting, Pending, Tags
<1>7. QED BY <1>3, <1>5, <1>6 DEF Inv, Streams

---------------------------------------------------------------------------
\* A frontend's step keeps its own link in lock step, and takes nothing back: what has
\* been read stays read.
LEMMA FrontendMoves ==
    ASSUME Inv, NEW s \in Pushes, Client(s) \/ Disappear(s)
    PROVE  /\ LockStep(s)'
           /\ ReadSoFar(s)' = ReadSoFar(s) /\ sent[s] <= sent'[s]
           /\ client[s] = "gone" => client'[s] = "gone"
           /\ Untouched(s) => Untouched(s)'
           /\ AllRead(s) => AllRead(s)'
           /\ MoreToCome(s) => MoreToCome(s)'
           /\ sent' \in [Pushes -> 0..MaxChunks]
           /\ wire' \in [Pushes -> Seq(Messages)]
           /\ acks' \in [Pushes -> Nat]
<1>1. /\ LockStep(s) /\ sent[s] \in 0..MaxChunks /\ acks[s] \in Nat
      /\ client \in [Pushes -> {"idle", "send", "recv", "recvDone", "unpacked", "gone"}]
      /\ sent \in [Pushes -> 0..MaxChunks]
      /\ acks \in [Pushes -> Nat]
      /\ wire \in [Pushes -> Seq(Messages)]
    BY DEF Inv, Streams, TypeOK
<1>2. UNCHANGED attempted
    BY DEF Client, StartStream, SendChunk, RecvAck, SendDone, RecvDoneAck, Disappear
<1>4. ASSUME UNCHANGED <<sent, wire>>
      PROVE  ReadSoFar(s)' = ReadSoFar(s)
    BY <1>4 DEF ReadSoFar, Unread
<1>5. CASE StartStream(s)
  <2>1. client[s] = "idle" /\ client'[s] = "send" /\ UNCHANGED <<sent, wire, acks>>
    BY <1>1, <1>5 DEF StartStream
  <2>2. QED
    BY <1>1, <1>2, <1>4, <2>1 DEF LockStep, Untouched, AllRead, MoreToCome, Holds
<1>6. CASE SendChunk(s)
  <2> DEFINE m == Chunk(sent[s] + 1)
  <2>1. /\ client[s] = "send" /\ client'[s] = "recv" /\ UNCHANGED acks
        /\ sent'[s] = sent[s] + 1 /\ sent[s] + 1 \in 1..MaxChunks
        /\ sent' \in [Pushes -> 0..MaxChunks]
    BY <1>1, <1>6, ChunkAssumption DEF SendChunk
  <2>2. wire[s] = <<>> /\ acks[s] = 0
    BY <1>1, <2>1 DEF LockStep
  <2>3. m \in Messages /\ m # DoneMsg
    BY <2>1, MessageFields
  <2>4. wire'[s] = <<m>> /\ wire' \in [Pushes -> Seq(Messages)]
    BY <1>1, <1>6, <2>2, <2>3, OneMessage DEF SendChunk
  <2>5. wire'[s] # <<DoneMsg>>
    BY <2>3, <2>4, MessageFields, OneMessage
  <2>6. Unread(s) = 0 /\ Unread(s)' = 1
    BY <2>1, <2>2, <2>4 DEF Unread
  <2>7. ReadSoFar(s)' = ReadSoFar(s)
    BY <1>1, <2>1, <2>6 DEF ReadSoFar
  <2>8. LockStep(s)'
    BY <1>1, <2>1, <2>2, <2>4 DEF LockStep
  <2>9. QED
    BY <1>1, <1>2, <2>1, <2>2, <2>4, <2>5, <2>7, <2>8 DEF Untouched, AllRead, MoreToCome, Holds
<1>7. CASE RecvAck(s)
  <2>1. /\ client[s] = "recv" /\ client'[s] = "send" /\ UNCHANGED <<sent, wire>>
        /\ acks[s] > 0 /\ acks'[s] = acks[s] - 1 /\ acks' \in [Pushes -> Nat]
    BY <1>1, <1>7 DEF RecvAck
  <2>2. wire[s] = <<>> /\ acks[s] = 1
    BY <1>1, <2>1 DEF LockStep
  <2>3. QED
    BY <1>1, <1>2, <1>4, <2>1, <2>2 DEF LockStep, Untouched, AllRead, MoreToCome, Holds
<1>8. CASE SendDone(s)
  <2>1. /\ client[s] = "send" /\ client'[s] = "recvDone" /\ UNCHANGED <<sent, acks>>
        /\ sent[s] > 0
    BY <1>1, <1>8 DEF SendDone
  <2>2. wire[s] = <<>> /\ acks[s] = 0
    BY <1>1, <2>1 DEF LockStep
  <2>3. wire'[s] = <<DoneMsg>> /\ wire' \in [Pushes -> Seq(Messages)]
    BY <1>1, <1>8, <2>2, OneMessage, MessageFields DEF SendDone
  <2>4. <<DoneMsg>> # <<Chunk(sent[s])>>
    BY <1>1, MessageFields
  <2>5. Unread(s) = 0 /\ Unread(s)' = 0
    BY <2>1, <2>2, <2>3, <2>4 DEF Unread
  <2>6. ReadSoFar(s)' = ReadSoFar(s) /\ ReadSoFar(s) = sent[s]
    BY <1>1, <2>1, <2>5 DEF ReadSoFar
  <2>7. LockStep(s)'
    BY <1>1, <2>1, <2>2, <2>3 DEF LockStep
  <2>8. QED
    BY <1>1, <1>2, <2>1, <2>2, <2>3, <2>6, <2>7 DEF Untouched, AllRead, MoreToCome, Holds
<1>9. CASE RecvDoneAck(s)
  <2>1. /\ client[s] = "recvDone" /\ client'[s] = "unpacked" /\ UNCHANGED <<sent, wire>>
        /\ acks[s] > 0 /\ acks'[s] = acks[s] - 1 /\ acks' \in [Pushes -> Nat]
    BY <1>1, <1>9 DEF RecvDoneAck
  <2>2. wire[s] = <<>> /\ acks[s] = 1
    BY <1>1, <2>1 DEF LockStep
  <2>3. wire[s] # <<DoneMsg>>
    BY <2>2
  <2>4. QED
    BY <1>1, <1>2, <1>4, <2>1, <2>2, <2>3 DEF LockStep, Untouched, AllRead, MoreToCome, Holds
<1>10. CASE Disappear(s)
  <2>1. /\ client[s] \in {"send", "recv", "recvDone"} /\ client'[s] = "gone"
        /\ UNCHANGED <<sent, wire, acks>>
    BY <1>1, <1>10 DEF Disappear
  <2>2. QED
    BY <1>1, <1>2, <1>4, <2>1 DEF LockStep, Untouched, AllRead, MoreToCome, Holds
<1>11. QED BY <1>5, <1>6, <1>7, <1>8, <1>9, <1>10 DEF Client

\* The other streams do not notice.
LEMMA FrontendInv ==
    ASSUME Inv, NEW s \in Pushes, Client(s) \/ Disappear(s)
    PROVE  Inv'
<1>1. /\ UNCHANGED <<requestVars, attempted, crashed>>
      /\ client' \in [Pushes -> {"idle", "send", "recv", "recvDone", "unpacked", "gone"}]
      /\ \A r \in Pushes : r # s =>
            /\ client'[r] = client[r] /\ sent'[r] = sent[r]
            /\ wire'[r] = wire[r] /\ acks'[r] = acks[r]
    BY DEF Inv, TypeOK, Client, StartStream, SendChunk, RecvAck, SendDone, RecvDoneAck, Disappear
<1>2. TypeOK'
    BY <1>1, FrontendMoves DEF Inv, TypeOK, requestVars, bindVars
<1>3. Streams'
  <2> SUFFICES ASSUME NEW r \in Pushes
               PROVE  /\ LockStep(r)'
                      /\ r \notin accepted => Untouched(r)'
                      /\ r \in accepted /\ r # served => AllRead(r)'
    BY <1>1 DEF Streams, requestVars, bindVars
  <2>1. /\ LockStep(r)
        /\ r \notin accepted => Untouched(r)
        /\ r \in accepted /\ r # served => AllRead(r)
    BY DEF Inv, Streams
  <2>2. CASE r = s
    BY <2>1, <2>2, FrontendMoves
  <2>3. CASE r # s
    BY <1>1, <2>1, <2>3 DEF LockStep, Untouched, AllRead, Holds, ReadSoFar, Unread
  <2>4. QED BY <2>2, <2>3
<1>4. ASSUME Waiting PROVE Served'
    BY <1>1, <1>4 DEF Inv, Served, Waiting, Pending, requestVars, bindVars
<1>5. ASSUME served \in accepted, Bound(served) PROVE Served'
  <2>1. served \in Pushes
    BY <1>5 DEF Inv, TypeOK
  <2>2. /\ ReadSoFar(served)' = ReadSoFar(served) /\ sent[served] <= sent'[served]
        /\ sent[served] \in Nat /\ sent'[served] \in Nat
        /\ client[served] = "gone" => client'[served] = "gone"
        /\ AllRead(served) => AllRead(served)'
        /\ MoreToCome(served) => MoreToCome(served)'
    <3>1. CASE served = s
        BY <2>1, <3>1, <1>1, FrontendMoves DEF Inv, TypeOK, requestVars, bindVars
    <3>2. CASE served # s
        BY <1>1, <2>1, <3>2 DEF AllRead, MoreToCome, Holds, ReadSoFar, Unread, Inv, TypeOK, requestVars, bindVars
    <3>3. QED BY <3>1, <3>2
  <2>3. Bound(served)'
    <3>1. CASE Reading(served)
        BY <1>1, <2>2, <3>1 DEF Reading, Bound, Pending, Holds, requestVars, bindVars
    <3>2. CASE Acknowledging(served)
        BY <1>1, <2>2, <3>2 DEF Acknowledging, Bound, Pending, Holds, requestVars, bindVars
    <3>3. CASE AcknowledgingDone(served)
        BY <1>1, <2>2, <3>3 DEF AcknowledgingDone, Bound, Pending, requestVars, bindVars
    <3>4. CASE Ending(served)
        BY <1>1, <2>2, <3>4 DEF Ending, Bound, Pending, requestVars, bindVars
    <3>5. CASE Committing(served)
        BY <1>1, <2>2, <3>5 DEF Committing, Bound, Pending, requestVars, bindVars
    <3>6. CASE Finishing(served)
        BY <1>1, <2>2, <3>6 DEF Finishing, Bound, Pending, requestVars, bindVars
    <3>7. CASE Lost(served)
      <4>1. Len(attempted[served]) \in Nat
        BY <2>1 DEF Inv, TypeOK
      <4>2. QED
        BY <1>1, <2>2, <3>7, <4>1 DEF Lost, Bound, Pending, Holds, requestVars, bindVars
    <3>8. QED BY <1>5, <3>1, <3>2, <3>3, <3>4, <3>5, <3>6, <3>7 DEF Bound
  <2>4. QED BY <1>1, <1>5, <2>3 DEF Inv, Served, requestVars, bindVars
<1>6. QED BY <1>2, <1>3, <1>4, <1>5 DEF Inv, Served

---------------------------------------------------------------------------
\* A stream that a step leaves alone stays as it was.
LEMMA LeftAlone ==
    ASSUME NEW r \in Pushes,
           client'[r] = client[r], sent'[r] = sent[r], wire'[r] = wire[r],
           acks'[r] = acks[r], attempted'[r] = attempted[r]
    PROVE  /\ LockStep(r) => LockStep(r)'
           /\ Untouched(r) => Untouched(r)'
           /\ AllRead(r) => AllRead(r)'
BY DEF LockStep, Untouched, AllRead, Holds, ReadSoFar, Unread

\* A step of the handler for the stream it serves changes that stream alone.
LEMMA ServedStep ==
    ASSUME Inv, TypeOK', served \in accepted,
           UNCHANGED <<clientVars, bindVars>>,
           \A r \in Pushes : r # served =>
               wire'[r] = wire[r] /\ acks'[r] = acks[r] /\ attempted'[r] = attempted[r],
           LockStep(served)', Bound(served)'
    PROVE  Inv'
<1>1. UNCHANGED <<client, sent, accepted, served, orphans>> /\ served \in Pushes
    BY DEF clientVars, bindVars, Inv, TypeOK
<1>2. ASSUME NEW r \in Pushes
      PROVE  /\ LockStep(r)'
             /\ r \notin accepted => Untouched(r)'
             /\ r \in accepted /\ r # served => AllRead(r)'
  <2>1. /\ LockStep(r)
        /\ r \notin accepted => Untouched(r)
        /\ r \in accepted /\ r # served => AllRead(r)
    BY DEF Inv, Streams
  <2>2. CASE r = served
    BY <1>1, <2>2
  <2>3. CASE r # served
    BY <1>1, <2>1, <2>3, LeftAlone
  <2>4. QED BY <2>2, <2>3
<1>3. Streams'
    BY <1>1, <1>2 DEF Streams
<1>4. Served'
    BY <1>1 DEF Inv, Served
<1>5. QED BY <1>3, <1>4 DEF Inv

\* While a tag other than CONNECT is pending, or a future is waited for, a stream is served.
LEMMA Serving ==
    ASSUME Inv, hpc # "next" \/ \E t \in Tags : t # "CONNECT" /\ ops[t] > 0
    PROVE  served \in accepted /\ served \in Pushes /\ Bound(served)
BY DEF Inv, Served, Waiting, Pending, Tags, TypeOK

\* A stream is bound to the Request that waited for one.
LEMMA ConnectInv ==
    ASSUME Inv, NEW s \in Pushes, OnConnect(s)
    PROVE  Inv'
<1>1. /\ s \notin accepted /\ served' = s /\ accepted' = accepted \cup {s}
      /\ UNCHANGED <<client, sent, wire, acks, orphans, hpc, msg, isRunning, repoOpen,
                     attempted, crashed>>
      /\ ops["CONNECT"] > 0 /\ client[s] # "idle"
      /\ ops' = [ops EXCEPT !["CONNECT"] = @ - 1, !["READ"] = @ + 1]
    BY DEF OnConnect, Returns, clientVars, linkVars
<1>2. Waiting /\ ops \in [Tags -> Nat]
    BY <1>1
    DEF Inv, TypeOK, Served, Bound, Reading, Acknowledging, AcknowledgingDone, Ending,
        Committing, Finishing, Lost, Pending
<1>3. ops' \in [Tags -> Nat] /\ Pending(0, 1, 0, 0, 0)'
    BY <1>1, <1>2 DEF Waiting, Pending, Tags
<1>4. TypeOK'
    BY <1>1, <1>3 DEF Inv, TypeOK
<1>5. ASSUME NEW r \in Pushes
      PROVE  /\ LockStep(r)'
             /\ r \notin accepted' => Untouched(r)'
             /\ r \in accepted' /\ r # served' => AllRead(r)'
  <2>1. /\ LockStep(r)
        /\ r \notin accepted => Untouched(r)
        /\ r \in accepted /\ r # served => AllRead(r)
    BY DEF Inv, Streams
  <2>2. served \notin Pushes
    BY <1>2, PushAssumption DEF Waiting
  <2>3. QED BY <1>1, <2>1, <2>2, LeftAlone
<1>6. Reading(s)'
  <2>1. Untouched(s)
    BY <1>1 DEF Inv, Streams
  <2>2. Holds(s, ReadSoFar(s))' /\ ReadSoFar(s)' = 0
    BY <1>1, <2>1 DEF Untouched, Holds, ReadSoFar, Unread
  <2>3. MoreToCome(s)'
    BY <1>1, <2>1 DEF Untouched, MoreToCome
  <2>4. Len(attempted'[s]) = 0 /\ ~msg'.done
    BY <1>1, <1>2, <2>1, MessageFields DEF Untouched, Holds, Waiting
  <2>5. QED
    BY <1>1, <1>2, <1>3, <2>2, <2>3, <2>4 DEF Reading, Waiting, Pending
<1>7. Served'
    BY <1>1, <1>6 DEF Inv, Served, Bound
<1>8. QED BY <1>4, <1>5, <1>7 DEF Inv, Streams

\* A message is read: it is the next chunk, or the done message after the last one.
LEMMA ReadInv ==
    ASSUME Inv, OnRead
    PROVE  Inv'
<1>1. /\ hpc = "next" /\ ops["READ"] > 0 /\ wire[served] # <<>>
      /\ msg' = Head(wire[served])
      /\ wire' = [wire EXCEPT ![served] = Tail(@)]
      /\ ops' = [ops EXCEPT !["READ"] = @ - 1, !["WRITE"] = @ + 1]
      /\ acks' = [acks EXCEPT ![served] = @ + 1]
      /\ UNCHANGED <<client, sent, accepted, served, orphans, hpc, isRunning, repoOpen,
                     attempted, crashed>>
    BY DEF OnRead, Returns, clientVars, bindVars
<1>2. served \in accepted /\ served \in Pushes /\ Bound(served)
    BY <1>1, Serving DEF Tags
<1>3. Reading(served)
    BY <1>1, <1>2
    DEF Bound, Acknowledging, AcknowledgingDone, Ending, Committing, Finishing, Lost, Pending,
        AllRead
<1>4. /\ ops \in [Tags -> Nat] /\ sent[served] \in 0..MaxChunks
      /\ wire \in [Pushes -> Seq(Messages)] /\ acks \in [Pushes -> Nat]
      /\ LockStep(served)
    BY <1>2 DEF Inv, TypeOK, Streams
<1>5. ops' \in [Tags -> Nat] /\ Pending(0, 0, 1, 0, 0)'
  <2>1. Pending(0, 1, 0, 0, 0)
    BY <1>1, <1>3 DEF Reading, Pending
  <2>2. QED BY <1>1, <1>4, <2>1 DEF Pending, Tags
<1>6. PICK m \in Messages :
          /\ wire[served] = <<m>> /\ acks[served] = 0 /\ sent[served] > 0
          /\ \/ m = Chunk(sent[served]) /\ client[served] \in {"recv", "gone"}
             \/ m = DoneMsg /\ client[served] \in {"recvDone", "gone"}
  <2>1. client[served] \in {"recv", "recvDone", "gone"}
    BY <1>1, <1>2, <1>4 DEF LockStep, Inv, TypeOK
  <2>2. sent[served] > 0 => Chunk(sent[served]) \in Messages
    BY <1>4, MessageFields, ChunkAssumption
  <2>3. DoneMsg \in Messages
    BY MessageFields
  <2>4. QED BY <1>1, <1>4, <2>1, <2>2, <2>3 DEF LockStep
<1>7. /\ msg' = m /\ wire'[served] = <<>> /\ acks'[served] = 1
      /\ wire' \in [Pushes -> Seq(Messages)] /\ acks' \in [Pushes -> Nat]
      /\ \A r \in Pushes : r # served => wire'[r] = wire[r] /\ acks'[r] = acks[r]
    BY <1>1, <1>2, <1>4, <1>6, OneMessage
<1>8. TypeOK'
    BY <1>1, <1>5, <1>6, <1>7 DEF Inv, TypeOK
<1>9. LockStep(served)'
    BY <1>1, <1>4, <1>6, <1>7 DEF LockStep
<1>10. Unread(served)' = 0 /\ ReadSoFar(served)' = sent[served]
    BY <1>1, <1>4, <1>7 DEF ReadSoFar, Unread
<1>11. CASE m = Chunk(sent[served]) /\ client[served] \in {"recv", "gone"}
  <2>1. ReadSoFar(served) = sent[served] - 1
    BY <1>4, <1>6, <1>11 DEF ReadSoFar, Unread
  <2>2. Holds(served, ReadSoFar(served) - 1)'
    BY <1>1, <1>3, <1>10, <2>1 DEF Reading, Holds
  <2>3. MoreToCome(served)'
    BY <1>1, <1>11 DEF MoreToCome
  <2>4. Acknowledging(served)'
    BY <1>1, <1>3, <1>5, <1>6, <1>7, <1>10, <1>11, <2>2, <2>3 DEF Acknowledging, Reading
  <2>5. QED
    BY <1>1, <1>2, <1>7, <1>8, <1>9, <2>4, ServedStep DEF Bound, clientVars, bindVars
<1>12. CASE m = DoneMsg /\ client[served] \in {"recvDone", "gone"}
  <2>1. wire[served] # <<Chunk(sent[served])>>
    BY <1>4, <1>6, <1>12, MessageFields
  <2>2. ReadSoFar(served) = sent[served]
    BY <1>4, <2>1 DEF ReadSoFar, Unread
  <2>3. AllRead(served)' /\ repoOpen'
    BY <1>1, <1>3, <1>4, <1>6, <1>7, <1>12, <2>2 DEF Reading, Holds, AllRead
  <2>4. AcknowledgingDone(served)'
    BY <1>1, <1>3, <1>5, <1>7, <1>12, <2>3 DEF AcknowledgingDone, Reading
  <2>5. QED
    BY <1>1, <1>2, <1>7, <1>8, <1>9, <2>4, ServedStep DEF Bound, clientVars, bindVars
<1>13. QED BY <1>6, <1>11, <1>12

\* A read that fails in the middle of an upload leaves the Request with nothing pending;
\* after the done message it changes nothing that is still to happen.
LEMMA ReadFailedInv ==
    ASSUME Inv, OnReadFailed
    PROVE  Inv'
<1>1. /\ hpc = "next" /\ ops["READ"] > 0
      /\ client[served] = "gone" \/ client[served] = "unpacked"
      /\ ops' = [ops EXCEPT !["READ"] = @ - 1]
      /\ UNCHANGED <<client, sent, wire, acks, accepted, served, orphans, hpc, msg, isRunning,
                     repoOpen, attempted, crashed>>
    BY DEF OnReadFailed, Returns, clientVars, linkVars, bindVars
<1>2. served \in accepted /\ served \in Pushes /\ Bound(served)
    BY <1>1, Serving DEF Tags
<1>3. ops \in [Tags -> Nat] /\ LockStep(served)
    BY <1>2 DEF Inv, TypeOK, Streams
<1>4. /\ ops' \in [Tags -> Nat] /\ ops'["READ"] = ops["READ"] - 1
      /\ \A t \in Tags : t # "READ" => ops'[t] = ops[t]
    BY <1>1, <1>3 DEF Tags
<1>5. TypeOK' /\ LockStep(served)'
    BY <1>1, <1>3, <1>4 DEF Inv, TypeOK, LockStep
<1>6. Bound(served)'
  <2>1. CASE Reading(served)
    <3>1. ops'["READ"] = 0 /\ client[served] = "gone"
      BY <1>1, <1>4, <2>1 DEF Reading, MoreToCome
    <3>2. Holds(served, ReadSoFar(served))' /\ MoreToCome(served)'
      BY <1>1, <2>1 DEF Reading, Holds, ReadSoFar, Unread, MoreToCome
    <3>3. QED
      BY <1>1, <1>4, <2>1, <3>1, <3>2 DEF Bound, Reading, Pending, Tags
  <2>2. CASE Ending(served)
    BY <1>1, <1>4, <2>2 DEF Bound, Ending, AllRead, Holds, Pending, Tags
  <2>3. CASE Finishing(served)
    BY <1>1, <1>4, <2>3 DEF Bound, Finishing, AllRead, Holds, Pending, Tags
  <2>4. QED
    BY <1>1, <1>2, <2>1, <2>2, <2>3
    DEF Bound, Acknowledging, AcknowledgingDone, Committing, Lost, Pending
<1>7. QED BY <1>1, <1>2, <1>5, <1>6, ServedStep DEF clientVars, bindVars

\* A response that cannot be written leaves the Request with nothing pending.
LEMMA WriteFailedInv ==
    ASSUME Inv, OnWriteFailed
    PROVE  Inv'
<1>1. /\ hpc = "next" /\ ops["WRITE"] > 0 /\ client[served] = "gone"
      /\ ops' = [ops EXCEPT !["WRITE"] = @ - 1]
      /\ UNCHANGED <<client, sent, wire, acks, accepted, served, orphans, hpc, msg, isRunning,
                     repoOpen, attempted, crashed>>
    BY DEF OnWriteFailed, Returns, clientVars, linkVars, bindVars
<1>2. served \in accepted /\ served \in Pushes /\ Bound(served)
    BY <1>1, Serving DEF Tags
<1>3. ops \in [Tags -> Nat] /\ LockStep(served) /\ sent[served] \in Nat
    BY <1>2 DEF Inv, TypeOK, Streams
<1>4. /\ ops' \in [Tags -> Nat] /\ ops'["WRITE"] = ops["WRITE"] - 1
      /\ \A t \in Tags : t # "WRITE" => ops'[t] = ops[t]
    BY <1>1, <1>3 DEF Tags
<1>5. TypeOK' /\ LockStep(served)'
    BY <1>1, <1>3, <1>4 DEF Inv, TypeOK, LockStep
<1>6. Acknowledging(served) \/ AcknowledgingDone(served)
    BY <1>1, <1>2 DEF Bound, Reading, Ending, Committing, Finishing, Lost, Pending
<1>7. Pending(0, 0, 0, 0, 0)'
    BY <1>4, <1>6 DEF Acknowledging, AcknowledgingDone, Pending, Tags
<1>8. Holds(served, Len(attempted[served])) /\ Len(attempted[served]) <= sent[served]
    BY <1>3, <1>6
    DEF Acknowledging, AcknowledgingDone, AllRead, Holds, ReadSoFar, Unread
<1>9. Lost(served)'
    BY <1>1, <1>7, <1>8 DEF Lost, Holds
<1>10. QED BY <1>1, <1>2, <1>5, <1>9, ServedStep DEF Bound, clientVars, bindVars

\* The message that was acknowledged is posted for appending, or ends the upload.
LEMMA WriteInv ==
    ASSUME Inv, OnWrite
    PROVE  Inv'
<1> DEFINE written == [ops EXCEPT !["WRITE"] = @ - 1]
           reading == [written EXCEPT !["READ"] = @ + 1]
<1>1. /\ hpc = "next" /\ ops["WRITE"] > 0
      /\ UNCHANGED <<client, sent, wire, acks, accepted, served, orphans, isRunning, crashed>>
    BY DEF OnWrite, Returns, clientVars, linkVars, bindVars
<1>2. served \in accepted /\ served \in Pushes /\ Bound(served)
    BY <1>1, Serving DEF Tags
<1>3. /\ ops \in [Tags -> Nat] /\ LockStep(served) /\ sent[served] \in 0..MaxChunks
      /\ attempted \in [Pushes -> Seq(1..MaxChunks)]
    BY <1>2 DEF Inv, TypeOK, Streams
<1>4. Acknowledging(served) \/ AcknowledgingDone(served)
    BY <1>1, <1>2 DEF Bound, Reading, Ending, Committing, Finishing, Lost, Pending
<1>5. isRunning /\ Pending(0, 0, 1, 0, 0)
    BY <1>4 DEF Acknowledging, AcknowledgingDone
<1>6. /\ reading \in [Tags -> Nat] /\ reading["READ"] = 1
      /\ \A t \in Tags : t # "READ" => reading[t] = 0
    BY <1>3, <1>5 DEF Pending, Tags
<1>7. LockStep(served)'
    BY <1>1, <1>3 DEF LockStep
<1>8. CASE Acknowledging(served)
  <2> DEFINE n == ReadSoFar(served)
  <2>1. /\ n \in 1..MaxChunks /\ msg = Chunk(n) /\ msg.data = n /\ ~msg.done
        /\ Holds(served, n - 1) /\ MoreToCome(served)
    BY <1>3, <1>8, MessageFields, ChunkAssumption DEF Acknowledging, ReadSoFar, Unread
  <2>2. /\ ops' = reading /\ repoOpen' = TRUE /\ hpc' = "append" /\ UNCHANGED msg
        /\ attempted' = [attempted EXCEPT ![served] = Append(@, n)]
    BY <1>5, <2>1 DEF OnWrite
  <2>3. ReadSoFar(served)' = n
    BY <1>1 DEF ReadSoFar, Unread
  <2> HIDE DEF n, reading
  <2>4. attempted[served] \in Seq(1..MaxChunks)
    BY <1>2, <1>3
  <2>5. /\ attempted' \in [Pushes -> Seq(1..MaxChunks)]
        /\ attempted'[served] = Append(attempted[served], n)
        /\ \A r \in Pushes : r # served => attempted'[r] = attempted[r]
    BY <1>2, <1>3, <2>1, <2>2, <2>4
  <2>6. /\ Len(attempted'[served]) = n
        /\ \A i \in 1..n : attempted'[served][i] = i
    BY <2>1, <2>4, <2>5, AppendProperties DEF Holds
  <2>7. TypeOK'
    BY <1>1, <1>6, <2>2, <2>5 DEF Inv, TypeOK
  <2>8. Holds(served, ReadSoFar(served))' /\ MoreToCome(served)'
    BY <1>1, <2>1, <2>3, <2>6 DEF Holds, MoreToCome
  <2>9. Pending(0, 1, 0, 0, 0)'
    BY <1>6, <2>2 DEF Pending, Tags
  <2>10. Reading(served)'
    BY <1>1, <1>5, <2>1, <2>2, <2>6, <2>8, <2>9 DEF Reading, Pending
  <2>11. QED
    BY <1>1, <1>2, <1>7, <2>5, <2>7, <2>10, ServedStep DEF Bound, clientVars, bindVars
<1>9. CASE AcknowledgingDone(served)
  <2>1. msg = DoneMsg /\ msg.data = 0 /\ msg.done /\ msg \in Messages
    BY <1>9, MessageFields DEF AcknowledgingDone
  <2>2. RaiseDone(reading) /\ UNCHANGED <<hpc, repoOpen, attempted>>
    BY <1>5, <2>1 DEF OnWrite
  <2>3. ops' = [reading EXCEPT !["DONE"] = @ + 1] /\ msg' = DoneMsg
    BY <2>1, <2>2, ClearedDone DEF RaiseDone
  <2> HIDE DEF reading
  <2>4. ops' \in [Tags -> Nat] /\ Pending(0, 1, 0, 1, 0)'
    BY <1>6, <2>3 DEF Pending, Tags
  <2>5. TypeOK'
    BY <1>1, <2>1, <2>2, <2>3, <2>4 DEF Inv, TypeOK
  <2>6. AllRead(served)'
    BY <1>1, <1>9, <2>2 DEF AcknowledgingDone, AllRead, Holds
  <2>7. Ending(served)'
    BY <1>1, <1>9, <2>2, <2>4, <2>6 DEF AcknowledgingDone, Ending, Pending
  <2>8. QED
    BY <1>1, <1>2, <1>7, <2>2, <2>5, <2>7, ServedStep DEF Bound, clientVars, bindVars
<1>10. QED BY <1>4, <1>8, <1>9

\* Whatever the repository answers, the next read is already under way.
LEMMA AppendInv ==
    ASSUME Inv, NEW res, AppendReturns(res)
    PROVE  Inv'
<1>1. /\ hpc = "append" /\ hpc' = "next"
      /\ UNCHANGED <<client, sent, wire, acks, accepted, served, orphans, isRunning, repoOpen,
                     attempted, crashed>>
    BY DEF AppendReturns, clientVars, linkVars, bindVars
<1>2. served \in accepted /\ served \in Pushes /\ Bound(served)
    BY <1>1, Serving
<1>3. Reading(served) /\ LockStep(served)
    BY <1>1, <1>2
    DEF Bound, Acknowledging, AcknowledgingDone, Ending, Committing, Finishing, Lost, Inv, Streams
<1>4. UNCHANGED <<ops, msg>>
    BY <1>3 DEF AppendReturns, RaiseDone, Reading
<1>5. TypeOK' /\ LockStep(served)'
    BY <1>1, <1>3, <1>4 DEF Inv, TypeOK, LockStep
<1>6. Holds(served, ReadSoFar(served))' /\ MoreToCome(served)'
    BY <1>1, <1>3 DEF Reading, Holds, ReadSoFar, Unread, MoreToCome
<1>7. Reading(served)'
    BY <1>1, <1>3, <1>4, <1>6 DEF Reading, Pending
<1>8. QED BY <1>1, <1>2, <1>5, <1>7, ServedStep DEF Bound, clientVars, bindVars

\* The alarm posts the commit, for every chunk has been posted before it.
LEMMA DoneInv ==
    ASSUME Inv, OnDone
    PROVE  Inv'
<1>1. /\ hpc = "next" /\ ops["DONE"] > 0 /\ isRunning' = FALSE
      /\ ops' = [ops EXCEPT !["DONE"] = @ - 1]
      /\ hpc' = IF repoOpen THEN "commit" ELSE "next"
      /\ UNCHANGED <<client, sent, wire, acks, accepted, served, orphans, msg, repoOpen,
                     attempted, crashed>>
    BY DEF OnDone, Returns, clientVars, linkVars, bindVars
<1>2. served \in accepted /\ served \in Pushes /\ Bound(served)
    BY <1>1, Serving DEF Tags
<1>3. Ending(served) /\ ops \in [Tags -> Nat] /\ LockStep(served)
    BY <1>1, <1>2
    DEF Bound, Reading, Acknowledging, AcknowledgingDone, Committing, Finishing, Lost, Pending,
        Inv, TypeOK, Streams
<1>4. /\ ops' \in [Tags -> Nat] /\ ops'["DONE"] = ops["DONE"] - 1
      /\ \A t \in Tags : t # "DONE" => ops'[t] = ops[t]
    BY <1>1, <1>3 DEF Tags
<1>5. TypeOK' /\ LockStep(served)'
    BY <1>1, <1>3, <1>4 DEF Inv, TypeOK, LockStep
<1>6. Committing(served)'
    BY <1>1, <1>3, <1>4 DEF Ending, Committing, AllRead, Holds, Pending, Tags
<1>7. QED BY <1>1, <1>2, <1>5, <1>6, ServedStep DEF Bound, clientVars, bindVars

\* Whatever the commit's answer, the status is sent.
LEMMA CommitInv ==
    ASSUME Inv, NEW res, CommitReturns(res)
    PROVE  Inv'
<1>1. /\ hpc = "commit" /\ hpc' = "next" /\ repoOpen' = FALSE
      /\ ops' = [ops EXCEPT !["FINISH"] = @ + 1]
      /\ UNCHANGED <<client, sent, wire, acks, accepted, served, orphans, msg, isRunning,
                     attempted, crashed>>
    BY DEF CommitReturns, clientVars, linkVars, bindVars
<1>2. served \in accepted /\ served \in Pushes /\ Bound(served)
    BY <1>1, Serving
<1>3. Committing(served) /\ ops \in [Tags -> Nat] /\ LockStep(served)
    BY <1>1, <1>2
    DEF Bound, Reading, Acknowledging, AcknowledgingDone, Ending, Finishing, Lost,
        Inv, TypeOK, Streams
<1>4. /\ ops' \in [Tags -> Nat] /\ ops'["FINISH"] = ops["FINISH"] + 1
      /\ \A t \in Tags : t # "FINISH" => ops'[t] = ops[t]
    BY <1>1, <1>3 DEF Tags
<1>5. TypeOK' /\ LockStep(served)'
    BY <1>1, <1>3, <1>4 DEF Inv, TypeOK, LockStep
<1>6. Finishing(served)'
    BY <1>1, <1>3, <1>4 DEF Finishing, Committing, AllRead, Holds, Pending, Tags
<1>7. QED BY <1>1, <1>2, <1>5, <1>6, ServedStep DEF Bound, clientVars, bindVars

\* A finished stream has been read to its end, and the next Request is armed.
LEMMA FinishInv ==
    ASSUME Inv, OnFinish
    PROVE  Inv'
<1>1. /\ hpc = "next" /\ ops["FINISH"] > 0 /\ NewRequest
      /\ orphans' \subseteq orphans \cup {served}
      /\ UNCHANGED <<client, sent, wire, acks, accepted, hpc, attempted, crashed>>
    BY DEF OnFinish, Returns, clientVars, linkVars
<1>2. served \in accepted /\ served \in Pushes /\ Bound(served)
    BY <1>1, Serving DEF Tags
<1>3. AllRead(served)
    BY <1>1, <1>2
    DEF Bound, Reading, Acknowledging, AcknowledgingDone, Ending, Committing, Finishing, Lost,
        Pending
<1>4. ops' \in [Tags -> Nat] /\ Pending(1, 0, 0, 0, 0)'
    BY <1>1 DEF NewRequest, Armed, NoOps, Tags, Pending
<1>5. TypeOK'
    BY <1>1, <1>2, <1>4, MessageFields DEF Inv, TypeOK, NewRequest
<1>6. ASSUME NEW r \in Pushes
      PROVE  /\ LockStep(r)'
             /\ r \notin accepted => Untouched(r)'
             /\ r \in accepted => AllRead(r)'
  <2>1. /\ LockStep(r)
        /\ r \notin accepted => Untouched(r)
        /\ r \in accepted => AllRead(r)
    BY <1>3 DEF Inv, Streams
  <2>2. QED BY <1>1, <2>1, LeftAlone
<1>7. Streams'
    BY <1>1, <1>6 DEF Streams
<1>8. Served'
  <2>1. Waiting'
    BY <1>1, <1>4 DEF Waiting, NewRequest
  <2>2. NoPush \notin accepted
    BY PushAssumption DEF Inv, TypeOK
  <2>3. QED BY <1>1, <1>2, <2>1, <2>2 DEF Served, Inv, NewRequest
<1>9. QED BY <1>5, <1>7, <1>8 DEF Inv

\* Steps that leave the streams and the Request alone.
LEMMA ElsewhereInv ==
    ASSUME Inv,
           UNCHANGED <<client, sent, wire, acks, accepted, served, ops, hpc, msg, isRunning,
                       repoOpen, attempted>>,
           orphans' \subseteq orphans, crashed' \in BOOLEAN
    PROVE  Inv'
<1>1. TypeOK'
    BY DEF Inv, TypeOK
<1>2. Streams'
    BY LeftAlone DEF Inv, Streams
<1>3. Waiting => Waiting'
    BY DEF Waiting, Pending
<1>4. Bound(served) => Bound(served)'
    BY DEF Bound, Reading, Acknowledging, AcknowledgingDone, Ending, Committing, Finishing, Lost,
           Pending, AllRead, Holds, MoreToCome, ReadSoFar, Unread
<1>5. Served'
    BY <1>3, <1>4 DEF Inv, Served
<1>6. QED BY <1>1, <1>2, <1>5 DEF Inv

\* Every step keeps the invariant.
LEMMA StepInv == Inv /\ [Next]_vars => Inv'
<1> SUFFICES ASSUME Inv, [Next]_vars PROVE Inv'
    OBVIOUS
<1>1. ASSUME NEW s \in Pushes, OnOrphanRead(s) PROVE Inv'
    BY <1>1, ElsewhereInv DEF OnOrphanRead, clientVars, linkVars
<1>2. CASE UNCHANGED vars
  <2>1. crashed' \in BOOLEAN
    BY <1>2 DEF Inv, TypeOK, vars
  <2>2. QED
    BY <1>2, <2>1, ElsewhereInv DEF vars, clientVars, linkVars, requestVars, bindVars
<1>3. CASE Handler
    BY <1>1, <1>3, ConnectInv, ReadInv, ReadFailedInv, WriteInv, WriteFailedInv, DoneInv, FinishInv
    DEF Handler
<1>4. CASE Repository
    BY <1>4, AppendInv, CommitInv DEF Repository
<1>5. QED BY <1>2, <1>3, <1>4, FrontendInv DEF Next

\* The invariant holds throughout.
THEOREM Invariant == Spec => []Inv
BY InitInv, StepInv, PTL DEF Spec

---------------------------------------------------------------------------
\* Where the appends of a stream stand in every state of the invariant.
LEMMA Progress ==
    ASSUME Inv, NEW s \in Pushes
    PROVE  /\ Holds(s, Len(attempted[s])) /\ Len(attempted[s]) \in 0..sent[s]
           /\ client[s] = "send" => sent[s] <= Len(attempted[s]) + 1
           /\ client[s] = "send" /\ hpc = "append" /\ served = s => sent[s] = Len(attempted[s])
           /\ client[s] = "unpacked" => AllRead(s)
<1>1. /\ LockStep(s) /\ sent[s] \in 0..MaxChunks /\ Len(attempted[s]) \in Nat
      /\ s \notin accepted => Untouched(s)
      /\ s \in accepted /\ s # served => AllRead(s)
    BY DEF Inv, Streams, TypeOK
<1>2. Unread(s) \in 0..1 /\ (client[s] = "send" => Unread(s) = 0)
  <2>1. client[s] = "send" => wire[s] = <<>>
    BY <1>1 DEF LockStep
  <2>2. Unread(s) \in 0..1
    BY DEF Unread
  <2>3. <<Chunk(sent[s])>> # <<>>
    OBVIOUS
  <2>4. wire[s] = <<>> => Unread(s) = 0
    BY <2>3 DEF Unread
  <2>5. QED BY <2>1, <2>2, <2>4
<1>3. CASE s \notin accepted
  <2>1. hpc = "append" => served # s
    BY <1>3, Serving
  <2>2. QED
    BY <1>1, <1>2, <1>3, <2>1 DEF Untouched, Holds, ReadSoFar
<1>4. CASE s \in accepted /\ s # served
    BY <1>1, <1>4 DEF AllRead, Holds
<1>5. CASE s \in accepted /\ s = served
  <2>1. Bound(s)
    BY <1>5, PushAssumption DEF Inv, Served, Waiting
  <2>2. CASE Reading(s)
    BY <1>1, <1>2, <2>2 DEF Reading, MoreToCome, Holds, ReadSoFar
  <2>3. CASE Acknowledging(s)
    BY <1>1, <1>2, <2>3 DEF Acknowledging, MoreToCome, Holds, ReadSoFar
  <2>4. CASE AllRead(s)
    BY <1>1, <2>4 DEF AllRead, Holds
  <2>5. CASE Lost(s)
    BY <1>1, <2>5 DEF Lost, Holds
  <2>6. QED
    BY <2>1, <2>2, <2>3, <2>4, <2>5 DEF Bound, AcknowledgingDone, Ending, Committing, Finishing
<1>6. QED BY <1>3, <1>4, <1>5

\* What the phases say about the operations of the Request.
LEMMA InvOperations == Inv => OneOperationAtATime /\ StuckOnlyByLoss
<1> SUFFICES ASSUME Inv PROVE OneOperationAtATime /\ StuckOnlyByLoss
    OBVIOUS
<1>1. CASE Waiting
    BY <1>1 DEF Waiting, Pending, OneOperationAtATime, StuckOnlyByLoss, Stuck, Tags
<1>2. CASE served \in accepted /\ Bound(served)
  <2>1. served # NoPush
    BY <1>2, PushAssumption DEF Inv, TypeOK
  <2>2. CASE Reading(served)
    BY <2>1, <2>2 DEF Reading, Pending, OneOperationAtATime, StuckOnlyByLoss, Stuck, Tags
  <2>3. CASE Acknowledging(served) \/ AcknowledgingDone(served)
    BY <2>1, <2>3
    DEF Acknowledging, AcknowledgingDone, Pending, OneOperationAtATime, StuckOnlyByLoss, Stuck, Tags
  <2>4. CASE Ending(served) \/ Committing(served) \/ Finishing(served)
    BY <2>1, <2>4
    DEF Ending, Committing, Finishing, Pending, OneOperationAtATime, StuckOnlyByLoss, Stuck, Tags
  <2>5. CASE Lost(served)
    BY <2>1, <2>5 DEF Lost, Pending, OneOperationAtATime, StuckOnlyByLoss, Stuck, Tags
  <2>6. QED BY <1>2, <2>2, <2>3, <2>4, <2>5 DEF Bound
<1>3. QED BY <1>1, <1>2 DEF Inv, Served

\* What the phases say about the chunks.
LEMMA InvChunks ==
    Inv => AppendedInOrder /\ AckAheadByOne /\ UnpackOkAfterAppends
<1> SUFFICES ASSUME Inv, NEW s \in Pushes
             PROVE  /\ Len(attempted[s]) <= sent[s]
                    /\ \A i \in 1..Len(attempted[s]) : attempted[s][i] = i
                    /\ client[s] = "send" => sent[s] <= Appended(s) + 1
                    /\ client[s] = "unpacked" => Appended(s) = sent[s]
    BY DEF AppendedInOrder, AckAheadByOne, UnpackOkAfterAppends
<1>1. sent[s] \in Nat /\ Len(attempted[s]) \in Nat
    BY DEF Inv, TypeOK
<1>2. client[s] = "send" => sent[s] <= Appended(s) + 1
    BY <1>1, Progress DEF Appended
<1>3. ASSUME client[s] = "unpacked" PROVE Appended(s) = sent[s]
  <2>1. Len(attempted[s]) = sent[s]
    BY <1>3, Progress DEF AllRead, Holds
  <2>2. ~(hpc = "append" /\ served = s)
    <3>1. hpc = "append" /\ served = s => Reading(s)
      BY Serving
      DEF Bound, Acknowledging, AcknowledgingDone, Ending, Committing, Finishing, Lost
    <3>2. QED BY <1>3, <3>1 DEF Reading, MoreToCome
  <2>3. QED BY <2>1, <2>2 DEF Appended
<1>4. QED BY <1>1, <1>2, <1>3, Progress DEF Holds

\* What the phases say about the end of a stream.
LEMMA InvEnd == Inv => NoStrayMessage /\ CommitCoversAll
<1> SUFFICES ASSUME Inv PROVE NoStrayMessage /\ CommitCoversAll
    OBVIOUS
<1>1. NoStrayMessage
    BY DEF Inv, Served, Streams, TypeOK, AllRead, NoStrayMessage
<1>2. CommitCoversAll
  <2>1. hpc = "commit" => Committing(served)
    BY Serving
    DEF Bound, Reading, Acknowledging, AcknowledgingDone, Ending, Finishing, Lost
  <2>2. QED BY <2>1 DEF Committing, AllRead, Holds, CommitCoversAll
<1>3. QED BY <1>1, <1>2

\* What the handler waits for: an append of a chunk that some frontend in the middle of its
\* upload has sent, or a commit of an accepted stream.
LEMMA InvWaits ==
    Inv =>
        /\ hpc = "append" =>
              served \in Pushes /\ msg.data \in 1..MaxChunks /\ client[served] \notin {"idle", "unpacked"}
        /\ hpc = "commit" => served \in Pushes
<1> SUFFICES ASSUME Inv, hpc = "append" \/ hpc = "commit"
             PROVE  /\ served \in Pushes
                    /\ hpc = "append" =>
                          msg.data \in 1..MaxChunks /\ client[served] \notin {"idle", "unpacked"}
    OBVIOUS
<1>1. served \in Pushes /\ Bound(served)
    BY Serving
<1>2. ASSUME hpc = "append"
      PROVE  msg.data \in 1..MaxChunks /\ client[served] \notin {"idle", "unpacked"}
  <2>1. Reading(served)
    BY <1>1, <1>2
    DEF Bound, Acknowledging, AcknowledgingDone, Ending, Committing, Finishing, Lost
  <2>2. /\ Len(attempted[served]) \in 0..sent[served] /\ sent[served] \in 0..MaxChunks
        /\ LockStep(served)
    BY <1>1, Progress DEF Inv, TypeOK, Streams
  <2>3. msg.data \in 1..sent[served] /\ client[served] # "unpacked"
    BY <1>2, <2>1, <2>2 DEF Reading, MoreToCome
  <2>4. QED
    BY <2>2, <2>3, ChunkAssumption DEF LockStep
<1>3. QED BY <1>1, <1>2

\* What the handler posts: an append or a commit, for the stream it serves.
LEMMA HandlerPosts ==
    Inv /\ Handler =>
        /\ hpc = "next" /\ hpc' \in {"next", "append", "commit"}
        /\ hpc' # "next" => served \in Pushes /\ served' = served
<1> SUFFICES ASSUME Inv, Handler
             PROVE  /\ hpc = "next" /\ hpc' \in {"next", "append", "commit"}
                    /\ hpc' # "next" => served \in Pushes /\ served' = served
    OBVIOUS
<1>1. CASE OnWrite
  <2>1. hpc = "next" /\ ops["WRITE"] > 0 /\ served' = served
    BY <1>1 DEF OnWrite, Returns, bindVars
  <2>2. hpc' \in {hpc, "append"}
    BY <1>1 DEF OnWrite
  <2>3. QED BY <2>1, <2>2, Serving DEF Tags
<1>2. CASE OnDone
  <2>1. /\ hpc = "next" /\ ops["DONE"] > 0 /\ served' = served
        /\ hpc' \in {"next", "commit"}
    BY <1>2 DEF OnDone, Returns, bindVars
  <2>2. QED BY <2>1, Serving DEF Tags
<1>3. CASE OnRead \/ OnReadFailed \/ OnWriteFailed \/ OnFinish
    BY <1>3 DEF OnRead, OnReadFailed, OnWriteFailed, OnFinish, Returns
<1>4. CASE \E s \in Pushes : OnConnect(s) \/ OnOrphanRead(s)
    BY <1>4 DEF OnConnect, OnOrphanRead, Returns
<1>5. QED BY <1>1, <1>2, <1>3, <1>4 DEF Handler

\* Every chunk of s has been appended, and its Request is gone.
Over(s) == s \in accepted /\ served # s /\ Len(attempted[s]) = sent[s]

\* Only the Read of a deleted Request ends the process, and its stream is over.
LEMMA DiesOver ==
    ASSUME Inv, [Next]_vars, ~crashed, crashed'
    PROVE  \E s \in Pushes : Over(s)'
<1>1. CASE UNCHANGED vars
    BY <1>1 DEF vars
<1>2. ASSUME NEW s \in Pushes, Client(s) \/ Disappear(s) PROVE FALSE
    BY <1>2 DEF Client, StartStream, SendChunk, RecvAck, SendDone, RecvDoneAck, Disappear
<1>3. CASE Repository
    BY <1>3 DEF Repository, AppendReturns, CommitReturns
<1>4. CASE OnRead \/ OnReadFailed \/ OnWrite \/ OnWriteFailed \/ OnDone \/ OnFinish
    BY <1>4 DEF OnRead, OnReadFailed, OnWrite, OnWriteFailed, OnDone, OnFinish
<1>5. ASSUME NEW s \in Pushes, OnConnect(s) PROVE FALSE
    BY <1>5 DEF OnConnect
<1>6. ASSUME NEW s \in Pushes, OnOrphanRead(s) PROVE Over(s)'
  <2>1. s \in accepted /\ s # served
    BY <1>6 DEF OnOrphanRead, Inv, Served
  <2>2. Len(attempted[s]) = sent[s]
    BY <2>1 DEF Inv, Streams, AllRead, Holds
  <2>3. UNCHANGED <<accepted, served, attempted, sent>>
    BY <1>6 DEF OnOrphanRead, clientVars
  <2>4. QED BY <2>1, <2>2, <2>3 DEF Over
<1>7. QED BY <1>1, <1>2, <1>3, <1>4, <1>5, <1>6 DEF Next, Handler

---------------------------------------------------------------------------
\* Every variable of the handler, the frontends and their links keeps its type.
THEOREM TypeCorrect == Spec => []TypeOK
<1>1. Inv => TypeOK
    BY DEF Inv
<1>2. QED BY <1>1, Invariant, PTL

\* The handler never starts a Read while one is pending, nor a Write or WriteAndFinish
\* while the other is: ReadMessage, WriteResponse and FinishRequest keep gRPC's contract.
THEOREM OperationsDoNotOverlap == Spec => []OneOperationAtATime
BY InvOperations, Invariant, PTL

\* A Request deleted with its Read pending has had every message of its stream.
THEOREM OrphansGetNoMessage == Spec => []NoStrayMessage
BY InvEnd, Invariant, PTL

\* ReadMessage posts each chunk for appending once, and in the order it was sent.
THEOREM ChunksInOrder == Spec => []AppendedInOrder
BY InvChunks, Invariant, PTL

\* WriteResponse's acknowledgement is never more than one chunk ahead of the answered appends.
THEOREM AckRunsAheadByOne == Spec => []AckAheadByOne
BY InvChunks, Invariant, PTL

\* FinishRequest posts the commit after every chunk the frontend sent.
THEOREM CommitIsComplete == Spec => []CommitCoversAll
BY InvEnd, Invariant, PTL

\* The frontend says "unpack ok" after every append has been answered.
THEOREM UnpackOkIsLate == Spec => []UnpackOkAfterAppends
BY InvChunks, Invariant, PTL

\* The handler is left without a pending tag only by a frontend that disappears.
THEOREM OnlyLossBlocks == Spec => []StuckOnlyByLoss
BY InvOperations, Invariant, PTL

=============================================================================

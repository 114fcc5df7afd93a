---------------------------- MODULE UnaryRequest ----------------------------
(***************************************************************************)
(* The life of the Request objects of a unary handler: RepoStateChange and *)
(* WriteReference have the same code but for the call they serve.          *)
(*                                                                         *)
(* The tag of an operation on the completion queue is the Request itself,  *)
(* which remembers in `status` what to do when its tag comes back: READ, a *)
(* call has arrived; FINISH, its answer is out and the Request deletes     *)
(* itself.  The constructor asks for a call (CONNECT) at once, and every   *)
(* call that arrives makes the next Request before it is handled.          *)
(*                                                                         *)
(* PushService has these handlers with a call in two steps, taken and      *)
(* answered, one call at a time; this module has what lies underneath.     *)
(* The server is never shut down, so a Request that asks for a call never  *)
(* gets a failed event.                                                    *)
(***************************************************************************)
EXTENDS Naturals, Sequences

CONSTANTS Calls,        \* the calls frontends make
          Awaited,      \* those whose task is waited for: opens and references
          Mortal,       \* those whose frontend may disappear
          NoCall

ASSUME CallAssumption == NoCall \notin Calls /\ Awaited \subseteq Calls /\ Mortal \subseteq Calls

VARIABLES sent,         \* the calls made
          gone,         \* the calls whose frontend has disappeared
          requests,     \* the Request objects, in the order of their construction
          pending,      \* operations whose tag has not come back: [req, op]
          waiting,      \* the Request whose task the handler waits for, or 0
          answers       \* how often each call was finished

callVars == <<sent, gone>>
vars == <<callVars, requests, pending, waiting, answers>>

NewRequest == [status |-> "READ", call |-> NoCall, alive |-> TRUE]

Taken == {requests[i].call : i \in 1..Len(requests)} \ {NoCall}

Init ==
    /\ sent = {} /\ gone = {}
    /\ requests = <<NewRequest>>
    /\ pending = {[req |-> 1, op |-> "call"]}
    /\ waiting = 0
    /\ answers = [c \in Calls |-> 0]

---------------------------------------------------------------------------
(* The frontends.                                                          *)

Send(c) ==
    /\ c \notin sent
    /\ sent' = sent \cup {c}
    /\ UNCHANGED <<gone, requests, pending, waiting, answers>>

Disappear(c) ==
    /\ c \in (sent \cap Mortal) \ gone
    /\ gone' = gone \cup {c}
    /\ UNCHANGED <<sent, requests, pending, waiting, answers>>

---------------------------------------------------------------------------
(* The handler thread.                                                     *)

\* A Request that is gone as soon as its answer is on its way.
WriteAndDelete(i, reqs, ops) ==
    /\ answers' = [answers EXCEPT ![reqs[i].call] = @ + 1]
    /\ requests' = [reqs EXCEPT ![i].status = "FINISH", ![i].alive = FALSE]
    /\ pending' = ops \cup {[req |-> i, op |-> "finish"]}

\* A Request that does not remember that it has been answered.
WriteOnly(i, reqs, ops) ==
    /\ answers' = [answers EXCEPT ![reqs[i].call] = @ + 1]
    /\ requests' = reqs
    /\ pending' = ops \cup {[req |-> i, op |-> "finish"]}

\* Write finishes the call, well or with an error, and ProcessRequest notes it.
Write(i, reqs, ops) ==
    /\ answers' = [answers EXCEPT ![reqs[i].call] = @ + 1]
    /\ requests' = [reqs EXCEPT ![i].status = "FINISH"]
    /\ pending' = ops \cup {[req |-> i, op |-> "finish"]}

\* A handler that serves the call without asking for the next.
ReadUnarmed(i, reqs, ops) ==
    IF reqs[i].call \in Awaited
      THEN waiting' = i /\ requests' = reqs /\ pending' = ops /\ UNCHANGED answers
      ELSE Write(i, reqs, ops) /\ UNCHANGED waiting

\* The READ branch: arm the next Request, then post the task.  An open or a reference
\* is waited for; a close is answered at once.
Read(i, reqs, ops) ==
    LET more  == Append(reqs, NewRequest)
        armed == ops \cup {[req |-> Len(more), op |-> "call"]}
    IN  IF reqs[i].call \in Awaited
          THEN waiting' = i /\ requests' = more /\ pending' = armed /\ UNCHANGED answers
          ELSE Write(i, more, armed) /\ UNCHANGED waiting

\* ProcessRequest: the status says what the event means.
ProcessRequest(i, reqs, ops) ==
    IF reqs[i].status = "READ"
      THEN Read(i, reqs, ops)
      ELSE /\ requests' = [reqs EXCEPT ![i].alive = FALSE]
           /\ pending' = ops
           /\ UNCHANGED <<waiting, answers>>

\* Next returns the tag of a Request that asked for a call.
OnCall(i, c) ==
    LET asked == [req |-> i, op |-> "call"]
    IN  /\ waiting = 0 /\ asked \in pending /\ c \in sent \ Taken
        /\ ProcessRequest(i, [requests EXCEPT ![i].call = c], pending \ {asked})
        /\ UNCHANGED callVars

\* The task's future is ready.
FutureReady ==
    /\ waiting # 0
    /\ Write(waiting, requests, pending)
    /\ waiting' = 0
    /\ UNCHANGED callVars

\* A handler that drops events however they ended.
OnFinishDropped(i) ==
    LET finished == [req |-> i, op |-> "finish"]
    IN  /\ waiting = 0 /\ finished \in pending
        /\ pending' = pending \ {finished}
        /\ UNCHANGED <<callVars, requests, waiting, answers>>

\* An answer is out.
OnFinish(i) ==
    LET finished == [req |-> i, op |-> "finish"]
    IN  /\ waiting = 0 /\ finished \in pending
        /\ ProcessRequest(i, requests, pending \ {finished})
        /\ UNCHANGED callVars

\* An answer could not be sent: `if (ok)` drops the event, and the Request stays.
OnFinishFailed(i) ==
    LET finished == [req |-> i, op |-> "finish"]
    IN  /\ waiting = 0 /\ finished \in pending /\ requests[i].call \in gone
        /\ pending' = pending \ {finished}
        /\ UNCHANGED <<callVars, requests, waiting, answers>>

HandlerThread ==
    \/ \E i \in 1..Len(requests) :
          (\E c \in Calls : OnCall(i, c)) \/ OnFinish(i) \/ OnFinishFailed(i)
    \/ FutureReady

Next == (\E c \in Calls : Send(c) \/ Disappear(c)) \/ HandlerThread

Spec == Init /\ [][Next]_vars

\* The thread runs whenever its queue has an event, and every task answers.
FairSpec == Spec /\ WF_vars(HandlerThread)

---------------------------------------------------------------------------
(* Properties.                                                             *)

\* Every variable keeps its type; waiting is the index of a Request, or 0.
TypeOK ==
    /\ sent \subseteq Calls /\ gone \subseteq sent
    /\ requests \in Seq([status : {"READ", "FINISH"}, call : Calls \cup {NoCall}, alive : BOOLEAN])
    /\ pending \subseteq [req : 1..Len(requests), op : {"call", "finish"}]
    /\ waiting \in 0..Len(requests)
    /\ answers \in [Calls -> 0..1]

\* There is always exactly one Request that asks for the next call, also while the
\* handler is blocked in the task of another.
OneRequestArmed ==
    \E o \in pending : o.op = "call" /\ \A u \in pending : u.op = "call" => u = o

\* The tag of every pending operation, and the Request whose task is waited for, is a
\* Request that has not deleted itself, and no Request has two operations pending.
NoEventForTheDead ==
    /\ \A o \in pending : requests[o.req].alive
    /\ waiting # 0 => requests[waiting].alive
    /\ \A o, u \in pending : o.req = u.req => o = u

Reachable(i) == waiting = i \/ \E o \in pending : o.req = i

\* A Request that nothing will ever touch again has deleted itself, unless its frontend
\* disappeared before the answer was out (the event that HandlerThread drops).
LeakOnlyOfTheGone ==
    \A i \in 1..Len(requests) :
        requests[i].alive /\ ~Reachable(i) => requests[i].call \in gone

\* Every call that is made is answered, whatever became of the calls before it.
EveryCallAnswered == \A c \in Calls : c \in sent ~> answers[c] > 0
=============================================================================

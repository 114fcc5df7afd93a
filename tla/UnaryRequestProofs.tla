------------------------- MODULE UnaryRequestProofs -------------------------
(***************************************************************************)
(* Proofs about the Request objects of a unary handler, for any calls.     *)
(*                                                                         *)
(* The invariant Life follows each Request from its construction to its    *)
(* deletion: the newest one asks for a call and is the only one to do so;  *)
(* the others have a call each, no two of them the same one; the one whose *)
(* task is waited for still has status READ, all others have been answered *)
(* and have status FINISH.  The status is what ProcessRequest goes by, so  *)
(* without this tie between status and pending operations neither          *)
(* OneRequestArmed nor NoEventForTheDead is inductive.                     *)
(***************************************************************************)
EXTENDS UnaryRequest, SequenceTheorems, TLAPS

Records == [status : {"READ", "FINISH"}, call : Calls \cup {NoCall}, alive : BOOLEAN]

Newest == Len(requests)

\* The newest Request asks for a call, and no other does.
NewestArmed ==
    /\ Newest > 0
    /\ [req |-> Newest, op |-> "call"] \in pending
    /\ \A o \in pending : o.op = "call" => o.req = Newest
    /\ requests[Newest].call = NoCall /\ requests[Newest].alive

\* Every other Request has a call of its own.
OwnCalls ==
    /\ \A i \in 1..Newest : i # Newest => requests[i].call \in sent
    /\ \A i, j \in 1..Newest : requests[i].call = requests[j].call => i = j

\* What the status says.
StatusTells ==
    /\ \A i \in 1..Newest :
          requests[i].status = "READ" <=> (i = Newest \/ i = waiting)
    /\ \A o \in pending : o.op = "finish" =>
          requests[o.req].status = "FINISH" /\ requests[o.req].alive
    /\ waiting # 0 => waiting # Newest /\ requests[waiting].alive
    /\ \A i \in 1..Newest : ~requests[i].alive => \A o \in pending : o.req # i

\* A call that no Request has, or whose Request is still being served, is unanswered.
Unanswered ==
    \A c \in Calls :
        (\A i \in 1..Newest : requests[i].call = c => requests[i].status = "READ")
            => answers[c] = 0

Life == TypeOK /\ NewestArmed /\ OwnCalls /\ StatusTells /\ Unanswered

---------------------------------------------------------------------------
\* What an assignment to one field of one Request changes.
LEMMA SetField ==
    ASSUME NEW s \in Seq(Records), NEW i \in 1..Len(s), NEW r \in Records
    PROVE  /\ [s EXCEPT ![i] = r] \in Seq(Records)
           /\ Len([s EXCEPT ![i] = r]) = Len(s)
           /\ [s EXCEPT ![i] = r][i] = r
           /\ \A j \in 1..Len(s) : j # i => [s EXCEPT ![i] = r][j] = s[j]
BY ExceptSeq

\* A Request is given its call: its other fields and the other Requests stay.
LEMMA SetCall ==
    ASSUME NEW s \in Seq(Records), NEW i \in 1..Len(s), NEW c \in Calls
    PROVE  LET t == [s EXCEPT ![i].call = c]
           IN  /\ t \in Seq(Records) /\ Len(t) = Len(s)
               /\ t[i].call = c /\ t[i].status = s[i].status /\ t[i].alive = s[i].alive
               /\ \A j \in 1..Len(s) : j # i => t[j] = s[j]
<1> DEFINE r == [s[i] EXCEPT !.call = c]
<1>1. s[i] \in Records
    BY ElementOfSeq
<1>2. r \in Records /\ r.call = c /\ r.status = s[i].status /\ r.alive = s[i].alive
    BY <1>1 DEF Records
<1>3. [s EXCEPT ![i].call = c] = [s EXCEPT ![i] = r]
    OBVIOUS
<1> HIDE DEF r
<1>4. /\ [s EXCEPT ![i] = r] \in Seq(Records)
      /\ Len([s EXCEPT ![i] = r]) = Len(s)
      /\ [s EXCEPT ![i] = r][i] = r
      /\ \A j \in 1..Len(s) : j # i => [s EXCEPT ![i] = r][j] = s[j]
    BY <1>2, SetField
<1>5. QED BY <1>2, <1>3, <1>4

\* A Request starts its Finish: its call, its life and the other Requests stay.
LEMMA SetStatus ==
    ASSUME NEW s \in Seq(Records), NEW i \in 1..Len(s)
    PROVE  LET t == [s EXCEPT ![i].status = "FINISH"]
           IN  /\ t \in Seq(Records) /\ Len(t) = Len(s)
               /\ t[i].status = "FINISH" /\ t[i].call = s[i].call /\ t[i].alive = s[i].alive
               /\ \A j \in 1..Len(s) : j # i => t[j] = s[j]
<1> DEFINE r == [s[i] EXCEPT !.status = "FINISH"]
<1>1. s[i] \in Records
    BY ElementOfSeq
<1>2. r \in Records /\ r.status = "FINISH" /\ r.call = s[i].call /\ r.alive = s[i].alive
    BY <1>1 DEF Records
<1>3. [s EXCEPT ![i].status = "FINISH"] = [s EXCEPT ![i] = r]
    OBVIOUS
<1> HIDE DEF r
<1>4. /\ [s EXCEPT ![i] = r] \in Seq(Records)
      /\ Len([s EXCEPT ![i] = r]) = Len(s)
      /\ [s EXCEPT ![i] = r][i] = r
      /\ \A j \in 1..Len(s) : j # i => [s EXCEPT ![i] = r][j] = s[j]
    BY <1>2, SetField
<1>5. QED BY <1>2, <1>3, <1>4

\* A Request deletes itself: its call, its status and the other Requests stay.
LEMMA SetDead ==
    ASSUME NEW s \in Seq(Records), NEW i \in 1..Len(s)
    PROVE  LET t == [s EXCEPT ![i].alive = FALSE]
           IN  /\ t \in Seq(Records) /\ Len(t) = Len(s)
               /\ ~t[i].alive /\ t[i].call = s[i].call /\ t[i].status = s[i].status
               /\ \A j \in 1..Len(s) : j # i => t[j] = s[j]
<1> DEFINE r == [s[i] EXCEPT !.alive = FALSE]
<1>1. s[i] \in Records
    BY ElementOfSeq
<1>2. r \in Records /\ ~r.alive /\ r.call = s[i].call /\ r.status = s[i].status
    BY <1>1 DEF Records
<1>3. [s EXCEPT ![i].alive = FALSE] = [s EXCEPT ![i] = r]
    OBVIOUS
<1> HIDE DEF r
<1>4. /\ [s EXCEPT ![i] = r] \in Seq(Records)
      /\ Len([s EXCEPT ![i] = r]) = Len(s)
      /\ [s EXCEPT ![i] = r][i] = r
      /\ \A j \in 1..Len(s) : j # i => [s EXCEPT ![i] = r][j] = s[j]
    BY <1>2, SetField
<1>5. QED BY <1>2, <1>3, <1>4

\* The first Request is armed.
LEMMA InitLife == Init => Life /\ LeakOnlyOfTheGone
<1> SUFFICES ASSUME Init PROVE Life /\ LeakOnlyOfTheGone
    OBVIOUS
<1>1. requests = <<NewRequest>> /\ Len(requests) = 1 /\ requests[1] = NewRequest
    BY DEF Init
<1>2. NewRequest \in Records
    BY DEF NewRequest, Records
<1>3. requests \in Seq(Records)
    BY <1>1, <1>2
<1>4. TypeOK
    BY <1>1, <1>3 DEF Init, TypeOK, Records
<1>5. NewestArmed /\ OwnCalls /\ StatusTells /\ Unanswered
    BY <1>1 DEF Init, NewestArmed, OwnCalls, StatusTells, Unanswered, Newest, NewRequest
<1>6. LeakOnlyOfTheGone
    BY <1>1 DEF Init, LeakOnlyOfTheGone, Reachable
<1>7. QED BY <1>4, <1>5, <1>6 DEF Life

\* Frontends call and disappear.
LEMMA FrontendLife ==
    ASSUME Life, LeakOnlyOfTheGone, NEW c \in Calls, Send(c) \/ Disappear(c)
    PROVE  Life' /\ LeakOnlyOfTheGone'
<1>1. /\ UNCHANGED <<requests, pending, waiting, answers>>
      /\ sent \subseteq sent' /\ sent' \subseteq Calls
      /\ gone \subseteq gone' /\ gone' \subseteq sent'
    BY DEF Send, Disappear, Life, TypeOK
<1>2. TypeOK'
    BY <1>1 DEF Life, TypeOK
<1>3. (NewestArmed /\ StatusTells /\ Unanswered)'
    BY <1>1 DEF Life, NewestArmed, StatusTells, Unanswered, Newest
<1>4. OwnCalls'
    BY <1>1 DEF Life, OwnCalls, Newest
<1>5. LeakOnlyOfTheGone'
    BY <1>1 DEF LeakOnlyOfTheGone, Reachable
<1>6. QED BY <1>2, <1>3, <1>4, <1>5 DEF Life

\* The event of the armed Request: it is answered at once or waited for.
LEMMA CallLife ==
    ASSUME Life, LeakOnlyOfTheGone, NEW i \in 1..Newest, NEW c \in Calls, OnCall(i, c)
    PROVE  Life' /\ LeakOnlyOfTheGone'
<1> DEFINE asked == [req |-> i, op |-> "call"]
           next  == [req |-> Newest + 1, op |-> "call"]
           given == [requests EXCEPT ![i].call = c]
<1>1. i = Newest /\ waiting = 0 /\ c \in sent /\ asked \in pending
    BY DEF OnCall, Life, NewestArmed
<1>2. /\ requests \in Seq(Records) /\ Newest \in Nat \ {0}
      /\ requests[Newest].status = "READ" /\ requests[Newest].alive
    BY DEF Life, TypeOK, NewestArmed, StatusTells, Records, Newest
<1>3. \A j \in 1..Newest : requests[j].call # c
    BY <1>1, CallAssumption DEF OnCall, Taken, Newest
<1>4. UNCHANGED <<sent, gone>>
    BY DEF OnCall, callVars
<1>5. /\ given \in Seq(Records) /\ Len(given) = Newest
      /\ given[i].call = c /\ given[i].status = "READ" /\ given[i].alive
      /\ \A j \in 1..Newest : j # i => given[j] = requests[j]
    BY <1>1, <1>2, SetCall DEF Newest
<1>7. Read(i, given, pending \ {asked})
    BY <1>5 DEF OnCall, ProcessRequest
<1> HIDE DEF given
<1>8. answers[c] = 0 /\ c # NoCall
    BY <1>3, CallAssumption DEF Life, Unanswered
<1>9. ASSUME NEW status \in {"READ", "FINISH"},
             status = "READ" <=> c \in Awaited,
             requests' \in Seq(Records),
             Len(requests') = Newest + 1,
             requests'[Newest].status = status,
             requests'[Newest].call = c,
             requests'[Newest].alive,
             requests'[Newest + 1] = NewRequest,
             \A j \in 1..Newest : j # Newest => requests'[j] = requests[j],
             waiting' = IF c \in Awaited THEN Newest ELSE 0,
             pending' = IF c \in Awaited THEN (pending \ {asked}) \cup {next}
                        ELSE ((pending \ {asked}) \cup {next})
                               \cup {[req |-> Newest, op |-> "finish"]},
             answers' = IF c \in Awaited THEN answers ELSE [answers EXCEPT ![c] = @ + 1]
      PROVE  Life' /\ LeakOnlyOfTheGone'
  <2>2. /\ requests' \in Seq(Records)
        /\ Len(requests') = Newest + 1
        /\ requests'[Newest].status = status /\ requests'[Newest].call = c
        /\ requests'[Newest].alive
        /\ requests'[Newest + 1] = NewRequest
        /\ \A j \in 1..Newest : j # Newest => requests'[j] = requests[j]
      BY <1>9
  <2>3. Newest' = Newest + 1
      BY <2>2 DEF Newest
  <2>4. TypeOK'
    <3>1. pending' \subseteq [req : 1..Newest + 1, op : {"call", "finish"}]
        BY <1>2, <1>9 DEF Life, TypeOK, Newest
    <3>2. answers' \in [Calls -> 0..1]
        BY <1>8, <1>9 DEF Life, TypeOK
    <3>3. waiting' \in 0..Newest + 1
        BY <1>2, <1>9
    <3>4. QED BY <1>4, <2>2, <2>3, <3>1, <3>2, <3>3 DEF Life, TypeOK, Records, Newest
  <2>5. \A o \in pending' : \/ o = next
                            \/ o \in pending /\ o # asked
                            \/ c \notin Awaited /\ o = [req |-> Newest, op |-> "finish"]
      BY <1>9
  <2>6. \A o \in pending : o # asked => o.op = "finish" /\ o.req \in 1..Newest /\ o.req # Newest
      BY <1>1, <1>2 DEF Life, TypeOK, NewestArmed, StatusTells, Newest
  <2>7. NewestArmed'
    <3>1. next \in pending' /\ Newest + 1 > 0
        BY <1>2, <1>9
    <3>2. \A o \in pending' : o.op = "call" => o.req = Newest + 1
        BY <2>5, <2>6
    <3>3. requests'[Newest + 1].call = NoCall /\ requests'[Newest + 1].alive
        BY <2>2 DEF NewRequest
    <3>4. QED BY <2>3, <3>1, <3>2, <3>3 DEF NewestArmed
  <2>8. OwnCalls'
    <3>1. requests'[Newest + 1].call = NoCall
        BY <2>2 DEF NewRequest
    <3>2. \A j \in 1..Newest : requests'[j].call \in sent
        BY <1>1, <2>2 DEF Life, OwnCalls
    <3>3. \A j \in 1..Newest : requests'[j].call # NoCall
        BY <3>2, CallAssumption DEF Life, TypeOK
    <3>4. \A j, k \in 1..Newest : requests'[j].call = requests'[k].call => j = k
        BY <1>3, <2>2 DEF Life, OwnCalls
    <3>5. \A j \in 1..Newest + 1 : j = Newest + 1 \/ j \in 1..Newest
        BY <1>2
    <3>6. QED BY <1>4, <2>3, <3>1, <3>2, <3>3, <3>4, <3>5 DEF OwnCalls
  <2>9. StatusTells'
    <3>1. \A j \in 1..Newest : requests[j].status = "READ" <=> j = Newest
        BY <1>1, <1>2 DEF Life, StatusTells
    <3>2. \A j \in 1..Newest + 1 :
             requests'[j].status = "READ" <=> (j = Newest + 1 \/ j = waiting')
        BY <1>2, <1>9, <2>2, <3>1 DEF NewRequest
    <3>3. \A o \in pending' : o.op = "finish" =>
             requests'[o.req].status = "FINISH" /\ requests'[o.req].alive
        BY <1>2, <1>9, <2>2, <2>5, <2>6 DEF Life, StatusTells
    <3>4. waiting' # 0 => waiting' # Newest + 1 /\ requests'[waiting'].alive
        BY <1>2, <1>9, <2>2
    <3>5. \A j \in 1..Newest + 1 : ~requests'[j].alive => \A o \in pending' : o.req # j
        BY <1>2, <2>2, <2>5, <2>6 DEF Life, StatusTells, NewRequest
    <3>6. QED BY <2>3, <3>2, <3>3, <3>4, <3>5 DEF StatusTells
  <2>10. Unanswered'
    <3> SUFFICES ASSUME NEW d \in Calls,
                        \A j \in 1..Newest + 1 : requests'[j].call = d => requests'[j].status = "READ"
                 PROVE  answers'[d] = 0
        BY <2>3 DEF Unanswered
    <3>1. CASE d = c
        BY <1>2, <1>8, <1>9, <2>2, <3>1
    <3>2. CASE d # c
      <4>1. \A j \in 1..Newest : requests[j].call = d => requests[j].status = "READ"
          BY <1>2, <2>2
      <4>2. answers[d] = 0
          BY <4>1 DEF Life, Unanswered
      <4>3. QED BY <3>2, <4>2, <1>9 DEF Life, TypeOK
    <3>3. QED BY <3>1, <3>2
  <2>11. LeakOnlyOfTheGone'
    <3> SUFFICES ASSUME NEW j \in 1..Newest + 1, requests'[j].alive, ~Reachable(j)'
                 PROVE  requests'[j].call \in gone
        BY <1>4, <2>3 DEF LeakOnlyOfTheGone, Newest
    <3>0. waiting' # j /\ \A o \in pending' : o.req # j
        BY DEF Reachable
    <3>1. j # Newest + 1
      <4>1. next \in pending' /\ next.req = Newest + 1
          BY <1>9
      <4>2. QED BY <3>0, <4>1
    <3>2. j # Newest
      <4> DEFINE out == [req |-> Newest, op |-> "finish"]
      <4>1. waiting' = Newest \/ out \in pending'
          BY <1>9
      <4>2. QED BY <3>0, <4>1
    <3>3. ~Reachable(j)
        BY <1>1, <1>2, <1>9, <3>0, <3>2 DEF Reachable
    <3>4. QED BY <1>2, <2>2, <3>1, <3>2, <3>3 DEF LeakOnlyOfTheGone, Newest
  <2>12. QED BY <2>4, <2>7, <2>8, <2>9, <2>10, <2>11 DEF Life
<1> DEFINE more == Append(given, NewRequest)
<1>11. /\ more \in Seq(Records) /\ Len(more) = Newest + 1
       /\ more[i] = given[i]
       /\ more[Newest + 1] = NewRequest
       /\ \A j \in 1..Newest : j # Newest => more[j] = requests[j]
    <2>1. NewRequest \in Records
        BY DEF NewRequest, Records
    <2>2. /\ more \in Seq(Records) /\ Len(more) = Len(given) + 1
          /\ \A j \in 1..Len(given) : more[j] = given[j]
          /\ more[Len(given) + 1] = NewRequest
        BY <1>5, <2>1, AppendProperties
    <2>3. QED BY <1>1, <1>2, <1>5, <2>2
<1>12. IF c \in Awaited
         THEN /\ waiting' = i /\ requests' = more
              /\ pending' = (pending \ {asked}) \cup {[req |-> Len(more), op |-> "call"]}
              /\ answers' = answers
         ELSE Write(i, more, (pending \ {asked}) \cup {[req |-> Len(more), op |-> "call"]})
                /\ waiting' = waiting
    BY <1>5, <1>7 DEF Read
<1> HIDE DEF more
<1>13. CASE c \in Awaited
    BY <1>1, <1>5, <1>9, <1>11, <1>12, <1>13
<1>14. CASE c \notin Awaited
    <2>1. /\ requests' = [more EXCEPT ![i].status = "FINISH"]
          /\ answers' = [answers EXCEPT ![more[i].call] = @ + 1]
          /\ pending' = ((pending \ {asked}) \cup {next}) \cup {[req |-> i, op |-> "finish"]}
        BY <1>11, <1>12, <1>14 DEF Write
    <2>2. i \in 1..Len(more)
        BY <1>1, <1>2, <1>11
    <2>3. /\ requests' \in Seq(Records) /\ Len(requests') = Newest + 1
          /\ requests'[i].status = "FINISH" /\ requests'[i].call = more[i].call
          /\ requests'[i].alive = more[i].alive
          /\ \A j \in 1..Newest + 1 : j # i => requests'[j] = more[j]
        BY <1>11, <2>1, <2>2, SetStatus
    <2>4. /\ requests'[Newest + 1] = NewRequest
          /\ \A j \in 1..Newest : j # Newest => requests'[j] = requests[j]
        BY <1>1, <1>2, <1>11, <2>3
    <2>5. QED BY <1>1, <1>5, <1>9, <1>11, <1>12, <1>14, <2>1, <2>3, <2>4
<1>15. QED BY <1>13, <1>14

\* The future is ready: the call is answered, and its Request waits for that to be out.
LEMMA FutureLife ==
    ASSUME Life, LeakOnlyOfTheGone, FutureReady
    PROVE  Life' /\ LeakOnlyOfTheGone'
<1> DEFINE w == waiting
           c == requests[w].call
           finish == [req |-> w, op |-> "finish"]
<1>1. /\ requests \in Seq(Records) /\ Newest \in Nat \ {0}
      /\ w \in 1..Newest /\ w # Newest
      /\ requests[w].alive /\ requests[w].status = "READ"
  <2>1. /\ requests \in Seq(Records) /\ Newest \in Nat /\ Newest > 0
        /\ w \in 0..Newest /\ w # 0 /\ w # Newest /\ requests[w].alive
      BY DEF FutureReady, Life, TypeOK, NewestArmed, StatusTells, Records, Newest
  <2>2. QED BY <2>1 DEF Life, StatusTells
<1>2. c \in sent /\ c \in Calls
    BY <1>1 DEF Life, OwnCalls, TypeOK
<1>4. /\ requests' = [requests EXCEPT ![w].status = "FINISH"]
      /\ answers' = [answers EXCEPT ![c] = @ + 1]
      /\ pending' = pending \cup {finish}
      /\ waiting' = 0 /\ UNCHANGED <<sent, gone>>
    BY DEF FutureReady, Write, callVars
<1>5. /\ requests' \in Seq(Records) /\ Len(requests') = Newest
      /\ requests'[w].status = "FINISH" /\ requests'[w].call = c /\ requests'[w].alive
      /\ \A j \in 1..Newest : j # w => requests'[j] = requests[j]
    BY <1>1, <1>4, SetStatus DEF Newest
<1>6. Newest' = Newest
    BY <1>5 DEF Newest
<1>7. \A j \in 1..Newest : requests[j].call = c => j = w
    BY <1>1 DEF Life, OwnCalls
<1>8. answers[c] = 0
    BY <1>1, <1>2, <1>7 DEF Life, Unanswered
<1> HIDE DEF w, c
<1>9. TypeOK'
  <2>1. answers' \in [Calls -> 0..1]
      BY <1>2, <1>4, <1>8 DEF Life, TypeOK
  <2>2. pending' \subseteq [req : 1..Newest, op : {"call", "finish"}]
      BY <1>1, <1>4 DEF Life, TypeOK, Newest
  <2>3. QED BY <1>1, <1>4, <1>5, <1>6, <2>1, <2>2 DEF Life, TypeOK, Records, Newest
<1>10. NewestArmed'
    BY <1>1, <1>4, <1>5, <1>6 DEF Life, NewestArmed
<1>11. OwnCalls'
  <2>1. \A j \in 1..Newest : requests'[j].call = requests[j].call
      BY <1>5 DEF c
  <2>2. QED BY <1>4, <1>6, <2>1 DEF Life, OwnCalls
<1>12. StatusTells'
  <2>1. \A j \in 1..Newest : requests'[j].status = "READ" <=> (j = Newest \/ j = waiting')
      BY <1>1, <1>4, <1>5 DEF Life, StatusTells, w
  <2>2. \A o \in pending' : o.op = "finish" =>
             requests'[o.req].status = "FINISH" /\ requests'[o.req].alive
      BY <1>1, <1>4, <1>5 DEF Life, TypeOK, StatusTells, Newest
  <2>3. \A j \in 1..Newest : ~requests'[j].alive => \A o \in pending' : o.req # j
      BY <1>1, <1>4, <1>5 DEF Life, StatusTells
  <2>4. QED BY <1>4, <1>6, <2>1, <2>2, <2>3 DEF StatusTells
<1>13. Unanswered'
  <2> SUFFICES ASSUME NEW d \in Calls,
                      \A j \in 1..Newest : requests'[j].call = d => requests'[j].status = "READ"
               PROVE  answers'[d] = 0
      BY <1>6 DEF Unanswered
  <2>1. d # c
      BY <1>1, <1>5
  <2>2. \A j \in 1..Newest : requests[j].call = d => requests[j].status = "READ"
      BY <1>5, <2>1 DEF c
  <2>3. QED BY <1>4, <2>1, <2>2 DEF Life, Unanswered, TypeOK
<1>14. LeakOnlyOfTheGone'
  <2> SUFFICES ASSUME NEW j \in 1..Newest, requests'[j].alive, ~Reachable(j)'
               PROVE  requests'[j].call \in gone
      BY <1>4, <1>6 DEF LeakOnlyOfTheGone, Newest
  <2>0. \A o \in pending' : o.req # j
      BY DEF Reachable
  <2>1. j # w /\ ~Reachable(j)
    <3>1. finish \in pending' /\ finish.req = w
        BY <1>4
    <3>2. QED BY <1>4, <2>0, <3>1 DEF Reachable, w
  <2>2. QED BY <1>5, <2>1 DEF LeakOnlyOfTheGone, Newest
<1>15. QED BY <1>9, <1>10, <1>11, <1>12, <1>13, <1>14 DEF Life

\* An answer is out, or could not be sent: the Request deletes itself, or is left behind
\* by a call whose frontend has gone.
LEMMA FinishLife ==
    ASSUME Life, LeakOnlyOfTheGone, NEW i \in 1..Newest, OnFinish(i) \/ OnFinishFailed(i)
    PROVE  Life' /\ LeakOnlyOfTheGone'
<1> DEFINE finished == [req |-> i, op |-> "finish"]
<1>1. /\ waiting = 0 /\ finished \in pending /\ UNCHANGED <<sent, gone>>
    BY DEF OnFinish, OnFinishFailed, callVars
<1>2. /\ requests \in Seq(Records) /\ Newest \in Nat \ {0}
      /\ requests[i].status = "FINISH" /\ i # Newest
  <2>1. requests \in Seq(Records) /\ Newest \in Nat /\ Newest > 0
      BY DEF Life, TypeOK, NewestArmed, Records, Newest
  <2>2. requests[i].status = "FINISH"
      BY <1>1 DEF Life, StatusTells
  <2>3. QED BY <1>1, <2>1, <2>2 DEF Life, StatusTells
<1>3. /\ pending' = pending \ {finished} /\ UNCHANGED <<waiting, answers>>
      /\ \/ requests' = [requests EXCEPT ![i].alive = FALSE]
         \/ requests' = requests /\ requests[i].call \in gone
  <2>1. CASE OnFinish(i)
      BY <1>2, <2>1 DEF OnFinish, ProcessRequest
  <2>2. CASE OnFinishFailed(i)
      BY <2>2 DEF OnFinishFailed
  <2>3. QED BY <2>1, <2>2
<1>4. \A o \in pending : o.req = i => o = finished
    BY <1>2 DEF Life, TypeOK, NewestArmed, Newest
<1>6. /\ requests' \in Seq(Records) /\ Len(requests') = Newest
      /\ \A j \in 1..Newest : j # i => requests'[j] = requests[j]
      /\ requests'[i].status = requests[i].status /\ requests'[i].call = requests[i].call
      /\ requests'[i].alive => requests[i].call \in gone
  <2>1. CASE requests' = [requests EXCEPT ![i].alive = FALSE]
      BY <1>2, <2>1, SetDead DEF Newest
  <2>2. CASE requests' = requests /\ requests[i].call \in gone
      BY <1>2, <2>2 DEF Newest
  <2>3. QED BY <1>3, <2>1, <2>2
<1>7. Newest' = Newest
    BY <1>6 DEF Newest
<1>8. \A j \in 1..Newest : /\ requests'[j].call = requests[j].call
                           /\ requests'[j].status = requests[j].status
    BY <1>6
<1>9. TypeOK'
    BY <1>1, <1>3, <1>6, <1>7 DEF Life, TypeOK, Records, Newest
<1>10. NewestArmed'
    BY <1>1, <1>2, <1>3, <1>6, <1>7 DEF Life, NewestArmed
<1>11. OwnCalls'
    BY <1>1, <1>7, <1>8 DEF Life, OwnCalls
<1>12. StatusTells'
  <2>1. \A o \in pending' : o.req \in 1..Newest /\ o.req # i /\ o \in pending
      BY <1>3, <1>4 DEF Life, TypeOK, Newest
  <2>2. \A o \in pending' : o.op = "finish" =>
             requests'[o.req].status = "FINISH" /\ requests'[o.req].alive
      BY <1>6, <2>1 DEF Life, StatusTells
  <2>3. \A j \in 1..Newest : ~requests'[j].alive => \A o \in pending' : o.req # j
      BY <1>6, <2>1 DEF Life, StatusTells
  <2>4. QED BY <1>1, <1>3, <1>7, <1>8, <2>2, <2>3 DEF Life, StatusTells
<1>13. Unanswered'
    BY <1>3, <1>7, <1>8 DEF Life, Unanswered
<1>14. LeakOnlyOfTheGone'
  <2> SUFFICES ASSUME NEW j \in 1..Newest, requests'[j].alive, ~Reachable(j)'
               PROVE  requests'[j].call \in gone
      BY <1>1, <1>7 DEF LeakOnlyOfTheGone, Newest
  <2>1. CASE j = i
      BY <1>6, <2>1
  <2>2. CASE j # i
    <3>1. ~Reachable(j)
        BY <1>3, <2>2 DEF Reachable
    <3>2. QED BY <1>6, <2>2, <3>1 DEF LeakOnlyOfTheGone, Newest
  <2>3. QED BY <2>1, <2>2
<1>15. QED BY <1>9, <1>10, <1>11, <1>12, <1>13, <1>14 DEF Life

\* Every step of the handler and its frontends keeps Life.
LEMMA LifeStep == Life /\ LeakOnlyOfTheGone /\ [Next]_vars => Life' /\ LeakOnlyOfTheGone'
<1> SUFFICES ASSUME Life, LeakOnlyOfTheGone, [Next]_vars
             PROVE  Life' /\ LeakOnlyOfTheGone'
    OBVIOUS
<1>1. ASSUME NEW c \in Calls, Send(c) \/ Disappear(c) PROVE Life' /\ LeakOnlyOfTheGone'
    BY <1>1, FrontendLife
<1>2. ASSUME NEW i \in 1..Newest, NEW c \in Calls, OnCall(i, c)
      PROVE  Life' /\ LeakOnlyOfTheGone'
    BY <1>2, CallLife
<1>3. ASSUME NEW i \in 1..Newest, OnFinish(i) \/ OnFinishFailed(i)
      PROVE  Life' /\ LeakOnlyOfTheGone'
    BY <1>3, FinishLife
<1>4. CASE FutureReady
    BY <1>4, FutureLife
<1>5. CASE UNCHANGED vars
    BY <1>5 DEF vars, callVars, Life, TypeOK, NewestArmed, OwnCalls, StatusTells, Unanswered,
                Newest, LeakOnlyOfTheGone, Reachable
<1>6. QED BY <1>1, <1>2, <1>3, <1>4, <1>5 DEF Next, HandlerThread, Newest

\* The newest Request has the only pending call.
LEMMA LifeArms == Life => OneRequestArmed
<1> SUFFICES ASSUME Life PROVE OneRequestArmed
    OBVIOUS
<1> DEFINE o == [req |-> Newest, op |-> "call"]
<1>1. o \in pending /\ o.op = "call"
    BY DEF Life, NewestArmed
<1>2. \A u \in pending : u.op = "call" => u = o
    BY DEF Life, NewestArmed, TypeOK
<1>3. QED BY <1>1, <1>2 DEF OneRequestArmed

\* A pending operation, or the wait for an answer, belongs to a living Request, and no
\* Request has two operations.
LEMMA LifeSparesTheDead == Life => NoEventForTheDead
<1> SUFFICES ASSUME Life PROVE NoEventForTheDead
    OBVIOUS
<1>1. \A o \in pending : o.req \in 1..Newest /\ o.op \in {"call", "finish"}
                         /\ o = [req |-> o.req, op |-> o.op]
    BY DEF Life, TypeOK, Newest
<1>2. \A o \in pending : requests[o.req].alive
    BY <1>1 DEF Life, StatusTells
<1>3. waiting # 0 => requests[waiting].alive
    BY DEF Life, StatusTells
<1>4. ASSUME NEW o \in pending, NEW u \in pending, o.req = u.req PROVE o = u
  <2>1. o.op = "call" <=> u.op = "call"
      BY <1>1, <1>4 DEF Life, NewestArmed, StatusTells, NewRequest
  <2>2. QED BY <1>1, <1>4, <2>1
<1>5. QED BY <1>2, <1>3, <1>4 DEF NoEventForTheDead

\* The types hold, among them that no call is answered twice.
THEOREM TypeCorrect == Spec => []TypeOK
<1>1. Life => TypeOK
    BY DEF Life
<1>2. QED BY <1>1, InitLife, LifeStep, PTL DEF Spec

\* One Request always asks for the next call: the handler can neither be without one nor
\* take two calls at once.
THEOREM AlwaysOneArmed == Spec => []OneRequestArmed
BY InitLife, LifeStep, LifeArms, PTL DEF Spec

\* The completion queue never returns the tag of a Request that has deleted itself.
THEOREM DeadAreNotTouched == Spec => []NoEventForTheDead
BY InitLife, LifeStep, LifeSparesTheDead, PTL DEF Spec

\* A Request is leaked only when its frontend disappeared.
THEOREM OnlyTheGoneLeak == Spec => []LeakOnlyOfTheGone
BY InitLife, LifeStep, PTL DEF Spec
=============================================================================

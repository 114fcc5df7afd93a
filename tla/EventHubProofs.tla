--------------------------- MODULE EventHubProofs ---------------------------
(***************************************************************************)
(* Proofs about EventHub, for any number of threads, runners, workers,     *)
(* events and handlers, any callers and any bounds.                        *)
(***************************************************************************)
EXTENDS EventHub, SequenceTheorems, FiniteSetTheorems, TLAPS

---------------------------------------------------------------------------
(* The inductive invariant.                                                *)

Posting == {"wait", "blocked", "push"}
EventTasks == [k : 1 .. MaxTriggers, h : Handlers]

UserFrame  == [at : {"user"}, task : Tasks]
EraseFrame == [at : {"erase"}, e : Events, h : Handlers, handlers : Seq(Handlers)]
LoopFrame  == [at : {"loop"}, k : 1 .. MaxTriggers, e : Events, i : Nat \ {0}, handlers : Seq(Handlers)]
PostFrame  == [at : Posting, p : Pumps, task : EventTasks]
PumpFrame  == [at : {"pump"}, p : Pumps]
BirthFrame == [at : {"create", "name"}, d : Delegates]

Frame == UserFrame \cup EraseFrame \cup LoopFrame \cup PostFrame \cup PumpFrame \cup BirthFrame

\* TypeOK without the counts and the guards, and the types of the calls.
TypeInv ==
    /\ stack \in [OSThreads -> Seq(Frame)]
    /\ threadHandle \in Delegates \cup {None}
    /\ Id \in [Runners \cup Delegates -> OSThreads \cup {None}]
    /\ osName \in [OSThreads -> Delegates \cup {None}]
    /\ namedDMPs \subseteq Runners /\ namedThreads \subseteq Threads
    /\ started \subseteq Pumps /\ queueGuard \subseteq Pumps
    /\ queue \in [Pumps -> SUBSET Tasks]
    /\ DOMAIN eventHandlers \subseteq Events
    /\ \A e \in DOMAIN eventHandlers : eventHandlers[e] \in Seq(Handlers)
    /\ registered \subseteq used /\ used \subseteq Handlers /\ removed \subseteq Handlers
    /\ raced \subseteq Handlers /\ mixed \subseteq Delegates
    /\ expected \in Seq(SUBSET Handlers) /\ Len(expected) <= MaxTriggers
    /\ ran \in [Tasks -> Nat]
    /\ dropped \subseteq Tasks
    /\ crashed \in BOOLEAN

\* p runs on x: it is the runner x made, or the named Thread that x is.
RunsOn(p, x) ==
    \/ p \in Runners /\ Id[p] = x
    \/ p \in namedThreads /\ p = x

\* What a call that a thread is in says of the thread.
CallOK(x, f) ==
    /\ f.at = "pump" => f.p \in started /\ RunsOn(f.p, x)
    /\ f.at \in Posting => f.task.h \in AsTask /\ Owner[f.task.h] = f.p
    /\ f.at = "user" /\ f.task.h \in AsTask => RunsOn(Owner[f.task.h], x)
    /\ f.at = "name" => f.d = x

\* Calls of Create and of ThreadStartFunction.
Births == {f \in Frames : f.at \in {"create", "name"}}

InCall(where, d) == \E f \in Births : f.at = where /\ f.d = d

ThreadInv ==
    /\ \A x \in OSThreads : \A f \in Range(stack[x]) : CallOK(x, f)
    /\ \A x \in OSThreads : \A f \in Range(stack[x]) : f.at = "name" => stack[x] = <<f>>
    /\ queueGuard \subseteq started
    /\ \A r \in Runners : Id[r] # None => r \in namedDMPs
    /\ \A p \in Pumps : \A t \in queue[p] : t = InitTask \/ (t.h \in AsTask /\ Owner[t.h] = p)
    \* one creation at a time, the one the handle is for, or all of them mixed
    /\ BeingCreated \subseteq {threadHandle} \/ BeingCreated \cup {threadHandle} \subseteq mixed
    /\ \A d \in Threads \ mixed : stack[d] # <<>> => Id[d] = d \/ InCall("create", d)
    /\ \A d \in Delegates \ mixed : stack[d] # <<>> => osName[d] = d \/ InCall("name", d)

\* A vector of handlers of event e.
VectorOK(v, e) == IsInjective(v) /\ \A h \in Range(v) : h \in used /\ EventOf[h] = e

EraseOK(f) ==
    /\ f.e \in DOMAIN eventHandlers /\ EventOf[f.h] = f.e
    /\ VectorOK(f.handlers, f.e) /\ f.h \notin Range(f.handlers)
    /\ \A h \in Handlers \ (raced \cup {f.h}) :
          EventOf[h] = f.e => (h \in registered <=> h \in Range(f.handlers))

HubInv ==
    /\ \A e \in DOMAIN eventHandlers : VectorOK(eventHandlers[e], e)
    /\ \A h \in Handlers \ raced :
          h \in registered <=> EventOf[h] \in DOMAIN eventHandlers /\ h \in Range(eventHandlers[EventOf[h]])
    /\ \A f \in Frames : f.at = "erase" => EraseOK(f)
    /\ \A f, g \in Frames : f.at = "erase" /\ g.at = "erase" /\ f.e = g.e /\ f # g => f.h \in raced

\* The call f has yet to deliver t.
Carries(f, t) ==
    \/ f.at = "loop" /\ f.k = t.k /\ \E j \in f.i .. Len(f.handlers) : f.handlers[j] = t.h
    \/ f.at \in Posting /\ f.task = t

Carried(s, i, t) == i \in DOMAIN s /\ Carries(s[i], t)

Places == OSThreads \cup Pumps \cup {None}

\* Where t is: in a thread's i-th call, in a queue, dropped or done.
InPlace(t, x, i) ==
    \/ x \in OSThreads /\ Carried(stack[x], i, t)
    \/ x \in Pumps /\ i = 0 /\ t \in queue[x]
    \/ x = None /\ i = 0 /\ t \in dropped
    \/ x = None /\ i = 1 /\ ran[t] # 0

Somewhere(t) == \E x \in Places, i \in Nat : InPlace(t, x, i)

OnePlace(t) ==
    \A x, y \in Places, i, j \in Nat : InPlace(t, x, i) /\ InPlace(t, y, j) => x = y /\ i = j

DeliveryInv ==
    /\ \A f \in Frames : f.at = "loop" => IsInjective(f.handlers)
    /\ ran \in [Tasks -> 0 .. 1] /\ ran[InitTask] = 0
    /\ \A t \in EventTasks : OnePlace(t)
    /\ \A t \in EventTasks : Somewhere(t) => t.k \in DOMAIN expected
    /\ \A t \in EventTasks : t.k \in DOMAIN expected /\ t.h \notin raced =>
          (Somewhere(t) <=> t.h \in expected[t.k])

---------------------------------------------------------------------------
(* Sequences.                                                              *)

LEMMA FrontFacts ==
    ASSUME NEW S, NEW s \in Seq(S), s # <<>>
    PROVE  /\ Len(s) \in Nat \ {0} /\ s[Len(s)] \in S
           /\ Front(s) \in Seq(S) /\ Len(Front(s)) = Len(s) - 1
           /\ \A i \in 1 .. Len(s) - 1 : Front(s)[i] = s[i]
<1>1. Len(s) \in Nat \ {0} /\ \A i \in 1 .. Len(s) : s[i] \in S
  OBVIOUS
<1>2. PICK n : n = Len(s) - 1
  OBVIOUS
<1>3. n \in Nat /\ \A i \in 1 .. n : s[i] \in S
  BY <1>1, <1>2
<1>4. /\ SubSeq(s, 1, n) \in Seq(S)
      /\ Len(SubSeq(s, 1, n)) = IF 1 <= n THEN n - 1 + 1 ELSE 0
      /\ \A i \in 1 .. n - 1 + 1 : SubSeq(s, 1, n)[i] = s[1 + i - 1]
  BY <1>3, SubSeqProperties
<1>5. Front(s) = SubSeq(s, 1, n)
  BY <1>2, Zenon DEF Front
<1>6. Len(SubSeq(s, 1, n)) = n /\ \A i \in 1 .. n : SubSeq(s, 1, n)[i] = s[i]
  BY <1>3, <1>4
<1> QED
  BY <1>1, <1>2, <1>4, <1>5, <1>6

LEMMA AppendFacts ==
    ASSUME NEW S, NEW s \in Seq(S), NEW f \in S
    PROVE  /\ Append(s, f) \in Seq(S) /\ Append(s, f) # <<>>
           /\ DOMAIN Append(s, f) = 1 .. Len(s) + 1 /\ Len(Append(s, f)) = Len(s) + 1
           /\ \A i \in 1 .. Len(s) : Append(s, f)[i] = s[i]
           /\ Append(s, f)[Len(s) + 1] = f
BY AppendProperties, LenProperties

LEMMA AppendRange ==
    ASSUME NEW S, NEW s \in Seq(S), NEW f \in S
    PROVE  Range(Append(s, f)) = Range(s) \cup {f}
<1>1. DOMAIN s = 1 .. Len(s) /\ Len(s) \in Nat
  OBVIOUS
<1>2. ASSUME NEW g \in Range(Append(s, f)) PROVE g \in Range(s) \cup {f}
  <2>1. PICK i \in 1 .. Len(s) + 1 : g = Append(s, f)[i]
    BY <1>2, AppendFacts DEF Range
  <2> QED
    BY <1>1, <2>1, AppendFacts DEF Range
<1>3. ASSUME NEW g \in Range(s) PROVE g \in Range(Append(s, f))
  <2>1. PICK i \in 1 .. Len(s) : g = s[i]
    BY <1>1, <1>3 DEF Range
  <2> QED
    BY <1>1, <2>1, AppendFacts DEF Range
<1>4. f \in Range(Append(s, f))
  BY <1>1, AppendFacts DEF Range
<1> QED
  BY <1>2, <1>3, <1>4

LEMMA FrontRange ==
    ASSUME NEW S, NEW s \in Seq(S), s # <<>>
    PROVE  Range(s) = Range(Front(s)) \cup {Last(s)}
<1>1. DOMAIN s = 1 .. Len(s) /\ DOMAIN Front(s) = 1 .. Len(s) - 1 /\ Len(s) \in Nat \ {0}
  BY FrontFacts
<1>2. ASSUME NEW g \in Range(s) PROVE g \in Range(Front(s)) \cup {Last(s)}
  <2>1. PICK i \in 1 .. Len(s) : g = s[i]
    BY <1>1, <1>2 DEF Range
  <2>2. CASE i = Len(s)
    BY <2>1, <2>2 DEF Last
  <2>3. CASE i # Len(s)
    <3>1. i \in 1 .. Len(s) - 1
      <4>1. Len(s) \in Nat
        BY <1>1, Zenon
      <4> QED
        BY <2>3, <4>1
    <3>2. Front(s)[i] = g
      BY <2>1, <3>1, FrontFacts
    <3> QED
      BY <1>1, <3>1, <3>2 DEF Range
  <2> QED
    BY <2>2, <2>3
<1>3. ASSUME NEW g \in Range(Front(s)) PROVE g \in Range(s)
  <2>1. PICK i \in 1 .. Len(s) - 1 : g = Front(s)[i]
    BY <1>1, <1>3 DEF Range
  <2>2. i \in 1 .. Len(s) /\ g = s[i]
    BY <1>1, <2>1, FrontFacts
  <2> QED
    BY <1>1, <2>2 DEF Range
<1>4. Last(s) \in Range(s)
  BY <1>1 DEF Range, Last
<1> QED
  BY <1>2, <1>3, <1>4

\* erase(find_if(...)) on a vector without repetitions.
LEMMA RemoveFirstFacts ==
    ASSUME NEW S, NEW s \in Seq(S), IsInjective(s), NEW h
    PROVE  /\ RemoveFirst(s, h) \in Seq(S) /\ IsInjective(RemoveFirst(s, h))
           /\ Range(RemoveFirst(s, h)) = Range(s) \ {h}
<1>1. CASE \A i \in 1 .. Len(s) : s[i] # h
  <2>1. RemoveFirst(s, h) = s
    BY <1>1 DEF RemoveFirst
  <2>2. h \notin Range(s)
    BY <1>1 DEF Range
  <2> QED
    BY <2>1, <2>2
<1>2. ASSUME NEW j \in 1 .. Len(s), s[j] = h
      PROVE  /\ RemoveFirst(s, h) \in Seq(S) /\ IsInjective(RemoveFirst(s, h))
             /\ Range(RemoveFirst(s, h)) = Range(s) \ {h}
  <2> DEFINE I == {i \in 1 .. Len(s) : s[i] = h}
  <2>1. I = {j}
    BY <1>2 DEF IsInjective
  <2>2. Min(I) = j
    BY <2>1 DEF Min
  <2>3. SelectInSeq(s, LAMBDA v : v = h) = j
    BY <2>1, <2>2 DEF SelectInSeq
  <2>4. RemoveFirst(s, h) = RemoveAt(s, j)
    BY <1>2, <2>3 DEF RemoveFirst
  <2>5. PICK n : n = Len(s)
    OBVIOUS
  <2>6. n \in Nat /\ j \in 1 .. n /\ DOMAIN s = 1 .. n /\ \A i \in 1 .. n : s[i] \in S
    BY <2>5
  <2>7. PICK m, l : m = j - 1 /\ l = j + 1
    OBVIOUS
  <2>8. PICK a, b : a = SubSeq(s, 1, m) /\ b = SubSeq(s, l, n)
    OBVIOUS
  <2>9. RemoveAt(s, j) = a \o b
    BY <2>5, <2>7, <2>8, Zenon DEF RemoveAt
  <2>10. m \in Nat /\ l \in Nat /\ (\A i \in 1 .. m : s[i] \in S) /\ (\A i \in l .. n : s[i] \in S)
    BY <2>6, <2>7
  <2>11. /\ a \in Seq(S) /\ Len(a) = (IF 1 <= m THEN m - 1 + 1 ELSE 0)
         /\ \A i \in 1 .. m - 1 + 1 : a[i] = s[1 + i - 1]
    BY <2>8, <2>10, SubSeqProperties
  <2>12. /\ b \in Seq(S) /\ Len(b) = (IF l <= n THEN n - l + 1 ELSE 0)
         /\ \A i \in 1 .. n - l + 1 : b[i] = s[l + i - 1]
    BY <2>6, <2>8, <2>10, SubSeqProperties
  <2>13. Len(a) = m /\ (\A i \in 1 .. m : a[i] = s[i])
    BY <2>10, <2>11
  <2>14. Len(b) = n - j /\ \A i \in 1 .. n - j : b[i] = s[j + i]
    BY <2>6, <2>7, <2>12
  <2>15. PICK c : c = a \o b
    OBVIOUS
  <2>16. c \in Seq(S) /\ Len(c) = n - 1 /\ DOMAIN c = 1 .. n - 1
    <3>1. c \in Seq(S) /\ Len(c) = Len(a) + Len(b)
      BY <2>11, <2>12, <2>15, ConcatProperties
    <3>2. Len(a) = j - 1 /\ Len(b) = n - j
      BY <2>7, <2>13, <2>14
    <3>3. Len(c) = n - 1
      BY <2>6, <3>1, <3>2
    <3> QED
      BY <3>1, <3>3
  <2>17. \A i \in 1 .. n - 1 : c[i] = IF i < j THEN s[i] ELSE s[i + 1]
    <3> SUFFICES ASSUME NEW i \in 1 .. n - 1 PROVE c[i] = IF i < j THEN s[i] ELSE s[i + 1]
      OBVIOUS
    <3>1. c[i] = IF i <= Len(a) THEN a[i] ELSE b[i - Len(a)]
      BY <2>6, <2>7, <2>11, <2>12, <2>13, <2>14, <2>15
    <3>2. CASE i < j
      <4>1. i <= m /\ i \in 1 .. m
        BY <2>6, <2>7, <3>2
      <4> QED
        BY <2>13, <3>1, <3>2, <4>1
    <3>3. CASE ~(i < j)
      <4>1. ~(i <= m) /\ i - m \in 1 .. n - j /\ j + (i - m) = i + 1
        BY <2>6, <2>7, <3>3
      <4>2. c[i] = b[i - m]
        BY <2>13, <3>1, <4>1
      <4>3. b[i - m] = s[j + (i - m)]
        BY <2>14, <4>1
      <4> QED
        BY <3>3, <4>1, <4>2, <4>3
    <3> QED
      BY <3>2, <3>3
  <2>18. IsInjective(c)
    <3> SUFFICES ASSUME NEW p \in 1 .. n - 1, NEW q \in 1 .. n - 1, c[p] = c[q] PROVE p = q
      BY <2>16, Zenon DEF IsInjective
    <3>1. \A u, v \in 1 .. n : s[u] = s[v] => u = v
      BY <2>6, Zenon DEF IsInjective
    <3> QED
      BY <2>6, <2>17, <3>1
  <2>19. ASSUME NEW g \in Range(c) PROVE g \in Range(s) \ {h}
    <3>1. PICK i \in 1 .. n - 1 : g = c[i]
      BY <2>16, <2>19, Zenon DEF Range
    <3>2. PICK u \in 1 .. n : g = s[u] /\ u # j
      BY <2>6, <2>17, <3>1
    <3> QED
      BY <1>2, <2>6, <3>2, Zenon DEF Range, IsInjective
  <2>20. ASSUME NEW g \in Range(s) \ {h} PROVE g \in Range(c)
    <3>1. PICK u \in 1 .. n : g = s[u]
      BY <2>6, <2>20, Zenon DEF Range
    <3>2. u # j
      BY <1>2, <2>20, <3>1, Zenon
    <3>3. PICK i \in 1 .. n - 1 : g = c[i]
      <4>1. CASE u < j
        BY <2>6, <2>17, <3>1, <4>1
      <4>2. CASE j < u
        <5>1. u - 1 \in 1 .. n - 1 /\ ~(u - 1 < j) /\ (u - 1) + 1 = u
          BY <2>6, <4>2
        <5> QED
          BY <2>17, <3>1, <5>1
      <4> QED
        BY <2>6, <3>2, <4>1, <4>2
    <3> QED
      BY <2>16, <3>3, Zenon DEF Range
  <2> QED
    BY <2>4, <2>9, <2>15, <2>16, <2>18, <2>19, <2>20
<1> QED
  BY <1>1, <1>2

\* At0 keeps the vectors of the table and gives a new event an empty one.
LEMMA At0Facts ==
    ASSUME NEW table, NEW e
    PROVE  /\ DOMAIN At0(table, e) = DOMAIN table \cup {e}
           /\ \A d \in DOMAIN table : At0(table, e)[d] = table[d]
           /\ e \notin DOMAIN table => At0(table, e)[e] = <<>>
BY DEF At0

---------------------------------------------------------------------------
(* Frames.                                                                 *)

\* The place of a call tells its type.
LEMMA FrameKinds ==
    ASSUME NEW f \in Frame
    PROVE  /\ f.at = "user" => f \in UserFrame
           /\ f.at = "erase" => f \in EraseFrame
           /\ f.at = "loop" => f \in LoopFrame
           /\ f.at \in Posting => f \in PostFrame
           /\ f.at = "pump" => f \in PumpFrame
           /\ f.at \in {"create", "name"} => f \in BirthFrame
BY DEF Frame, UserFrame, EraseFrame, LoopFrame, PostFrame, PumpFrame, BirthFrame, Posting

LEMMA TaskFacts ==
    /\ InitTask \in Tasks /\ InitTask \notin EventTasks /\ InitTask.h = None
    /\ Tasks = EventTasks \cup {InitTask}
    /\ \A t \in EventTasks : t.k \in 1 .. MaxTriggers /\ t.h \in Handlers
    /\ \A k \in 1 .. MaxTriggers, h \in Handlers :
          LET t == [k |-> k, h |-> h] IN t \in EventTasks /\ t.k = k /\ t.h = h
BY DEF Tasks, EventTasks, InitTask

\* The last call of a thread.
LEMMA TopFacts ==
    ASSUME TypeInv, NEW x \in OSThreads, NEW where, At(x, where)
    PROVE  /\ ~crashed /\ stack[x] \in Seq(Frame) /\ stack[x] # <<>>
           /\ Top(x) = Last(stack[x]) /\ Top(x) = stack[x][Len(stack[x])]
           /\ Top(x) \in Frame /\ Top(x).at = where /\ Top(x) \in Range(stack[x])
           /\ Range(Front(stack[x])) \subseteq Range(stack[x])
<1>1. stack[x] \in Seq(Frame) /\ ~crashed /\ stack[x] # <<>> /\ Last(stack[x]).at = where
  BY Zenon DEF At, TypeInv
<1>2. Last(stack[x]) = stack[x][Len(stack[x])]
  BY Zenon DEF Last
<1>3. stack[x][Len(stack[x])] \in Frame
  BY <1>1, FrontFacts
<1>4. Range(stack[x]) = Range(Front(stack[x])) \cup {Last(stack[x])}
  BY <1>1, FrontRange
<1> QED
  BY <1>1, <1>2, <1>3, <1>4, Zenon DEF Top

\* What PostTask finds is the receiver of that name, in one of the tables.
LEMMA PostTaskFacts ==
    ASSUME TypeInv, NEW name
    PROVE  /\ PostTask(name) # None => PostTask(name) = name /\ name \in namedDMPs \cup namedThreads
           /\ name \in namedDMPs \cup namedThreads => PostTask(name) = name
<1>1. None \notin namedDMPs /\ None \notin namedThreads
  BY ThreadAssumption DEF TypeInv, Pumps
<1> QED
  BY <1>1, Zenon DEF PostTask, GetTaskRunner, GetThread

\* The frames the actions make.
LEMMA MadeFrames ==
    /\ \A t \in Tasks : User(t) \in UserFrame /\ User(t).at = "user" /\ User(t).task = t
    /\ \A p \in Pumps : LET f == [at |-> "pump", p |-> p]
                        IN  f \in PumpFrame /\ f.at = "pump" /\ f.p = p
    /\ \A d \in Delegates, w \in {"create", "name"} :
          LET f == [at |-> w, d |-> d] IN f \in BirthFrame /\ f.at = w /\ f.d = d
    /\ \A p \in Pumps, t \in EventTasks :
          LET f == PostMessageToThread(p, t)
          IN  f \in PostFrame /\ f.at \in Posting /\ f.p = p /\ f.task = t
    /\ \A e \in Events, h \in Handlers, v \in Seq(Handlers) :
          LET f == [at |-> "erase", e |-> e, h |-> h, handlers |-> v]
          IN  f \in EraseFrame /\ f.at = "erase" /\ f.e = e /\ f.h = h /\ f.handlers = v
    /\ \A k \in 1 .. MaxTriggers, e \in Events, v \in Seq(Handlers) :
          LET f == [at |-> "loop", k |-> k, e |-> e, i |-> 1, handlers |-> v]
          IN  f \in LoopFrame /\ f.at = "loop" /\ f.k = k /\ f.e = e /\ f.i = 1 /\ f.handlers = v
BY DEF User, PostMessageToThread, UserFrame, PumpFrame, BirthFrame, PostFrame, EraseFrame, LoopFrame, Posting

\* A post that goes on to its next place.
LEMMA PostMoves ==
    ASSUME NEW f \in PostFrame, NEW w \in Posting
    PROVE  LET g == [f EXCEPT !.at = w]
           IN  g \in PostFrame /\ g.at = w /\ g.p = f.p /\ g.task = f.task
BY DEF PostFrame, Posting

\* A round of TriggerEvent's loop.
LEMMA LoopMoves ==
    ASSUME NEW f \in LoopFrame
    PROVE  LET g == [f EXCEPT !.i = @ + 1]
           IN  /\ g \in LoopFrame /\ g.at = "loop" /\ g.i = f.i + 1
               /\ g.k = f.k /\ g.e = f.e /\ g.handlers = f.handlers
BY DEF LoopFrame

LEMMA KindsAreFrames ==
    /\ UserFrame \subseteq Frame /\ EraseFrame \subseteq Frame /\ LoopFrame \subseteq Frame
    /\ PostFrame \subseteq Frame /\ PumpFrame \subseteq Frame /\ BirthFrame \subseteq Frame
BY DEF Frame

\* The pieces of DispatchEvent: the loop's frame after a round, and the share it delivers.
Advanced(f) == [f EXCEPT !.i = @ + 1]
Share(f) == [k |-> f.k, h |-> f.handlers[f.i]]

\* The five outcomes of DispatchEvent, over typed data.
DispatchOutcome(x, f, g, t) ==
    \/ /\ f.i > Len(f.handlers)
       /\ stack' = [stack EXCEPT ![x] = Front(@)]
       /\ UNCHANGED <<ran, dropped, crashed>>
    \/ /\ f.i <= Len(f.handlers) /\ t \in EventTasks /\ t.k = f.k /\ t.h = f.handlers[f.i]
       /\ \/ /\ t.h \notin AsTask
             /\ stack' = [stack EXCEPT ![x] = Append(Append(Front(stack[x]), g), User(t))]
             /\ ran' = [ran EXCEPT ![t] = @ + 1]
             /\ UNCHANGED <<dropped, crashed>>
          \/ \E p \in Pumps :
             /\ t.h \in AsTask /\ Owner[t.h] = p
             /\ stack' = [stack EXCEPT ![x] = Append(Append(Front(stack[x]), g), PostMessageToThread(p, t))]
             /\ UNCHANGED <<ran, dropped, crashed>>
          \/ /\ t.h \in AsTask
             /\ dropped' = dropped \cup {t}
             /\ stack' = [stack EXCEPT ![x] = Append(Front(stack[x]), g)]
             /\ UNCHANGED <<ran, crashed>>
          \/ /\ crashed' = TRUE
             /\ UNCHANGED <<stack, ran, dropped>>

LEMMA DispatchCases ==
    ASSUME TypeInv, NEW x \in OSThreads, DispatchEvent(x),
           NEW f, f = Top(x), NEW t, t = Share(f), NEW g, g = Advanced(f)
    PROVE  f \in LoopFrame /\ DispatchOutcome(x, f, g, t)
<1>1. At(x, "loop")
  BY Zenon DEF DispatchEvent
<1>2. f \in LoopFrame
  BY <1>1, TopFacts, FrameKinds
<1>3. f.i \in Nat \ {0} /\ f.k \in 1 .. MaxTriggers /\ f.handlers \in Seq(Handlers) /\ Len(f.handlers) \in Nat
  BY <1>2 DEF LoopFrame
<1>4. PICK h : h = NextHandler(x, f)
  OBVIOUS
<1>5. CASE f.i > Len(f.handlers)
  <2>1. h = None
    BY <1>4, <1>5, Zenon DEF NextHandler
  <2> QED
    BY <1>2, <1>4, <1>5, <2>1, Zenon DEF DispatchEvent, Return, DispatchOutcome
<1>6. CASE ~(f.i > Len(f.handlers))
  <2>1. h = f.handlers[f.i]
    BY <1>4, <1>6, Zenon DEF NextHandler
  <2>2. f.i <= Len(f.handlers) /\ f.i \in 1 .. Len(f.handlers)
    BY <1>3, <1>6
  <2>3. h \in Handlers /\ h # None
    BY <1>3, <2>1, <2>2, HandlerAssumption
  <2>4. t = [k |-> f.k, h |-> h]
    BY <2>1, Zenon DEF Share
  <2>5. t \in EventTasks /\ t.k = f.k /\ t.h = h
    BY <1>3, <2>3, <2>4, TaskFacts
  <2>6. PICK p : p = PostTask(Owner[h])
    OBVIOUS
  <2>7. p # None => p = Owner[h] /\ p \in Pumps
    <3>1. p # None => p = Owner[h] /\ p \in namedDMPs \cup namedThreads
      BY <2>6, PostTaskFacts
    <3> QED
      BY <3>1, Zenon DEF TypeInv, Pumps
  <2>8. \/ /\ h \notin AsTask
           /\ stack' = [stack EXCEPT ![x] = Append(Append(Front(stack[x]), g), User(t))]
           /\ ran' = [ran EXCEPT ![t] = @ + 1]
           /\ UNCHANGED <<dropped, crashed>>
        \/ /\ h \in AsTask /\ p # None
           /\ stack' = [stack EXCEPT ![x] = Append(Append(Front(stack[x]), g), PostMessageToThread(p, t))]
           /\ UNCHANGED <<ran, dropped, crashed>>
        \/ /\ h \in AsTask
           /\ dropped' = dropped \cup {t}
           /\ stack' = [stack EXCEPT ![x] = Append(Front(stack[x]), g)]
           /\ UNCHANGED <<ran, crashed>>
        \/ crashed' = TRUE /\ UNCHANGED <<stack, ran, dropped>>
    BY <1>4, <2>3, <2>4, <2>6, Zenon DEF DispatchEvent, Advanced
  <2> QED
    BY <1>2, <2>1, <2>2, <2>5, <2>7, <2>8, Zenon DEF DispatchOutcome
<1> QED
  BY <1>5, <1>6

\* The pump p starts on x over calls, and y, unless it is None, ceases to be blocked.
LoopStarted(x, p, calls, y) ==
    /\ y # x
    /\ y # None => stack[y] # <<>> /\ Last(stack[y]) \in PostFrame
    /\ stack' = [z \in OSThreads |->
           CASE z = x -> Append(calls, [at |-> "pump", p |-> p])
             [] z = y -> Append(Front(stack[y]), [Last(stack[y]) EXCEPT !.at = "push"])
             [] OTHER -> stack[z]]

\* StartMessageLoop starts the pump on x and lets at most one other thread go on.
LEMMA LoopStart ==
    ASSUME TypeInv, NEW x \in OSThreads, NEW p \in Pumps, NEW calls,
           At(x, "user") \/ At(x, "name"), StartMessageLoop(x, p, calls)
    PROVE  /\ started' = started \cup {p}
           /\ queue' = [queue EXCEPT ![p] = @ \cup {InitTask}]
           /\ \E y \in OSThreads \cup {None} : LoopStarted(x, p, calls, y)
<1> DEFINE blocked == {y \in OSThreads : At(y, "blocked") /\ Top(y).p = p}
           running == [stack EXCEPT ![x] = Append(calls, [at |-> "pump", p |-> p])]
<1>1. DOMAIN stack = OSThreads /\ stack = [z \in OSThreads |-> stack[z]]
  BY DEF TypeInv
<1>2. None # x
  BY ThreadAssumption, Zenon
<1>3. started' = started \cup {p} /\ queue' = [queue EXCEPT ![p] = @ \cup {InitTask}]
  BY Zenon DEF StartMessageLoop
<1>4. \/ stack' = running
      \/ \E y \in blocked : stack' = [running EXCEPT ![y] = Append(Front(@), [Top(y) EXCEPT !.at = "push"])]
  BY Zenon DEF StartMessageLoop
<1>5. CASE stack' = running
  <2>1. stack' = [z \in OSThreads |->
                    CASE z = x -> Append(calls, [at |-> "pump", p |-> p])
                      [] z = None -> Append(Front(stack[None]), [Last(stack[None]) EXCEPT !.at = "push"])
                      [] OTHER -> stack[z]]
    BY <1>1, <1>5, ThreadAssumption
  <2> QED
    BY <1>2, <1>3, <2>1, Zenon DEF LoopStarted
<1>6. ASSUME NEW y \in blocked,
             stack' = [running EXCEPT ![y] = Append(Front(@), [Top(y) EXCEPT !.at = "push"])]
      PROVE  y \in OSThreads /\ LoopStarted(x, p, calls, y)
  <2>1. y \in OSThreads /\ At(y, "blocked")
    BY <1>6
  <2>2. y # x
    BY <2>1 DEF At
  <2>3. stack[y] # <<>> /\ Top(y) = Last(stack[y]) /\ Top(y) \in Frame /\ Top(y).at = "blocked"
    BY <2>1, TopFacts
  <2>4. Last(stack[y]) \in PostFrame
    BY <2>3, FrameKinds DEF Posting
  <2>5. stack' = [z \in OSThreads |->
                    CASE z = x -> Append(calls, [at |-> "pump", p |-> p])
                      [] z = y -> Append(Front(stack[y]), [Top(y) EXCEPT !.at = "push"])
                      [] OTHER -> stack[z]]
    BY <1>1, <1>6, <2>1, <2>2
  <2>6. stack' = [z \in OSThreads |->
                    CASE z = x -> Append(calls, [at |-> "pump", p |-> p])
                      [] z = y -> Append(Front(stack[y]), [Last(stack[y]) EXCEPT !.at = "push"])
                      [] OTHER -> stack[z]]
    BY <2>3, <2>5
  <2> QED
    BY <2>1, <2>2, <2>3, <2>4, <2>6, Zenon DEF LoopStarted
<1>7. \E y \in OSThreads \cup {None} : LoopStarted(x, p, calls, y)
  BY <1>4, <1>5, <1>6
<1> QED
  BY <1>3, <1>7

---------------------------------------------------------------------------
(* Types.                                                                  *)

\* Calls and returns keep the type of the stacks.
LEMMA StackTypes ==
    ASSUME TypeInv, NEW x \in OSThreads
    PROVE  /\ \A f \in Frame : [stack EXCEPT ![x] = Append(@, f)] \in [OSThreads -> Seq(Frame)]
           /\ stack[x] # <<>> =>
                /\ [stack EXCEPT ![x] = Front(@)] \in [OSThreads -> Seq(Frame)]
                /\ \A f \in Frame : [stack EXCEPT ![x] = Append(Front(@), f)] \in [OSThreads -> Seq(Frame)]
                /\ \A f, g \in Frame :
                      [stack EXCEPT ![x] = Append(Append(Front(@), f), g)] \in [OSThreads -> Seq(Frame)]
<1>1. stack \in [OSThreads -> Seq(Frame)] /\ stack[x] \in Seq(Frame)
  BY Zenon DEF TypeInv
<1>2. \A f \in Frame : Append(stack[x], f) \in Seq(Frame)
  BY <1>1, AppendFacts
<1>3. ASSUME stack[x] # <<>>
      PROVE  /\ Front(stack[x]) \in Seq(Frame)
             /\ \A f \in Frame : Append(Front(stack[x]), f) \in Seq(Frame)
             /\ \A f, g \in Frame : Append(Append(Front(stack[x]), f), g) \in Seq(Frame)
  <2>1. Front(stack[x]) \in Seq(Frame)
    BY <1>1, <1>3, FrontFacts
  <2>2. \A f \in Frame : Append(Front(stack[x]), f) \in Seq(Frame)
    BY <2>1, AppendFacts
  <2>3. \A f, g \in Frame : Append(Append(Front(stack[x]), f), g) \in Seq(Frame)
    BY <2>2, AppendFacts
  <2> QED
    BY <2>1, <2>2, <2>3
<1> QED
  BY <1>1, <1>2, <1>3

LEMMA TypeInit == Init => TypeInv
<1> SUFFICES ASSUME Init PROVE TypeInv
  OBVIOUS
<1>1. InitTask \in Tasks /\ User(InitTask) \in Frame
  BY TaskFacts, MadeFrames, KindsAreFrames
<1>2. <<User(InitTask)>> \in Seq(Frame) /\ <<>> \in Seq(Frame)
  BY <1>1
<1>3. stack \in [OSThreads -> Seq(Frame)]
  BY <1>2 DEF Init
<1>4. DOMAIN eventHandlers = {} /\ expected \in Seq(SUBSET Handlers) /\ Len(expected) = 0
  BY DEF Init
<1>5. ran \in [Tasks -> Nat] /\ queue \in [Pumps -> SUBSET Tasks]
  BY DEF Init
<1>6. Len(expected) <= MaxTriggers
  BY <1>4, BoundAssumption
<1> QED
  BY <1>3, <1>4, <1>5, <1>6 DEF Init, TypeInv

LEMMA TypeRegister ==
    ASSUME TypeInv, NEW x \in OSThreads,
           \/ \E e \in Events : RegisterEvent(x, e)
           \/ \E h \in Handlers : RegisterEventHandler(x, h)
    PROVE  TypeInv'
<1>1. ASSUME NEW e \in Events, RegisterEvent(x, e) PROVE TypeInv'
  <2>1. PICK T : T = At0(eventHandlers, e)
    OBVIOUS
  <2>2. DOMAIN T \subseteq Events /\ \A d \in DOMAIN T : T[d] \in Seq(Handlers)
    <3>1. DOMAIN T = DOMAIN eventHandlers \cup {e} /\ (\A d \in DOMAIN eventHandlers : T[d] = eventHandlers[d])
          /\ (e \notin DOMAIN eventHandlers => T[e] = <<>>)
      BY <2>1 DEF At0
    <3>2. <<>> \in Seq(Handlers)
      OBVIOUS
    <3>3. DOMAIN eventHandlers \subseteq Events /\ \A d \in DOMAIN eventHandlers : eventHandlers[d] \in Seq(Handlers)
      BY Zenon DEF TypeInv
    <3> QED
      BY <3>1, <3>2, <3>3, Zenon
  <2>3. eventHandlers' = T
    BY <1>1, <2>1, Zenon DEF RegisterEvent
  <2> QED
    BY <1>1, <2>2, <2>3, Zenon
      DEF RegisterEvent, TypeInv, threadVars, dispatcherVars, pumpVars, deliveryVars
<1>2. ASSUME NEW h \in Handlers, RegisterEventHandler(x, h) PROVE TypeInv'
  <2>1. DOMAIN eventHandlers' \subseteq Events /\ \A d \in DOMAIN eventHandlers' : eventHandlers'[d] \in Seq(Handlers)
    <3>1. DOMAIN eventHandlers \subseteq Events /\ \A d \in DOMAIN eventHandlers : eventHandlers[d] \in Seq(Handlers)
      BY Zenon DEF TypeInv
    <3>2. CASE EventOf[h] \in DOMAIN eventHandlers
      <4>1. eventHandlers' = [eventHandlers EXCEPT ![EventOf[h]] = Append(@, h)]
        BY <1>2, <3>2, Zenon DEF RegisterEventHandler
      <4>2. Append(eventHandlers[EventOf[h]], h) \in Seq(Handlers)
        BY <3>1, <3>2, AppendFacts
      <4> QED
        BY <3>1, <3>2, <4>1, <4>2
    <3>3. CASE EventOf[h] \notin DOMAIN eventHandlers
      BY <1>2, <3>1, <3>3, Zenon DEF RegisterEventHandler
    <3> QED
      BY <3>2, <3>3
  <2>2. registered' \subseteq used' /\ used' \subseteq Handlers /\ raced' \subseteq Handlers
    BY <1>2 DEF RegisterEventHandler, TypeInv
  <2> QED
    BY <1>2, <2>1, <2>2, Zenon
      DEF RegisterEventHandler, TypeInv, threadVars, dispatcherVars, pumpVars, deliveryVars
<1> QED
  BY <1>1, <1>2

\* v holds the handlers of e but for h.
Without(v, e, h) ==
    /\ e \in DOMAIN eventHandlers => Range(v) = Range(eventHandlers[e]) \ {h}
    /\ e \notin DOMAIN eventHandlers => Range(v) = {}

\* What UnregisterEventHandler does, over typed data.
LEMMA UnregisterFacts ==
    ASSUME TypeInv, HubInv, NEW x \in OSThreads, NEW h \in Handlers, UnregisterEventHandler(x, h),
           NEW e, e = EventOf[h], NEW v, v = RemoveFirst(At0(eventHandlers, e)[e], h),
           NEW f, f = [at |-> "erase", e |-> e, h |-> h, handlers |-> v]
    PROVE  /\ e \in Events /\ v \in Seq(Handlers) /\ IsInjective(v)
           /\ Without(v, e, h)
           /\ f \in EraseFrame /\ f.at = "erase" /\ f.e = e /\ f.h = h /\ f.handlers = v
           /\ stack' = [stack EXCEPT ![x] = Append(@, f)]
           /\ eventHandlers' = At0(eventHandlers, e)
<1>1. e \in Events
  BY HandlerAssumption
<1>2. PICK u : u = At0(eventHandlers, e)[e]
  OBVIOUS
<1>3. CASE e \in DOMAIN eventHandlers
  <2>1. u = eventHandlers[e]
    BY <1>2, <1>3, At0Facts
  <2>2. u \in Seq(Handlers) /\ IsInjective(u)
    BY <1>3, <2>1, Zenon DEF TypeInv, HubInv, VectorOK
  <2>3. v \in Seq(Handlers) /\ IsInjective(v) /\ Range(v) = Range(eventHandlers[e]) \ {h}
    BY <1>2, <2>1, <2>2, RemoveFirstFacts
  <2> QED
    BY <1>3, <2>3, <1>1, MadeFrames, Zenon DEF UnregisterEventHandler, Push, Without
<1>4. CASE e \notin DOMAIN eventHandlers
  <2>1. u = <<>>
    BY <1>2, <1>4, At0Facts
  <2>2. u \in Seq(Handlers) /\ IsInjective(u) /\ Range(u) = {}
    BY <2>1 DEF IsInjective, Range
  <2>3. v \in Seq(Handlers) /\ IsInjective(v) /\ Range(v) = {}
    BY <1>2, <2>2, RemoveFirstFacts
  <2> QED
    BY <1>4, <2>3, <1>1, MadeFrames, Zenon DEF UnregisterEventHandler, Push, Without
<1> QED
  BY <1>3, <1>4

\* The types after the actions that touch the hub, on typed data.
LEMMA TypeHub ==
    ASSUME TypeInv, HubInv, NEW x \in OSThreads,
           \/ \E h \in Handlers : UnregisterEventHandler(x, h)
           \/ \E e \in Events : TriggerEvent(x, e)
           \/ StoreHandlers(x)
    PROVE  TypeInv'
<1>1. ASSUME NEW h \in Handlers, UnregisterEventHandler(x, h) PROVE TypeInv'
  <2>1. PICK e, v : e = EventOf[h] /\ v = RemoveFirst(At0(eventHandlers, e)[e], h)
    OBVIOUS
  <2>2. PICK f : f = [at |-> "erase", e |-> e, h |-> h, handlers |-> v]
    OBVIOUS
  <2>3. /\ e \in Events /\ f \in EraseFrame
        /\ stack' = [stack EXCEPT ![x] = Append(@, f)]
        /\ eventHandlers' = At0(eventHandlers, e)
    BY <1>1, <2>1, <2>2, UnregisterFacts
  <2>4. stack' \in [OSThreads -> Seq(Frame)]
    BY <2>3, StackTypes, KindsAreFrames
  <2>5. DOMAIN eventHandlers' \subseteq Events /\ \A d \in DOMAIN eventHandlers' : eventHandlers'[d] \in Seq(Handlers)
    <3>1. DOMAIN eventHandlers \subseteq Events /\ \A d \in DOMAIN eventHandlers : eventHandlers[d] \in Seq(Handlers)
      BY Zenon DEF TypeInv
    <3>2. <<>> \in Seq(Handlers)
      OBVIOUS
    <3> QED
      BY <2>3, <3>1, <3>2 DEF At0
  <2>6. removed' \subseteq Handlers
    BY <1>1 DEF UnregisterEventHandler, TypeInv
  <2>7. raced' \subseteq Handlers
    <3>1. Erasing(e) \subseteq Handlers
      <4> SUFFICES ASSUME NEW y \in OSThreads, NEW g \in Range(stack[y]), g.at = "erase" PROVE g.h \in Handlers
        BY Zenon DEF Erasing, Frames
      <4>1. g \in Frame
        BY RangeOfSeq, Zenon DEF TypeInv
      <4> QED
        BY <4>1, FrameKinds DEF EraseFrame
    <3>2. raced' \subseteq raced \cup Erasing(e) \cup {h}
      BY <1>1, <2>1, Zenon DEF UnregisterEventHandler
    <3>3. raced \subseteq Handlers
      BY Zenon DEF TypeInv
    <3> QED
      BY <3>1, <3>2, <3>3, Zenon
  <2> QED
    BY <1>1, <2>4, <2>5, <2>6, <2>7, Zenon
      DEF UnregisterEventHandler, TypeInv, threadVars, dispatcherVars, pumpVars, deliveryVars
<1>2. ASSUME NEW e \in Events, TriggerEvent(x, e) PROVE TypeInv'
  <2>1. eventHandlers[e] \in Seq(Handlers) /\ expected \in Seq(SUBSET Handlers) /\ Len(expected) < MaxTriggers
    BY <1>2, Zenon DEF TriggerEvent, TypeInv
  <2>2. Len(expected) + 1 \in 1 .. MaxTriggers
    BY <2>1, BoundAssumption
  <2>3. PICK f : f = [at |-> "loop", k |-> Len(expected) + 1, e |-> e, i |-> 1, handlers |-> eventHandlers[e]]
    OBVIOUS
  <2>4. f \in Frame
    BY <2>1, <2>2, <2>3, MadeFrames, KindsAreFrames
  <2>5. stack' \in [OSThreads -> Seq(Frame)]
    BY <1>2, <2>3, <2>4, StackTypes, Zenon DEF TriggerEvent, Push
  <2>6. PICK H : H = {h \in registered : EventOf[h] = e}
    OBVIOUS
  <2>7. H \in SUBSET Handlers
    BY <2>6 DEF TypeInv
  <2>8. expected' = Append(expected, H)
    BY <1>2, <2>6, Zenon DEF TriggerEvent
  <2>9. expected' \in Seq(SUBSET Handlers) /\ Len(expected') <= MaxTriggers
    BY <2>1, <2>2, <2>7, <2>8, AppendFacts
  <2> QED
    BY <1>2, <2>5, <2>9, Zenon
      DEF TriggerEvent, TypeInv, threadVars, dispatcherVars, pumpVars, hubVars
<1>3. ASSUME StoreHandlers(x) PROVE TypeInv'
  <2>1. At(x, "erase")
    BY <1>3, Zenon DEF StoreHandlers
  <2>2. PICK f : f = Top(x)
    OBVIOUS
  <2>3. f \in EraseFrame /\ stack[x] # <<>>
    BY <2>1, <2>2, TopFacts, FrameKinds
  <2>4. f.handlers \in Seq(Handlers) /\ f.e \in Events
    BY <2>3 DEF EraseFrame
  <2>5. stack' \in [OSThreads -> Seq(Frame)]
    BY <1>3, <2>3, StackTypes, Zenon DEF StoreHandlers, Return
  <2>6. eventHandlers' = [eventHandlers EXCEPT ![f.e] = f.handlers]
    BY <1>3, <2>2, Zenon DEF StoreHandlers
  <2>7. DOMAIN eventHandlers \subseteq Events /\ \A d \in DOMAIN eventHandlers : eventHandlers[d] \in Seq(Handlers)
    BY Zenon DEF TypeInv
  <2>8. DOMAIN eventHandlers' \subseteq Events /\ \A d \in DOMAIN eventHandlers' : eventHandlers'[d] \in Seq(Handlers)
    BY <2>4, <2>6, <2>7
  <2>9. registered' \subseteq used'
    BY <1>3 DEF StoreHandlers, TypeInv
  <2> QED
    BY <1>3, <2>5, <2>8, <2>9, Zenon
      DEF StoreHandlers, TypeInv, threadVars, dispatcherVars, pumpVars, deliveryVars
<1> QED
  BY <1>1, <1>2, <1>3

LEMMA TypeDispatch ==
    ASSUME TypeInv, NEW x \in OSThreads, DispatchEvent(x)
    PROVE  TypeInv'
<1>1. PICK f, g, t : f = Top(x) /\ g = Advanced(f) /\ t = Share(f)
  OBVIOUS
<1>2. PICK s : s = stack[x]
  OBVIOUS
<1>3. s # <<>>
  BY <1>2, Zenon DEF DispatchEvent, At
<1>4. f \in LoopFrame /\ g \in Frame
  BY <1>1, DispatchCases, LoopMoves, KindsAreFrames, Zenon DEF Advanced
<1>5. t \in EventTasks => t \in Tasks /\ User(t) \in Frame /\ \A p \in Pumps : PostMessageToThread(p, t) \in Frame
  BY TaskFacts, MadeFrames, KindsAreFrames
<1>6. stack' \in [OSThreads -> Seq(Frame)] /\ ran' \in [Tasks -> Nat] /\ dropped' \subseteq Tasks /\ crashed' \in BOOLEAN
  <2>1. stack \in [OSThreads -> Seq(Frame)] /\ ran \in [Tasks -> Nat] /\ dropped \subseteq Tasks /\ crashed \in BOOLEAN
    BY Zenon DEF TypeInv
  <2>2. CASE stack' = [stack EXCEPT ![x] = Front(@)] /\ UNCHANGED <<ran, dropped, crashed>>
    BY <1>2, <1>3, <2>1, <2>2, StackTypes, Zenon
  <2>3. CASE /\ t \in EventTasks
             /\ stack' = [stack EXCEPT ![x] = Append(Append(Front(stack[x]), g), User(t))]
             /\ ran' = [ran EXCEPT ![t] = @ + 1]
             /\ UNCHANGED <<dropped, crashed>>
    <3>1. stack' \in [OSThreads -> Seq(Frame)]
      BY <1>2, <1>3, <1>4, <1>5, <2>3, StackTypes, Zenon
    <3>2. ran' \in [Tasks -> Nat]
      BY <1>5, <2>1, <2>3
    <3> QED
      BY <2>1, <2>3, <3>1, <3>2, Zenon
  <2>4. ASSUME NEW p \in Pumps, t \in EventTasks,
               stack' = [stack EXCEPT ![x] = Append(Append(Front(stack[x]), g), PostMessageToThread(p, t))],
               UNCHANGED <<ran, dropped, crashed>>
        PROVE  stack' \in [OSThreads -> Seq(Frame)] /\ UNCHANGED <<ran, dropped, crashed>>
    BY <1>2, <1>3, <1>4, <1>5, <2>4, StackTypes, Zenon
  <2>5. CASE /\ t \in EventTasks
             /\ dropped' = dropped \cup {t}
             /\ stack' = [stack EXCEPT ![x] = Append(Front(stack[x]), g)]
             /\ UNCHANGED <<ran, crashed>>
    <3>1. stack' \in [OSThreads -> Seq(Frame)]
      BY <1>2, <1>3, <1>4, <2>5, StackTypes, Zenon
    <3>2. dropped' \subseteq Tasks
      BY <1>5, <2>1, <2>5
    <3> QED
      BY <2>1, <2>5, <3>1, <3>2, Zenon
  <2>6. CASE crashed' = TRUE /\ UNCHANGED <<stack, ran, dropped>>
    BY <2>1, <2>6, Zenon
  <2>7. \/ stack' = [stack EXCEPT ![x] = Front(@)] /\ UNCHANGED <<ran, dropped, crashed>>
        \/ /\ t \in EventTasks
           /\ stack' = [stack EXCEPT ![x] = Append(Append(Front(stack[x]), g), User(t))]
           /\ ran' = [ran EXCEPT ![t] = @ + 1]
           /\ UNCHANGED <<dropped, crashed>>
        \/ \E p \in Pumps :
              /\ t \in EventTasks
              /\ stack' = [stack EXCEPT ![x] = Append(Append(Front(stack[x]), g), PostMessageToThread(p, t))]
              /\ UNCHANGED <<ran, dropped, crashed>>
        \/ /\ t \in EventTasks
           /\ dropped' = dropped \cup {t}
           /\ stack' = [stack EXCEPT ![x] = Append(Front(stack[x]), g)]
           /\ UNCHANGED <<ran, crashed>>
        \/ crashed' = TRUE /\ UNCHANGED <<stack, ran, dropped>>
    <3>1. DispatchOutcome(x, f, g, t)
      BY <1>1, DispatchCases, Zenon
    <3> QED
      BY <3>1, Zenon DEF DispatchOutcome
  <2>8. CASE \E p \in Pumps :
                /\ t \in EventTasks
                /\ stack' = [stack EXCEPT ![x] = Append(Append(Front(stack[x]), g), PostMessageToThread(p, t))]
                /\ UNCHANGED <<ran, dropped, crashed>>
    BY <2>1, <2>4, <2>8, Zenon
  <2> QED
    BY <2>2, <2>3, <2>5, <2>6, <2>7, <2>8
<1> QED
  BY <1>6, Zenon DEF DispatchEvent, TypeInv, threadVars, dispatcherVars, pumpVars, hubVars

\* The types after the actions of posts and pumps.
LEMMA TypePumps ==
    ASSUME TypeInv, NEW x \in OSThreads,
           \/ HandlerReturns(x) \/ PostBlockerWait(x) \/ LockedPostTaskToQueue(x)
           \/ LockQueue(x) \/ RunTask(x) \/ UnlockQueue(x)
    PROVE  TypeInv'
<1>1. CASE HandlerReturns(x)
  <2>1. stack' \in [OSThreads -> Seq(Frame)]
    BY <1>1, StackTypes, Zenon DEF HandlerReturns, Return, At
  <2> QED
    BY <1>1, <2>1, Zenon
      DEF HandlerReturns, TypeInv, threadVars, dispatcherVars, pumpVars, hubVars, deliveryVars
<1>2. CASE PostBlockerWait(x)
  <2>1. At(x, "wait")
    BY <1>2, Zenon DEF PostBlockerWait
  <2>2. PICK f, g : f = Top(x) /\ g = [f EXCEPT !.at = "blocked"]
    OBVIOUS
  <2>3. stack[x] # <<>> /\ f \in PostFrame
    BY <2>1, <2>2, TopFacts, FrameKinds DEF Posting
  <2>4. g \in Frame
    BY <2>2, <2>3, PostMoves, KindsAreFrames DEF Posting
  <2>5. stack' \in [OSThreads -> Seq(Frame)]
    BY <1>2, <2>2, <2>3, <2>4, StackTypes, Zenon DEF PostBlockerWait, Goto
  <2> QED
    BY <1>2, <2>5, Zenon
      DEF PostBlockerWait, TypeInv, threadVars, dispatcherVars, pumpVars, hubVars, deliveryVars
<1>3. CASE LockedPostTaskToQueue(x)
  <2>1. At(x, "push")
    BY <1>3, Zenon DEF LockedPostTaskToQueue
  <2>2. PICK f : f = Top(x)
    OBVIOUS
  <2>3. stack[x] # <<>> /\ f \in PostFrame
    BY <2>1, <2>2, TopFacts, FrameKinds DEF Posting
  <2>4. f.p \in Pumps /\ f.task \in Tasks
    BY <2>3, TaskFacts DEF PostFrame
  <2>5. stack' \in [OSThreads -> Seq(Frame)]
    BY <1>3, <2>3, StackTypes, Zenon DEF LockedPostTaskToQueue, Return
  <2>6. queue' = [queue EXCEPT ![f.p] = @ \cup {f.task}]
    BY <1>3, <2>2, Zenon DEF LockedPostTaskToQueue
  <2>7. queue' \in [Pumps -> SUBSET Tasks]
    BY <2>4, <2>6 DEF TypeInv
  <2> QED
    BY <1>3, <2>5, <2>7, Zenon
      DEF LockedPostTaskToQueue, TypeInv, threadVars, dispatcherVars, hubVars, deliveryVars
<1>4. CASE LockQueue(x)
  <2>1. At(x, "pump")
    BY <1>4, Zenon DEF LockQueue
  <2>2. Top(x).p \in Pumps
    BY <2>1, TopFacts, FrameKinds DEF PumpFrame
  <2>3. queueGuard' \subseteq Pumps
    BY <1>4, <2>2 DEF LockQueue, TypeInv
  <2> QED
    BY <1>4, <2>3, Zenon
      DEF LockQueue, TypeInv, threadVars, dispatcherVars, hubVars, deliveryVars
<1>5. CASE RunTask(x)
  <2>1. At(x, "pump")
    BY <1>5, Zenon DEF RunTask
  <2>2. PICK p : p = Top(x).p
    OBVIOUS
  <2>3. p \in Pumps
    BY <2>1, <2>2, TopFacts, FrameKinds DEF PumpFrame
  <2>4. PICK t \in queue[p] :
           /\ queue' = [queue EXCEPT ![p] = @ \ {t}]
           /\ Push(x, User(t))
           /\ ran' = [ran EXCEPT ![t] = IF t = InitTask THEN @ ELSE @ + 1]
    BY <1>5, <2>2, Zenon DEF RunTask
  <2>5. t \in Tasks
    BY <2>3, <2>4 DEF TypeInv
  <2>6. User(t) \in Frame
    BY <2>5, MadeFrames, KindsAreFrames
  <2>7. stack' \in [OSThreads -> Seq(Frame)]
    BY <2>4, <2>6, StackTypes, Zenon DEF Push
  <2>8. queue' \in [Pumps -> SUBSET Tasks]
    BY <2>4 DEF TypeInv
  <2>9. ran' \in [Tasks -> Nat]
    <3>1. ran \in [Tasks -> Nat]
      BY Zenon DEF TypeInv
    <3>2. (IF t = InitTask THEN ran[t] ELSE ran[t] + 1) \in Nat
      BY <2>5, <3>1
    <3> QED
      BY <2>4, <3>1, <3>2
  <2> QED
    BY <1>5, <2>7, <2>8, <2>9, Zenon
      DEF RunTask, TypeInv, threadVars, dispatcherVars, hubVars
<1>6. CASE UnlockQueue(x)
  <2>1. queueGuard' \subseteq Pumps
    BY <1>6 DEF UnlockQueue, TypeInv
  <2> QED
    BY <1>6, <2>1, Zenon
      DEF UnlockQueue, TypeInv, threadVars, dispatcherVars, hubVars, deliveryVars
<1> QED
  BY <1>1, <1>2, <1>3, <1>4, <1>5, <1>6

\* A loop that starts keeps the types of what it changes.
LEMMA LoopStartTypes ==
    ASSUME TypeInv, NEW x \in OSThreads, NEW p \in Pumps, NEW calls \in Seq(Frame),
           At(x, "user") \/ At(x, "name"), StartMessageLoop(x, p, calls)
    PROVE  stack' \in [OSThreads -> Seq(Frame)] /\ started' \subseteq Pumps /\ queue' \in [Pumps -> SUBSET Tasks]
<1>1. PICK y \in OSThreads \cup {None} : LoopStarted(x, p, calls, y)
  BY LoopStart, Zenon
<1>2. [at |-> "pump", p |-> p] \in Frame
  BY MadeFrames, KindsAreFrames
<1>3. Append(calls, [at |-> "pump", p |-> p]) \in Seq(Frame)
  BY <1>2, AppendFacts
<1>4. stack \in [OSThreads -> Seq(Frame)]
  BY Zenon DEF TypeInv
<1>5. ASSUME y \in OSThreads
      PROVE  Append(Front(stack[y]), [Last(stack[y]) EXCEPT !.at = "push"]) \in Seq(Frame)
  <2>1. stack[y] # <<>> /\ Last(stack[y]) \in PostFrame /\ stack[y] \in Seq(Frame)
    BY <1>1, <1>4, <1>5, ThreadAssumption DEF LoopStarted
  <2>2. Front(stack[y]) \in Seq(Frame)
    BY <2>1, FrontFacts
  <2>3. [Last(stack[y]) EXCEPT !.at = "push"] \in Frame
    BY <2>1, PostMoves, KindsAreFrames DEF Posting
  <2> QED
    BY <2>2, <2>3, AppendFacts
<1>6. stack' \in [OSThreads -> Seq(Frame)]
  BY <1>1, <1>3, <1>4, <1>5 DEF LoopStarted
<1>7. started' \subseteq Pumps /\ queue' \in [Pumps -> SUBSET Tasks]
  <2>1. started' = started \cup {p} /\ queue' = [queue EXCEPT ![p] = @ \cup {InitTask}]
    BY LoopStart, Zenon
  <2> QED
    BY <2>1, TaskFacts DEF TypeInv
<1> QED
  BY <1>6, <1>7

\* Create gives x the call f, and d its first call g.
Born(x, d, f, g) ==
    stack' = [z \in OSThreads |->
                 CASE z = x -> Append(stack[x], f) [] z = d -> <<g>> [] OTHER -> stack[z]]

\* A Create pushes a frame on x and starts d.
LEMMA CreateFacts ==
    ASSUME TypeInv, NEW x \in OSThreads, NEW d \in Delegates, At(x, "user"), stack[d] = <<>>, Create(x, d),
           NEW f, f = [at |-> "create", d |-> d], NEW g, g = [at |-> "name", d |-> d]
    PROVE  /\ x # d /\ f \in BirthFrame /\ g \in BirthFrame /\ f.at = "create" /\ g.at = "name" /\ f.d = d /\ g.d = d
           /\ Born(x, d, f, g)
           /\ stack' \in [OSThreads -> Seq(Frame)]
           /\ threadHandle' = d /\ mixed' \subseteq Delegates
<1>1. x # d
  BY Zenon DEF At
<1>2. f \in BirthFrame /\ g \in BirthFrame /\ f.at = "create" /\ g.at = "name" /\ f.d = d /\ g.d = d
  BY MadeFrames
<1>3. d \in OSThreads /\ stack \in [OSThreads -> Seq(Frame)]
  BY Zenon DEF OSThreads, TypeInv
<1>4. stack' = [stack EXCEPT ![x] = Append(@, f), ![d] = <<g>>]
  BY Zenon DEF Create
<1>5. stack' = [z \in OSThreads |->
                 CASE z = x -> Append(stack[x], f) [] z = d -> <<g>> [] OTHER -> stack[z]]
  BY <1>1, <1>3, <1>4
<1>6. Append(stack[x], f) \in Seq(Frame) /\ <<g>> \in Seq(Frame)
  <2>1. f \in Frame /\ g \in Frame
    BY <1>2, KindsAreFrames
  <2> QED
    BY <1>3, <2>1, AppendFacts
<1>7. stack' \in [OSThreads -> Seq(Frame)]
  BY <1>3, <1>5, <1>6
<1>8. mixed' \subseteq Delegates
  <2>1. BeingCreated \subseteq Delegates
    <3> SUFFICES ASSUME NEW y \in OSThreads, NEW h \in Range(stack[y]), h.at \in {"create", "name"}
                 PROVE  h.d \in Delegates
      BY Zenon DEF BeingCreated, Frames
    <3>1. h \in Frame
      BY RangeOfSeq, Zenon DEF TypeInv
    <3> QED
      BY <3>1, FrameKinds DEF BirthFrame
  <2>2. mixed' \subseteq mixed \cup BeingCreated \cup {d}
    BY Zenon DEF Create
  <2> QED
    BY <2>1, <2>2, Zenon DEF TypeInv
<1> QED
  BY <1>1, <1>2, <1>5, <1>7, <1>8, Zenon DEF Create, Born

\* The types after the actions of runners and threads.
LEMMA TypeThreads ==
    ASSUME TypeInv, NEW x \in OSThreads,
           \/ \E r \in Runners : InitRunner(x, r) \/ StartRunner(x, r)
           \/ \E d \in Threads : NameThread(x, d) \/ StartThread(x, d)
           \/ \E d \in Workers : StartWorker(x, d)
           \/ CreateReturns(x) \/ ThreadStartFunction(x)
    PROVE  TypeInv'
<1>1. ASSUME NEW r \in Runners, InitRunner(x, r) PROVE TypeInv'
  <2>1. Id' \in [Runners \cup Delegates -> OSThreads \cup {None}] /\ namedDMPs' \subseteq Runners
    BY <1>1 DEF InitRunner, AddTaskRunner, TypeInv
  <2> QED
    BY <1>1, <2>1, Zenon DEF InitRunner, TypeInv, pumpVars, hubVars, deliveryVars
<1>2. ASSUME NEW r \in Runners, StartRunner(x, r) PROVE TypeInv'
  <2>1. At(x, "user") /\ StartMessageLoop(x, r, stack[x]) /\ r \in Pumps /\ stack[x] \in Seq(Frame)
    BY <1>2, Zenon DEF StartRunner, Pumps, TypeInv
  <2>2. stack' \in [OSThreads -> Seq(Frame)] /\ started' \subseteq Pumps /\ queue' \in [Pumps -> SUBSET Tasks]
    BY <2>1, LoopStartTypes, Zenon
  <2> QED
    BY <1>2, <2>2, Zenon DEF StartRunner, TypeInv, threadVars, dispatcherVars, hubVars, deliveryVars
<1>3. ASSUME NEW d \in Threads, NameThread(x, d) PROVE TypeInv'
  <2>1. namedThreads' \subseteq Threads
    BY <1>3 DEF NameThread, AddNamedThread, TypeInv
  <2> QED
    BY <1>3, <2>1, Zenon DEF NameThread, TypeInv, threadVars, pumpVars, hubVars, deliveryVars
<1>4. ASSUME NEW d \in Delegates, At(x, "user"), stack[d] = <<>>, Create(x, d),
             Id' = Id \/ Id' = [Id EXCEPT ![d] = x]
      PROVE  TypeInv'
  <2>1. stack' \in [OSThreads -> Seq(Frame)] /\ threadHandle' = d /\ mixed' \subseteq Delegates
    <3>1. PICK f, g : f = [at |-> "create", d |-> d] /\ g = [at |-> "name", d |-> d]
      OBVIOUS
    <3> QED
      BY <1>4, <3>1, CreateFacts
  <2>2. Id' \in [Runners \cup Delegates -> OSThreads \cup {None}]
    BY <1>4 DEF TypeInv
  <2>3. threadHandle' \in Delegates \cup {None}
    BY <2>1
  <2> QED
    BY <1>4, <2>1, <2>2, <2>3, Zenon DEF Create, TypeInv, dispatcherVars, pumpVars, hubVars, deliveryVars
<1>5. ASSUME NEW d \in Threads, StartThread(x, d) PROVE TypeInv'
  <2>1. d \in Delegates
    BY Zenon DEF Delegates
  <2> QED
    BY <1>4, <1>5, <2>1, Zenon DEF StartThread
<1>6. ASSUME NEW d \in Workers, StartWorker(x, d) PROVE TypeInv'
  <2>1. d \in Delegates
    BY Zenon DEF Delegates
  <2> QED
    BY <1>4, <1>6, <2>1, Zenon DEF StartWorker
<1>7. CASE CreateReturns(x)
  <2>1. At(x, "create")
    BY <1>7, Zenon DEF CreateReturns
  <2>2. stack[x] # <<>>
    BY <2>1, TopFacts
  <2>3. stack' \in [OSThreads -> Seq(Frame)]
    BY <1>7, <2>2, StackTypes, Zenon DEF CreateReturns, Return
  <2>4. threadHandle \in OSThreads \cup {None}
    BY DEF TypeInv, OSThreads
  <2>5. Id' \in [Runners \cup Delegates -> OSThreads \cup {None}]
    BY <1>7, <2>4 DEF CreateReturns, TypeInv
  <2> QED
    BY <1>7, <2>3, <2>5, Zenon DEF CreateReturns, TypeInv, dispatcherVars, pumpVars, hubVars, deliveryVars
<1>8. CASE ThreadStartFunction(x)
  <2>1. At(x, "name")
    BY <1>8, Zenon DEF ThreadStartFunction
  <2>2. stack[x] # <<>> /\ stack \in [OSThreads -> Seq(Frame)]
    BY <2>1, TopFacts, Zenon DEF TypeInv
  <2>3. x \in Delegates
    BY <1>8, Zenon DEF ThreadStartFunction, WorkerMain, ThreadMain, Delegates
  <2>4. osName' \in [OSThreads -> Delegates \cup {None}]
    <3>1. osName' = [osName EXCEPT ![threadHandle] = x]
      BY <1>8, Zenon DEF ThreadStartFunction, SetThreadName
    <3> QED
      BY <2>3, <3>1 DEF TypeInv
  <2>5. /\ stack' \in [OSThreads -> Seq(Frame)] /\ started' \subseteq Pumps
        /\ queue' \in [Pumps -> SUBSET Tasks] /\ crashed' \in BOOLEAN
    <3>1. CASE WorkerMain(x)
      <4>1. User(InitTask) \in Frame
        BY TaskFacts, MadeFrames, KindsAreFrames
      <4>2. stack' \in [OSThreads -> Seq(Frame)]
        BY <2>2, <3>1, <4>1, StackTypes, Zenon DEF WorkerMain, Goto
      <4> QED
        BY <3>1, <4>2, Zenon DEF WorkerMain, TypeInv
    <3>2. CASE ThreadMain(x)
      <4>1. x \in Pumps /\ <<>> \in Seq(Frame)
        BY <3>2 DEF ThreadMain, Pumps
      <4>2. CASE StartMessageLoop(x, x, <<>>) /\ UNCHANGED crashed
        <5>1. PICK c : c = <<>>
          OBVIOUS
        <5>2. c \in Seq(Frame) /\ StartMessageLoop(x, x, c)
          BY <4>1, <4>2, <5>1, Zenon
        <5> QED
          BY <2>1, <4>1, <4>2, <5>2, LoopStartTypes, Zenon DEF TypeInv
      <4>3. CASE crashed' = TRUE /\ UNCHANGED <<stack, started, queue>>
        BY <4>3, Zenon DEF TypeInv
      <4> QED
        BY <3>2, <4>2, <4>3, Zenon DEF ThreadMain
    <3> QED
      BY <1>8, <3>1, <3>2, Zenon DEF ThreadStartFunction
  <2> QED
    BY <1>8, <2>4, <2>5, Zenon DEF ThreadStartFunction, TypeInv, dispatcherVars, hubVars, deliveryVars
<1> QED
  BY <1>1, <1>2, <1>3, <1>5, <1>6, <1>7, <1>8

LEMMA TypeStep ==
    ASSUME TypeInv, HubInv, [Next]_vars
    PROVE  TypeInv'
<1>1. ASSUME NEW x \in OSThreads, Calls(x) \/ Runs(x) PROVE TypeInv'
  BY <1>1, TypeRegister, TypeHub, TypeDispatch, TypePumps, TypeThreads, Zenon DEF Calls, Runs
<1>2. CASE UNCHANGED vars
  BY <1>2, Zenon
    DEF vars, TypeInv, threadVars, dispatcherVars, pumpVars, hubVars, deliveryVars
<1> QED
  BY <1>1, <1>2, Zenon DEF Next

---------------------------------------------------------------------------
(* Threads.                                                                *)

LEMMA RangeTyped ==
    ASSUME TypeInv, NEW x \in OSThreads, NEW f \in Range(stack[x])
    PROVE  f \in Frame /\ f \in Frames
<1>1. stack[x] \in Seq(Frame)
  BY Zenon DEF TypeInv
<1>2. Range(stack[x]) \in SUBSET Frame
  BY <1>1, RangeOfSeq
<1> QED
  BY <1>2, Zenon DEF Frames

\* A thread that is being named is in no other call.
LEMMA NameAlone ==
    ASSUME ThreadInv, NEW x \in OSThreads, NEW f \in Range(stack[x]), f.at = "name"
    PROVE  stack[x] = <<f>> /\ Range(stack[x]) = {f}
<1>1. stack[x] = <<f>>
  BY Zenon DEF ThreadInv
<1>2. Range(<<f>>) = {f}
  BY DEF Range
<1> QED
  BY <1>1, <1>2, Zenon

LEMMA BirthsFacts ==
    /\ BeingCreated = {f.d : f \in Births}
    /\ BeingCreated' = {f.d : f \in Births'}
BY Zenon DEF BeingCreated, Births

\* s2 is the stack of x after a step that takes at most the last call off and puts the
\* calls of N on it, none of them a birth.
Regular(x, s2, N) ==
    /\ stack[x] # <<>> /\ s2 \in Seq(Frame)
    /\ stack' = [stack EXCEPT ![x] = s2]
    /\ Range(s2) \subseteq Range(stack[x]) \cup N
    /\ Range(stack[x]) \subseteq Range(s2) \cup {Last(stack[x])}
    /\ Last(stack[x]).at \notin {"create", "name"}
    /\ \A f \in N : f \in Frame /\ f.at \notin {"create", "name"}

\* What such a step keeps, and the new calls.
Kept(new) ==
    /\ Births' = Births
    /\ \A y \in OSThreads : stack[y] = <<>> => stack'[y] = <<>>
    /\ \A y \in OSThreads : \A f \in Range(stack'[y]) : f \in Range(stack[y]) \/ <<y, f>> \in new
    /\ \A y \in OSThreads : \A f \in Range(stack'[y]) : f.at = "name" => stack'[y] = <<f>>

LEMMA RegularKept ==
    ASSUME TypeInv, ThreadInv, NEW x \in OSThreads, NEW s2, NEW N, Regular(x, s2, N)
    PROVE  Kept({x} \X N)
<1>1. stack \in [OSThreads -> Seq(Frame)]
  BY Zenon DEF TypeInv
<1>2. stack' = [stack EXCEPT ![x] = s2] /\ stack[x] # <<>>
  BY Zenon DEF Regular
<1>3. \A y \in OSThreads : stack'[y] = IF y = x THEN s2 ELSE stack[y]
  BY <1>1, <1>2
<1>4. Range(s2) \subseteq Range(stack[x]) \cup N
  BY Zenon DEF Regular
<1>5. Last(stack[x]) \in Range(stack[x])
  BY <1>1, <1>2, FrontRange
<1>6. ASSUME NEW y \in OSThreads, NEW f \in Range(stack'[y]), f.at \in {"create", "name"}
      PROVE  f \in Range(stack[y])
  <2>1. CASE y = x
    <3>1. f \in Range(stack[x]) \cup N
      BY <1>3, <1>4, <1>6, <2>1, Zenon
    <3>2. f \notin N
      BY <1>6, Zenon DEF Regular
    <3> QED
      BY <2>1, <3>1, <3>2, Zenon
  <2> QED
    BY <1>3, <1>6, <2>1, Zenon
<1>7. ASSUME NEW y \in OSThreads, NEW f \in Range(stack[y]), f.at \in {"create", "name"}
      PROVE  f \in Range(stack'[y])
  <2>1. CASE y = x
    <3>1. f \in Range(s2) \cup {Last(stack[x])} /\ f # Last(stack[x])
      BY <1>7, <2>1, Zenon DEF Regular
    <3> QED
      BY <1>3, <2>1, <3>1, Zenon
  <2> QED
    BY <1>3, <1>7, <2>1, Zenon
<1>8. Births' = Births
  <2>1. ASSUME NEW f \in Births' PROVE f \in Births
    <3>1. PICK y \in OSThreads : f \in Range(stack'[y]) /\ f.at \in {"create", "name"}
      BY <2>1, Zenon DEF Births, Frames
    <3> QED
      BY <1>6, <3>1, Zenon DEF Births, Frames
  <2>2. ASSUME NEW f \in Births PROVE f \in Births'
    <3>1. PICK y \in OSThreads : f \in Range(stack[y]) /\ f.at \in {"create", "name"}
      BY <2>2, Zenon DEF Births, Frames
    <3> QED
      BY <1>7, <3>1, Zenon DEF Births, Frames
  <2> QED
    BY <2>1, <2>2, Zenon
<1>9. \A y \in OSThreads : stack[y] = <<>> => stack'[y] = <<>>
  BY <1>2, <1>3
<1>10. ASSUME NEW y \in OSThreads, NEW f \in Range(stack'[y])
       PROVE  f \in Range(stack[y]) \/ <<y, f>> \in {x} \X N
  BY <1>3, <1>4, <1>10
<1>11. ASSUME NEW y \in OSThreads, NEW f \in Range(stack'[y]), f.at = "name"
       PROVE  stack'[y] = <<f>>
  <2>1. f \in Range(stack[y])
    BY <1>6, <1>11
  <2>2. stack[y] = <<f>> /\ Range(stack[y]) = {f}
    BY <1>11, <2>1, NameAlone, Zenon
  <2>3. y # x
    <3> SUFFICES ASSUME y = x PROVE FALSE
      OBVIOUS
    <3>1. Last(stack[x]) = f
      BY <1>5, <2>2
    <3> QED
      BY <1>11, <3>1, Zenon DEF Regular
  <2> QED
    BY <1>3, <2>2, <2>3, Zenon
<1> QED
  BY <1>8, <1>9, <1>10, <1>11, Zenon DEF Kept

\* The threads' data may grow ...
Grows ==
    /\ started \subseteq started' /\ namedDMPs \subseteq namedDMPs' /\ namedThreads \subseteq namedThreads'
    /\ queueGuard' \subseteq started'
    /\ UNCHANGED <<threadHandle, osName, mixed>>
    /\ \A o \in Runners \cup Delegates : Id[o] # None => Id'[o] = Id[o]
    /\ \A r \in Runners : Id'[r] # None => r \in namedDMPs'
    /\ \A p \in Pumps : \A t \in queue'[p] :
          t \in queue[p] \/ t = InitTask \/ (t.h \in AsTask /\ Owner[t.h] = p)

\* ... what is so of a call stays so ...
LEMMA CallOKKept ==
    ASSUME TypeInv, NEW x \in OSThreads, NEW f, CallOK(x, f),
           started \subseteq started', namedThreads \subseteq namedThreads',
           \A r \in Runners : Id[r] # None => Id'[r] = Id[r]
    PROVE  CallOK(x, f)'
<1>1. x # None
  BY ThreadAssumption
<1>2. \A p : RunsOn(p, x) => RunsOn(p, x)'
  BY <1>1, Zenon DEF RunsOn
<1> QED
  BY <1>2, Zenon DEF CallOK

\* ... and a step that keeps the calls and lets the data grow keeps the invariant.
LEMMA ThreadKept ==
    ASSUME TypeInv, ThreadInv, NEW new, Kept(new), Grows,
           \A y \in OSThreads : \A f : <<y, f>> \in new => CallOK(y, f)'
    PROVE  ThreadInv'
<1>1. ASSUME NEW x \in OSThreads, NEW f \in Range(stack'[x]) PROVE CallOK(x, f)'
  <2>1. CASE f \in Range(stack[x])
    <3>1. CallOK(x, f)
      BY <2>1, Zenon DEF ThreadInv
    <3>2. /\ started \subseteq started' /\ namedThreads \subseteq namedThreads'
          /\ \A r \in Runners : Id[r] # None => Id'[r] = Id[r]
      BY Zenon DEF Grows
    <3> QED
      BY <3>1, <3>2, CallOKKept
  <2> QED
    BY <1>1, <2>1, Zenon DEF Kept
<1>2. ASSUME NEW p \in Pumps, NEW t \in queue'[p]
      PROVE  t = InitTask \/ (t.h \in AsTask /\ Owner[t.h] = p)
  BY <1>2, Zenon DEF Grows, ThreadInv
<1>3. BeingCreated' = BeingCreated /\ \A w, d : InCall(w, d)' <=> InCall(w, d)
  BY BirthsFacts, Zenon DEF Kept, InCall
<1>4. \A d \in Threads \cup Delegates : d \in OSThreads
  BY DEF OSThreads, Delegates
<1>5. ASSUME NEW d \in Threads \ mixed', stack'[d] # <<>> PROVE Id'[d] = d \/ InCall("create", d)'
  <2>1. d \in Threads \ mixed /\ stack[d] # <<>> /\ d \in Delegates
    BY <1>4, <1>5, Zenon DEF Grows, Kept, Delegates
  <2>2. Id[d] = d \/ InCall("create", d)
    BY <2>1, Zenon DEF ThreadInv
  <2>3. d # None
    BY <1>4, <2>1, ThreadAssumption
  <2> QED
    BY <1>3, <2>1, <2>2, <2>3, Zenon DEF Grows
<1>6. ASSUME NEW d \in Delegates \ mixed', stack'[d] # <<>> PROVE osName'[d] = d \/ InCall("name", d)'
  <2>1. d \in Delegates \ mixed /\ stack[d] # <<>>
    BY <1>4, <1>6, Zenon DEF Grows, Kept
  <2>2. osName[d] = d \/ InCall("name", d)
    BY <2>1, Zenon DEF ThreadInv
  <2> QED
    BY <1>3, <2>2, Zenon DEF Grows
<1>7. BeingCreated' \subseteq {threadHandle'} \/ BeingCreated' \cup {threadHandle'} \subseteq mixed'
  BY <1>3, Zenon DEF Grows, ThreadInv
<1>8. queueGuard' \subseteq started' /\ \A r \in Runners : Id'[r] # None => r \in namedDMPs'
  BY Zenon DEF Grows
<1>9. \A y \in OSThreads : \A f \in Range(stack'[y]) : f.at = "name" => stack'[y] = <<f>>
  BY Zenon DEF Kept
<1> QED
  BY <1>1, <1>2, <1>5, <1>6, <1>7, <1>8, <1>9, Zenon DEF ThreadInv

Plain(f) == f \in Frame /\ f.at \notin {"create", "name"}

\* Calls, returns and moves of a thread that no Create is part of.
LEMMA RegularOps ==
    ASSUME TypeInv, NEW x \in OSThreads, stack[x] # <<>>, Plain(Last(stack[x]))
    PROVE  /\ UNCHANGED stack => Regular(x, stack[x], {})
           /\ \A f : Plain(f) /\ stack' = [stack EXCEPT ![x] = Append(@, f)]
                        => Regular(x, Append(stack[x], f), {f})
           /\ stack' = [stack EXCEPT ![x] = Front(@)] => Regular(x, Front(stack[x]), {})
           /\ \A f : Plain(f) /\ stack' = [stack EXCEPT ![x] = Append(Front(@), f)]
                        => Regular(x, Append(Front(stack[x]), f), {f})
           /\ \A f, g : Plain(f) /\ Plain(g) /\ stack' = [stack EXCEPT ![x] = Append(Append(Front(@), f), g)]
                        => Regular(x, Append(Append(Front(stack[x]), f), g), {f, g})
<1>1. stack[x] \in Seq(Frame)
  BY Zenon DEF TypeInv
<1>2. PICK s, c : s = stack[x] /\ c = Front(s)
  OBVIOUS
<1>3. c \in Seq(Frame) /\ Range(s) = Range(c) \cup {Last(s)}
  BY <1>1, <1>2, FrontFacts, FrontRange
<1>4. Last(s).at \notin {"create", "name"}
  BY <1>2, Zenon DEF Plain
<1>5. UNCHANGED stack => Regular(x, s, {})
  <2>1. stack = [stack EXCEPT ![x] = s]
    BY <1>2 DEF TypeInv
  <2> QED
    BY <1>1, <1>2, <1>4, <2>1, Zenon DEF Regular
<1>6. ASSUME NEW f, Plain(f), stack' = [stack EXCEPT ![x] = Append(s, f)]
      PROVE  Regular(x, Append(s, f), {f})
  <2>1. f \in Frame /\ f.at \notin {"create", "name"}
    BY <1>6, Zenon DEF Plain
  <2>2. Append(s, f) \in Seq(Frame) /\ Range(Append(s, f)) = Range(s) \cup {f}
    BY <1>1, <1>2, <2>1, AppendFacts, AppendRange
  <2> QED
    BY <1>2, <1>4, <1>6, <2>1, <2>2, Zenon DEF Regular
<1>7. stack' = [stack EXCEPT ![x] = c] => Regular(x, c, {})
  BY <1>2, <1>3, <1>4, Zenon DEF Regular
<1>8. ASSUME NEW f, Plain(f), stack' = [stack EXCEPT ![x] = Append(c, f)]
      PROVE  Regular(x, Append(c, f), {f})
  <2>1. f \in Frame /\ f.at \notin {"create", "name"}
    BY <1>8, Zenon DEF Plain
  <2>2. Append(c, f) \in Seq(Frame) /\ Range(Append(c, f)) = Range(c) \cup {f}
    BY <1>3, <2>1, AppendFacts, AppendRange
  <2> QED
    BY <1>2, <1>3, <1>4, <1>8, <2>1, <2>2, Zenon DEF Regular
<1>9. ASSUME NEW f, NEW g, Plain(f), Plain(g), stack' = [stack EXCEPT ![x] = Append(Append(c, f), g)]
      PROVE  Regular(x, Append(Append(c, f), g), {f, g})
  <2>1. f \in Frame /\ f.at \notin {"create", "name"} /\ g \in Frame /\ g.at \notin {"create", "name"}
    BY <1>9, Zenon DEF Plain
  <2>2. Append(c, f) \in Seq(Frame) /\ Range(Append(c, f)) = Range(c) \cup {f}
    BY <1>3, <2>1, AppendFacts, AppendRange
  <2>3. Append(Append(c, f), g) \in Seq(Frame) /\ Range(Append(Append(c, f), g)) = Range(Append(c, f)) \cup {g}
    <3>1. PICK d : d = Append(c, f)
      OBVIOUS
    <3>2. d \in Seq(Frame)
      BY <2>2, <3>1, Zenon
    <3>3. Append(d, g) \in Seq(Frame) /\ Range(Append(d, g)) = Range(d) \cup {g}
      BY <2>1, <3>2, AppendFacts, AppendRange
    <3> QED
      BY <3>1, <3>3, Zenon
  <2> QED
    BY <1>2, <1>3, <1>4, <1>9, <2>1, <2>2, <2>3, Zenon DEF Regular
<1> QED
  BY <1>2, <1>5, <1>6, <1>7, <1>8, <1>9

\* Every kind of call but a birth is plain.
LEMMA PlainKinds ==
    /\ \A f \in UserFrame : f.at = "user" /\ Plain(f)
    /\ \A f \in EraseFrame : f.at = "erase" /\ Plain(f)
    /\ \A f \in LoopFrame : f.at = "loop" /\ Plain(f)
    /\ \A f \in PostFrame : f.at \in Posting /\ Plain(f)
    /\ \A f \in PumpFrame : f.at = "pump" /\ Plain(f)
BY KindsAreFrames DEF Plain, Frame, UserFrame, EraseFrame, LoopFrame, PostFrame, PumpFrame, BirthFrame, Posting

\* A thread in a call that is no birth.
LEMMA PlainTop ==
    ASSUME TypeInv, NEW x \in OSThreads, NEW where, At(x, where), where \notin {"create", "name"}
    PROVE  stack[x] # <<>> /\ Plain(Last(stack[x]))
BY TopFacts DEF Plain

\* The data of the threads do not change.
LEMMA GrowsSame ==
    ASSUME TypeInv, ThreadInv, UNCHANGED <<started, namedDMPs, namedThreads, queueGuard, threadHandle, osName, mixed, Id, queue>>
    PROVE  Grows
BY Zenon DEF Grows, ThreadInv

\* A step of x that only moves plain calls, each of which may be made.
LEMMA ThreadPlain ==
    ASSUME TypeInv, ThreadInv, NEW x \in OSThreads, NEW s2, NEW N, Regular(x, s2, N), Grows,
           \A f \in N : CallOK(x, f)'
    PROVE  ThreadInv'
<1>1. PICK new : new = {x} \X N
  OBVIOUS
<1>2. Kept(new)
  BY <1>1, RegularKept, Zenon
<1>3. \A y \in OSThreads : \A f : <<y, f>> \in new => CallOK(y, f)'
  <2> SUFFICES ASSUME NEW y \in OSThreads, NEW f, <<y, f>> \in new PROVE CallOK(y, f)'
    OBVIOUS
  <2>1. y = x /\ f \in N
    BY <1>1
  <2> QED
    BY <2>1, Zenon
<1> QED
  BY <1>2, <1>3, ThreadKept, Zenon

\* A loop's or an erasing frame says nothing of its thread.
LEMMA CallOKPlain ==
    ASSUME NEW x, NEW f, f.at \in {"erase", "loop"}
    PROVE  CallOK(x, f)'
BY DEF CallOK, Posting

LEMMA ThreadHub ==
    ASSUME TypeInv, ThreadInv, HubInv, NEW x \in OSThreads,
           \/ \E e \in Events : RegisterEvent(x, e)
           \/ \E h \in Handlers : RegisterEventHandler(x, h)
           \/ \E h \in Handlers : UnregisterEventHandler(x, h)
           \/ \E e \in Events : TriggerEvent(x, e)
           \/ StoreHandlers(x)
    PROVE  ThreadInv'
<1>1. ASSUME \/ \E e \in Events : RegisterEvent(x, e)
             \/ \E h \in Handlers : RegisterEventHandler(x, h)
      PROVE  ThreadInv'
  <2>1. At(x, "user") /\ UNCHANGED stack
    BY <1>1, Zenon DEF RegisterEvent, RegisterEventHandler
  <2>2. Regular(x, stack[x], {})
    BY <2>1, PlainTop, RegularOps
  <2>3. Grows
    BY <1>1, GrowsSame, Zenon
      DEF RegisterEvent, RegisterEventHandler, threadVars, dispatcherVars, pumpVars
  <2> QED
    BY <2>2, <2>3, ThreadPlain
<1>2. ASSUME NEW h \in Handlers, UnregisterEventHandler(x, h) PROVE ThreadInv'
  <2>1. PICK e, v : e = EventOf[h] /\ v = RemoveFirst(At0(eventHandlers, e)[e], h)
    OBVIOUS
  <2>2. PICK f : f = [at |-> "erase", e |-> e, h |-> h, handlers |-> v]
    OBVIOUS
  <2>3. f \in EraseFrame /\ f.at = "erase" /\ stack' = [stack EXCEPT ![x] = Append(@, f)]
    BY <1>2, <2>1, <2>2, UnregisterFacts
  <2>4. At(x, "user")
    BY <1>2, Zenon DEF UnregisterEventHandler
  <2>5. Regular(x, Append(stack[x], f), {f})
    BY <2>3, <2>4, PlainTop, RegularOps, PlainKinds
  <2>6. Grows
    BY <1>2, GrowsSame, Zenon DEF UnregisterEventHandler, threadVars, dispatcherVars, pumpVars
  <2> QED
    BY <2>3, <2>5, <2>6, ThreadPlain, CallOKPlain
<1>3. ASSUME NEW e \in Events, TriggerEvent(x, e) PROVE ThreadInv'
  <2>1. PICK f : f = [at |-> "loop", k |-> Len(expected) + 1, e |-> e, i |-> 1, handlers |-> eventHandlers[e]]
    OBVIOUS
  <2>2. f \in LoopFrame /\ f.at = "loop"
    <3>1. eventHandlers[e] \in Seq(Handlers) /\ expected \in Seq(SUBSET Handlers) /\ Len(expected) < MaxTriggers
      BY <1>3, Zenon DEF TriggerEvent, TypeInv
    <3>2. Len(expected) + 1 \in 1 .. MaxTriggers
      BY <3>1, BoundAssumption
    <3> QED
      BY <2>1, <3>1, <3>2, MadeFrames
  <2>3. At(x, "user") /\ stack' = [stack EXCEPT ![x] = Append(@, f)]
    BY <1>3, <2>1, Zenon DEF TriggerEvent, Push
  <2>4. Regular(x, Append(stack[x], f), {f})
    BY <2>2, <2>3, PlainTop, RegularOps, PlainKinds
  <2>5. Grows
    BY <1>3, GrowsSame, Zenon DEF TriggerEvent, threadVars, dispatcherVars, pumpVars
  <2> QED
    BY <2>2, <2>4, <2>5, ThreadPlain, CallOKPlain
<1>4. CASE StoreHandlers(x)
  <2>1. At(x, "erase") /\ stack' = [stack EXCEPT ![x] = Front(@)]
    BY <1>4, Zenon DEF StoreHandlers, Return
  <2>2. Regular(x, Front(stack[x]), {})
    BY <2>1, PlainTop, RegularOps
  <2>3. Grows
    BY <1>4, GrowsSame, Zenon DEF StoreHandlers, threadVars, dispatcherVars, pumpVars
  <2> QED
    BY <2>2, <2>3, ThreadPlain
<1> QED
  BY <1>1, <1>2, <1>3, <1>4

LEMMA ThreadDispatch ==
    ASSUME TypeInv, ThreadInv, NEW x \in OSThreads, DispatchEvent(x)
    PROVE  ThreadInv'
<1>1. PICK f, g, t : f = Top(x) /\ g = Advanced(f) /\ t = Share(f)
  OBVIOUS
<1>2. f \in LoopFrame /\ DispatchOutcome(x, f, g, t)
  BY <1>1, DispatchCases, Zenon
<1>3. g \in LoopFrame /\ g.at = "loop" /\ Plain(g)
  BY <1>1, <1>2, LoopMoves, PlainKinds DEF Advanced
<1>4. stack[x] # <<>> /\ Plain(Last(stack[x]))
  BY PlainTop DEF DispatchEvent
<1>5. Grows
  BY GrowsSame, Zenon DEF DispatchEvent, threadVars, dispatcherVars, pumpVars
<1>6. CallOK(x, g)'
  BY <1>3, CallOKPlain
<1>7. CASE stack' = [stack EXCEPT ![x] = Front(@)]
  <2>1. Regular(x, Front(stack[x]), {})
    BY <1>4, <1>7, RegularOps
  <2> QED
    BY <1>5, <2>1, ThreadPlain
<1>8. CASE /\ t \in EventTasks /\ t.h \notin AsTask
           /\ stack' = [stack EXCEPT ![x] = Append(Append(Front(stack[x]), g), User(t))]
  <2>1. PICK u : u = User(t)
    OBVIOUS
  <2>2. u \in UserFrame /\ u.at = "user" /\ u.task = t
    BY <1>8, <2>1, MadeFrames, TaskFacts
  <2>3. Regular(x, Append(Append(Front(stack[x]), g), u), {g, u})
    BY <1>3, <1>4, <1>8, <2>1, <2>2, RegularOps, PlainKinds
  <2>4. CallOK(x, u)'
    BY <1>8, <2>2 DEF CallOK, Posting
  <2>5. \A n \in {g, u} : CallOK(x, n)'
    BY <1>6, <2>4, Zenon
  <2> QED
    BY <1>5, <2>3, <2>5, ThreadPlain, Zenon
<1>9. ASSUME NEW p \in Pumps, t \in EventTasks, t.h \in AsTask, Owner[t.h] = p,
             stack' = [stack EXCEPT ![x] = Append(Append(Front(stack[x]), g), PostMessageToThread(p, t))]
      PROVE  ThreadInv'
  <2>1. PICK u : u = PostMessageToThread(p, t)
    OBVIOUS
  <2>2. u \in PostFrame /\ u.at \in Posting /\ u.p = p /\ u.task = t
    BY <1>9, <2>1, MadeFrames
  <2>3. Regular(x, Append(Append(Front(stack[x]), g), u), {g, u})
    BY <1>3, <1>4, <1>9, <2>1, <2>2, RegularOps, PlainKinds
  <2>4. CallOK(x, u)'
    BY <1>9, <2>2 DEF CallOK, Posting
  <2>5. \A n \in {g, u} : CallOK(x, n)'
    BY <1>6, <2>4, Zenon
  <2> QED
    BY <1>5, <2>3, <2>5, ThreadPlain, Zenon
<1>10. CASE stack' = [stack EXCEPT ![x] = Append(Front(stack[x]), g)]
  <2>1. Regular(x, Append(Front(stack[x]), g), {g})
    BY <1>3, <1>4, <1>10, RegularOps
  <2>2. \A n \in {g} : CallOK(x, n)'
    BY <1>6, Zenon
  <2> QED
    BY <1>5, <2>1, <2>2, ThreadPlain, Zenon
<1>11. CASE UNCHANGED stack
  <2>1. Regular(x, stack[x], {})
    BY <1>4, <1>11, RegularOps
  <2> QED
    BY <1>5, <2>1, ThreadPlain
<1>12. \/ stack' = [stack EXCEPT ![x] = Front(@)]
       \/ /\ t \in EventTasks /\ t.h \notin AsTask
          /\ stack' = [stack EXCEPT ![x] = Append(Append(Front(stack[x]), g), User(t))]
       \/ \E p \in Pumps :
             /\ t \in EventTasks /\ t.h \in AsTask /\ Owner[t.h] = p
             /\ stack' = [stack EXCEPT ![x] = Append(Append(Front(stack[x]), g), PostMessageToThread(p, t))]
       \/ stack' = [stack EXCEPT ![x] = Append(Front(stack[x]), g)]
       \/ UNCHANGED stack
  BY <1>2, Zenon DEF DispatchOutcome
<1> QED
  BY <1>7, <1>8, <1>9, <1>10, <1>11, <1>12

LEMMA ThreadPumps ==
    ASSUME TypeInv, ThreadInv, NEW x \in OSThreads,
           \/ HandlerReturns(x) \/ PostBlockerWait(x) \/ LockedPostTaskToQueue(x)
           \/ LockQueue(x) \/ RunTask(x) \/ UnlockQueue(x)
    PROVE  ThreadInv'
<1>1. CASE HandlerReturns(x)
  <2>1. At(x, "user") /\ stack' = [stack EXCEPT ![x] = Front(@)]
    BY <1>1, Zenon DEF HandlerReturns, Return
  <2>2. Regular(x, Front(stack[x]), {})
    BY <2>1, PlainTop, RegularOps
  <2>3. Grows
    BY <1>1, GrowsSame, Zenon DEF HandlerReturns, threadVars, dispatcherVars, pumpVars
  <2> QED
    BY <2>2, <2>3, ThreadPlain
<1>2. CASE PostBlockerWait(x)
  <2>1. At(x, "wait")
    BY <1>2, Zenon DEF PostBlockerWait
  <2>2. PICK f, g : f = Top(x) /\ g = [f EXCEPT !.at = "blocked"]
    OBVIOUS
  <2>3. f \in PostFrame /\ f.at \in Posting /\ f \in Range(stack[x])
    BY <2>1, <2>2, TopFacts, FrameKinds DEF Posting
  <2>4. g \in PostFrame /\ g.at = "blocked" /\ g.p = f.p /\ g.task = f.task
    BY <2>2, <2>3, PostMoves DEF Posting
  <2>5. stack' = [stack EXCEPT ![x] = Append(Front(@), g)]
    BY <1>2, <2>2, Zenon DEF PostBlockerWait, Goto
  <2>6. Regular(x, Append(Front(stack[x]), g), {g})
    BY <2>1, <2>4, <2>5, PlainTop, RegularOps, PlainKinds
  <2>7. Grows
    BY <1>2, GrowsSame, Zenon DEF PostBlockerWait, threadVars, dispatcherVars, pumpVars
  <2>8. f.task.h \in AsTask /\ Owner[f.task.h] = f.p
    BY <2>3, Zenon DEF ThreadInv, CallOK
  <2>9. CallOK(x, g)'
    BY <2>4, <2>8 DEF CallOK, Posting
  <2>10. \A n \in {g} : CallOK(x, n)'
    BY <2>9, Zenon
  <2> QED
    BY <2>6, <2>7, <2>10, ThreadPlain, Zenon
<1>3. CASE LockedPostTaskToQueue(x)
  <2>1. At(x, "push") /\ stack' = [stack EXCEPT ![x] = Front(@)]
    BY <1>3, Zenon DEF LockedPostTaskToQueue, Return
  <2>2. PICK f : f = Top(x)
    OBVIOUS
  <2>3. f \in PostFrame /\ f.at \in Posting /\ f \in Range(stack[x])
    BY <2>1, <2>2, TopFacts, FrameKinds DEF Posting
  <2>4. f.task.h \in AsTask /\ Owner[f.task.h] = f.p
    BY <2>3, Zenon DEF ThreadInv, CallOK
  <2>5. queue' = [queue EXCEPT ![f.p] = @ \cup {f.task}]
    BY <1>3, <2>2, Zenon DEF LockedPostTaskToQueue
  <2>6. \A p \in Pumps : \A t \in queue'[p] : t \in queue[p] \/ (t.h \in AsTask /\ Owner[t.h] = p)
    BY <2>4, <2>5 DEF TypeInv
  <2>7. Grows
    BY <1>3, <2>6, Zenon
      DEF LockedPostTaskToQueue, Grows, ThreadInv, threadVars, dispatcherVars
  <2>8. Regular(x, Front(stack[x]), {})
    BY <2>1, PlainTop, RegularOps
  <2> QED
    BY <2>7, <2>8, ThreadPlain
<1>4. CASE LockQueue(x)
  <2>1. At(x, "pump") /\ UNCHANGED stack
    BY <1>4, Zenon DEF LockQueue
  <2>2. Top(x) \in Range(stack[x]) /\ Top(x).at = "pump"
    BY <2>1, TopFacts
  <2>3. Top(x).p \in started
    BY <2>2, Zenon DEF ThreadInv, CallOK
  <2>4. queueGuard' \subseteq started'
    BY <1>4, <2>3 DEF LockQueue, ThreadInv
  <2>5. Grows
    BY <1>4, <2>4, Zenon DEF LockQueue, Grows, ThreadInv, threadVars, dispatcherVars
  <2>6. Regular(x, stack[x], {})
    BY <2>1, PlainTop, RegularOps
  <2> QED
    BY <2>5, <2>6, ThreadPlain
<1>5. CASE RunTask(x)
  <2>1. At(x, "pump")
    BY <1>5, Zenon DEF RunTask
  <2>2. PICK p : p = Top(x).p
    OBVIOUS
  <2>3. Top(x) \in PumpFrame /\ Top(x) \in Range(stack[x]) /\ Top(x).at = "pump"
    BY <2>1, TopFacts, FrameKinds
  <2>4. p \in Pumps /\ RunsOn(p, x)
    <3>1. p \in Pumps
      BY <2>2, <2>3 DEF PumpFrame
    <3> QED
      BY <2>2, <2>3, <3>1, Zenon DEF ThreadInv, CallOK
  <2>5. PICK t \in queue[p] :
           /\ queue' = [queue EXCEPT ![p] = @ \ {t}]
           /\ Push(x, User(t))
    BY <1>5, <2>2, Zenon DEF RunTask
  <2>6. t \in Tasks
    BY <2>4, <2>5 DEF TypeInv
  <2>7. PICK u : u = User(t)
    OBVIOUS
  <2>8. u \in UserFrame /\ u.at = "user" /\ u.task = t
    BY <2>6, <2>7, MadeFrames
  <2>9. stack' = [stack EXCEPT ![x] = Append(@, u)]
    BY <2>5, <2>7, Zenon DEF Push
  <2>10. Regular(x, Append(stack[x], u), {u})
    BY <2>1, <2>8, <2>9, PlainTop, RegularOps, PlainKinds
  <2>11. \A q \in Pumps : queue'[q] \subseteq queue[q]
    BY <2>5 DEF TypeInv
  <2>12. Grows
    BY <1>5, <2>11, Zenon DEF RunTask, Grows, ThreadInv, threadVars, dispatcherVars
  <2>13. t.h \in AsTask => Owner[t.h] = p
    <3>1. InitTask.h \notin AsTask
      BY TaskFacts, HandlerAssumption
    <3> QED
      BY <2>4, <2>5, <3>1, Zenon DEF ThreadInv
  <2>14. RunsOn(p, x)'
    BY <1>5, <2>4, Zenon DEF RunTask, RunsOn, threadVars, dispatcherVars
  <2>15. CallOK(x, u)'
    BY <2>8, <2>13, <2>14 DEF CallOK, Posting
  <2>16. \A n \in {u} : CallOK(x, n)'
    BY <2>15, Zenon
  <2> QED
    BY <2>10, <2>12, <2>16, ThreadPlain, Zenon
<1>6. CASE UnlockQueue(x)
  <2>1. At(x, "pump") /\ UNCHANGED stack
    BY <1>6, Zenon DEF UnlockQueue
  <2>2. queueGuard' \subseteq started'
    BY <1>6 DEF UnlockQueue, ThreadInv
  <2>3. Grows
    BY <1>6, <2>2, Zenon DEF UnlockQueue, Grows, ThreadInv, threadVars, dispatcherVars
  <2>4. Regular(x, stack[x], {})
    BY <2>1, PlainTop, RegularOps
  <2> QED
    BY <2>3, <2>4, ThreadPlain
<1> QED
  BY <1>1, <1>2, <1>3, <1>4, <1>5, <1>6

\* The calls after a loop has started.
LoopCalls(x, p, calls, y, f, g) ==
    /\ f \in PumpFrame /\ f.at = "pump" /\ f.p = p
    /\ Range(stack'[x]) = Range(calls) \cup {f}
    /\ y # None => /\ y \in OSThreads /\ stack[y] # <<>> /\ Last(stack[y]) \in PostFrame
                   /\ g \in PostFrame /\ g.at = "push"
                   /\ g.p = Last(stack[y]).p /\ g.task = Last(stack[y]).task
                   /\ Range(stack[y]) = Range(Front(stack[y])) \cup {Last(stack[y])}
                   /\ Range(stack'[y]) = Range(Front(stack[y])) \cup {g}
    /\ \A z \in OSThreads : z # x /\ z # y => stack'[z] = stack[z]

LEMMA LoopRanges ==
    ASSUME TypeInv, NEW x \in OSThreads, NEW p \in Pumps, NEW calls \in Seq(Frame),
           NEW y \in OSThreads \cup {None}, LoopStarted(x, p, calls, y),
           NEW f, f = [at |-> "pump", p |-> p], NEW g, g = [Last(stack[y]) EXCEPT !.at = "push"]
    PROVE  LoopCalls(x, p, calls, y, f, g)
<1>1. f \in PumpFrame /\ f.at = "pump" /\ f.p = p /\ f \in Frame
  BY MadeFrames, KindsAreFrames
<1>2. /\ stack'[x] = Append(calls, f)
      /\ y \in OSThreads => stack'[y] = Append(Front(stack[y]), g)
      /\ \A z \in OSThreads : z # x /\ z # y => stack'[z] = stack[z]
  BY DEF LoopStarted
<1>3. Range(stack'[x]) = Range(calls) \cup {f}
  BY <1>1, <1>2, AppendRange
<1>4. ASSUME y # None
      PROVE  /\ y \in OSThreads /\ stack[y] # <<>> /\ Last(stack[y]) \in PostFrame
             /\ g \in PostFrame /\ g.at = "push"
             /\ g.p = Last(stack[y]).p /\ g.task = Last(stack[y]).task
             /\ Range(stack[y]) = Range(Front(stack[y])) \cup {Last(stack[y])}
             /\ Range(stack'[y]) = Range(Front(stack[y])) \cup {g}
  <2>1. y \in OSThreads /\ stack[y] # <<>> /\ Last(stack[y]) \in PostFrame /\ stack[y] \in Seq(Frame)
    BY <1>4, Zenon DEF LoopStarted, TypeInv
  <2>2. g \in PostFrame /\ g.at = "push" /\ g.p = Last(stack[y]).p /\ g.task = Last(stack[y]).task
    BY <2>1, PostMoves DEF Posting
  <2>3. g \in Frame
    BY <2>2, KindsAreFrames
  <2>4. Front(stack[y]) \in Seq(Frame) /\ Range(stack[y]) = Range(Front(stack[y])) \cup {Last(stack[y])}
    BY <2>1, FrontFacts, FrontRange
  <2>5. Range(stack'[y]) = Range(Front(stack[y])) \cup {g}
    <3>1. PICK c : c = Front(stack[y])
      OBVIOUS
    <3>2. stack'[y] = Append(c, g)
      BY <1>2, <2>1, <3>1, Zenon
    <3>3. c \in Seq(Frame)
      BY <2>4, <3>1, Zenon
    <3>4. Range(Append(c, g)) = Range(c) \cup {g}
      BY <2>3, <3>3, AppendRange
    <3> QED
      BY <3>1, <3>2, <3>4, Zenon
  <2> QED
    BY <2>1, <2>2, <2>4, <2>5
<1> QED
  BY <1>1, <1>2, <1>3, <1>4, Zenon DEF LoopCalls

LEMMA ThreadRunners ==
    ASSUME TypeInv, ThreadInv, NEW x \in OSThreads,
           \/ \E r \in Runners : InitRunner(x, r) \/ StartRunner(x, r)
           \/ \E d \in Threads : NameThread(x, d)
    PROVE  ThreadInv'
<1>1. ASSUME NEW r \in Runners, InitRunner(x, r) PROVE ThreadInv'
  <2>1. At(x, "user") /\ UNCHANGED stack /\ Id[r] = None
    BY <1>1, Zenon DEF InitRunner
  <2>2. Id' = [Id EXCEPT ![r] = x] /\ namedDMPs' = namedDMPs \cup {r}
    BY <1>1, Zenon DEF InitRunner, AddTaskRunner
  <2>3. \A o \in Runners \cup Delegates : Id'[o] = IF o = r THEN x ELSE Id[o]
    BY <2>2 DEF TypeInv
  <2>4. \A q \in Runners : Id'[q] # None => q \in namedDMPs'
    BY <2>2, <2>3 DEF ThreadInv
  <2>5. Grows
    BY <1>1, <2>1, <2>2, <2>3, <2>4, Zenon DEF InitRunner, Grows, ThreadInv, pumpVars
  <2>6. Regular(x, stack[x], {})
    BY <2>1, PlainTop, RegularOps
  <2> QED
    BY <2>5, <2>6, ThreadPlain
<1>2. ASSUME NEW d \in Threads, NameThread(x, d) PROVE ThreadInv'
  <2>1. At(x, "user") /\ UNCHANGED stack /\ namedThreads' = namedThreads \cup {d}
    BY <1>2, Zenon DEF NameThread, AddNamedThread
  <2>2. namedThreads \subseteq namedThreads'
    BY <2>1
  <2>3. Grows
    BY <1>2, <2>2, Zenon DEF NameThread, Grows, ThreadInv, threadVars, pumpVars
  <2>4. Regular(x, stack[x], {})
    BY <2>1, PlainTop, RegularOps
  <2> QED
    BY <2>3, <2>4, ThreadPlain
<1>3. ASSUME NEW r \in Runners, StartRunner(x, r) PROVE ThreadInv'
  <2>1. At(x, "user") /\ StartMessageLoop(x, r, stack[x]) /\ r \in Pumps /\ stack[x] \in Seq(Frame) /\ Id[r] = x
    BY <1>3, Zenon DEF StartRunner, Pumps, TypeInv
  <2>2. PICK y \in OSThreads \cup {None} : LoopStarted(x, r, stack[x], y)
    BY <2>1, LoopStart, Zenon
  <2>3. started' = started \cup {r} /\ queue' = [queue EXCEPT ![r] = @ \cup {InitTask}]
    BY <2>1, LoopStart, Zenon
  <2>4. PICK f, g : f = [at |-> "pump", p |-> r] /\ g = [Last(stack[y]) EXCEPT !.at = "push"]
    OBVIOUS
  <2>5. PICK new : new = {<<x, f>>} \cup (IF y = None THEN {} ELSE {<<y, g>>})
    OBVIOUS
  <2>6. /\ f.at = "pump" /\ f.p = r
        /\ Range(stack'[x]) = Range(stack[x]) \cup {f}
        /\ y # None => /\ y \in OSThreads /\ stack[y] # <<>> /\ Last(stack[y]) \in PostFrame
                       /\ g.at = "push" /\ g.p = Last(stack[y]).p /\ g.task = Last(stack[y]).task
                       /\ Range(stack[y]) = Range(Front(stack[y])) \cup {Last(stack[y])}
                       /\ Range(stack'[y]) = Range(Front(stack[y])) \cup {g}
        /\ \A z \in OSThreads : z # x /\ z # y => stack'[z] = stack[z]
    <3>1. LoopCalls(x, r, stack[x], y, f, g)
      BY <2>1, <2>2, <2>4, LoopRanges, Zenon
    <3> QED
      BY <3>1, Zenon DEF LoopCalls
  <2>7. y # None => Last(stack[y]).at \in Posting
    BY <2>6, PlainKinds
  <2>8. y # x /\ x # None /\ stack[x] # <<>>
    BY <2>1, <2>2, ThreadAssumption, Zenon DEF LoopStarted, At
  <2>9. ASSUME NEW z \in OSThreads, NEW h, h.at \in {"create", "name"}
        PROVE  h \in Range(stack'[z]) <=> h \in Range(stack[z])
    <3>1. h # f
      BY <2>6, <2>9
    <3>2. y # None => h # g /\ h # Last(stack[y])
      BY <2>6, <2>7, <2>9 DEF Posting
    <3>3. CASE z = x
      BY <2>6, <3>1, <3>3
    <3>4. CASE z = y
      BY <2>6, <2>9, <3>2, <3>4, ThreadAssumption
    <3> QED
      BY <2>6, <3>3, <3>4, Zenon
  <2>10. Births' = Births
    <3>1. ASSUME NEW h \in Births' PROVE h \in Births
      <4>1. PICK z \in OSThreads : h \in Range(stack'[z]) /\ h.at \in {"create", "name"}
        BY <3>1, Zenon DEF Births, Frames
      <4>2. h \in Range(stack[z])
        BY <2>9, <4>1
      <4> QED
        BY <4>1, <4>2, Zenon DEF Births, Frames
    <3>2. ASSUME NEW h \in Births PROVE h \in Births'
      <4>1. PICK z \in OSThreads : h \in Range(stack[z]) /\ h.at \in {"create", "name"}
        BY <3>2, Zenon DEF Births, Frames
      <4>2. h \in Range(stack'[z])
        BY <2>9, <4>1
      <4> QED
        BY <4>1, <4>2, Zenon DEF Births, Frames
    <3> QED
      BY <3>1, <3>2, Zenon
  <2>11. ASSUME NEW z \in OSThreads, stack[z] = <<>> PROVE stack'[z] = <<>>
    <3>1. z # None
      BY ThreadAssumption
    <3>2. z # x /\ z # y
      BY <2>6, <2>8, <2>11, <3>1, Zenon
    <3>3. stack'[z] = stack[z]
      BY <2>6, <3>2, Zenon
    <3> QED
      BY <2>11, <3>3, Zenon
  <2>12. ASSUME NEW z \in OSThreads, NEW h \in Range(stack'[z])
         PROVE  h \in Range(stack[z]) \/ <<z, h>> \in new
    <3>1. CASE z = x
      BY <2>5, <2>6, <2>12, <3>1
    <3>2. CASE z = y
      BY <2>5, <2>6, <2>12, <3>2, ThreadAssumption
    <3> QED
      BY <2>6, <2>12, <3>1, <3>2, Zenon
  <2>13. ASSUME NEW z \in OSThreads, NEW h \in Range(stack'[z]), h.at = "name"
         PROVE  stack'[z] = <<h>>
    <3>1. h \in Range(stack[z])
      BY <2>9, <2>13
    <3>2. stack[z] = <<h>> /\ Range(stack[z]) = {h}
      BY <2>13, <3>1, NameAlone, Zenon
    <3>3. z # x
      <4>1. Top(x) \in Range(stack[x]) /\ Top(x).at = "user"
        BY <2>1, TopFacts
      <4> QED
        BY <2>13, <3>2, <4>1
    <3>4. z # y
      <4> SUFFICES ASSUME z = y PROVE FALSE
        OBVIOUS
      <4>1. y # None
        BY ThreadAssumption
      <4>2. Last(stack[y]) = h
        BY <2>6, <3>2, <4>1
      <4> QED
        BY <2>7, <2>13, <4>1, <4>2 DEF Posting
    <3> QED
      BY <2>6, <3>2, <3>3, <3>4
  <2>14. Kept(new)
    BY <2>10, <2>11, <2>12, <2>13, Zenon DEF Kept
  <2>15. Grows
    <3>1. started \subseteq started' /\ queueGuard' \subseteq started'
      BY <1>3, <2>3 DEF StartRunner, ThreadInv
    <3>2. \A p \in Pumps : \A t \in queue'[p] : t \in queue[p] \/ t = InitTask
      BY <2>3 DEF TypeInv
    <3> QED
      BY <1>3, <3>1, <3>2, Zenon DEF StartRunner, Grows, ThreadInv, threadVars, dispatcherVars
  <2>16. CallOK(x, f)'
    <3>1. r \in started' /\ RunsOn(r, x)'
      BY <1>3, <2>1, <2>3 DEF StartRunner, RunsOn, threadVars
    <3> QED
      BY <2>6, <3>1 DEF CallOK, Posting
  <2>17. y # None => CallOK(y, g)'
    <3> SUFFICES ASSUME y # None PROVE CallOK(y, g)'
      OBVIOUS
    <3>1. Last(stack[y]) \in Range(stack[y]) /\ y \in OSThreads
      BY <2>6
    <3>2. CallOK(y, Last(stack[y]))
      BY <3>1, Zenon DEF ThreadInv
    <3>3. g.task.h \in AsTask /\ Owner[g.task.h] = g.p
      BY <2>6, <2>7, <3>2, Zenon DEF CallOK
    <3> QED
      BY <2>6, <3>3 DEF CallOK, Posting
  <2>18. ASSUME NEW z \in OSThreads, NEW h, <<z, h>> \in new PROVE CallOK(z, h)'
    <3>1. (z = x /\ h = f) \/ (y # None /\ z = y /\ h = g)
      BY <2>5, <2>18
    <3> QED
      BY <2>16, <2>17, <3>1, Zenon
  <2> QED
    BY <2>14, <2>15, <2>18, ThreadKept, Zenon
<1> QED
  BY <1>1, <1>2, <1>3

\* Create, with or without a write to the Id of what it creates.
LEMMA ThreadCreate ==
    ASSUME TypeInv, ThreadInv, NEW x \in OSThreads, NEW d \in Delegates,
           At(x, "user"), stack[d] = <<>>, Create(x, d), Id' = Id \/ Id' = [Id EXCEPT ![d] = x]
    PROVE  ThreadInv'
<1>1. PICK f, g : f = [at |-> "create", d |-> d] /\ g = [at |-> "name", d |-> d]
  OBVIOUS
<1>2. /\ x # d /\ f \in BirthFrame /\ g \in BirthFrame /\ f.at = "create" /\ g.at = "name" /\ f.d = d /\ g.d = d
      /\ Born(x, d, f, g) /\ threadHandle' = d
  BY <1>1, CreateFacts
<1>3. d \in OSThreads /\ d \notin Runners /\ f \in Frame
  BY <1>2, ThreadAssumption, KindsAreFrames DEF OSThreads
<1>4. /\ stack'[x] = Append(stack[x], f) /\ stack'[d] = <<g>>
      /\ \A z \in OSThreads : z # x /\ z # d => stack'[z] = stack[z]
  BY <1>2, <1>3 DEF Born
<1>5. Range(stack'[x]) = Range(stack[x]) \cup {f} /\ Range(stack'[d]) = {g} /\ Range(stack[d]) = {}
  <2>1. stack[x] \in Seq(Frame)
    BY Zenon DEF TypeInv
  <2>2. Range(stack'[x]) = Range(stack[x]) \cup {f}
    BY <1>3, <1>4, <2>1, AppendRange
  <2>3. Range(<<g>>) = {g} /\ Range(<<>>) = {}
    BY DEF Range
  <2> QED
    BY <1>4, <2>2, <2>3
<1>6. ASSUME NEW z \in OSThreads, NEW h
      PROVE  h \in Range(stack'[z]) <=> \/ h \in Range(stack[z])
                                        \/ (z = x /\ h = f) \/ (z = d /\ h = g)
  BY <1>2, <1>4, <1>5
<1>7. Births' = Births \cup {f, g}
  <2>1. ASSUME NEW h \in Births' PROVE h \in Births \cup {f, g}
    <3>1. PICK z \in OSThreads : h \in Range(stack'[z]) /\ h.at \in {"create", "name"}
      BY <2>1, Zenon DEF Births, Frames
    <3>2. h \in Range(stack[z]) \/ h \in {f, g}
      BY <1>6, <3>1
    <3> QED
      BY <3>1, <3>2, Zenon DEF Births, Frames
  <2>2. ASSUME NEW h \in Births PROVE h \in Births'
    <3>1. PICK z \in OSThreads : h \in Range(stack[z]) /\ h.at \in {"create", "name"}
      BY <2>2, Zenon DEF Births, Frames
    <3>2. h \in Range(stack'[z])
      BY <1>6, <3>1
    <3> QED
      BY <3>1, <3>2, Zenon DEF Births, Frames
  <2>3. f \in Births' /\ g \in Births'
    <3>1. f \in Range(stack'[x]) /\ g \in Range(stack'[d])
      BY <1>5
    <3> QED
      BY <1>2, <1>3, <3>1, Zenon DEF Births, Frames
  <2> QED
    BY <2>1, <2>2, <2>3
<1>8. BeingCreated' = BeingCreated \cup {d}
  BY <1>2, <1>7, BirthsFacts
<1>9. UNCHANGED <<osName, namedDMPs, namedThreads, started, queueGuard, queue>>
      /\ mixed' = IF BeingCreated = {} THEN mixed ELSE mixed \cup BeingCreated \cup {d}
  BY Zenon DEF Create, dispatcherVars, pumpVars
<1>10. \A o \in Runners \cup Delegates : o # d => Id'[o] = Id[o]
  BY DEF TypeInv
<1>11. \A r \in Runners : Id'[r] = Id[r]
  BY <1>3, <1>10
<1>12. ASSUME NEW z \in OSThreads, NEW h \in Range(stack'[z]) PROVE CallOK(z, h)'
  <2>1. CASE h \in Range(stack[z])
    <3>1. CallOK(z, h)
      BY <2>1, Zenon DEF ThreadInv
    <3>2. started \subseteq started' /\ namedThreads \subseteq namedThreads'
      BY <1>9
    <3> QED
      BY <1>11, <3>1, <3>2, CallOKKept
  <2>2. CASE z = x /\ h = f
    BY <1>2, <2>2 DEF CallOK, Posting
  <2>3. CASE z = d /\ h = g
    BY <1>2, <2>3 DEF CallOK, Posting
  <2> QED
    BY <1>6, <1>12, <2>1, <2>2, <2>3
<1>13. ASSUME NEW z \in OSThreads, NEW h \in Range(stack'[z]), h.at = "name" PROVE stack'[z] = <<h>>
  <2>1. CASE z = d
    BY <1>4, <1>5, <1>13, <2>1
  <2>2. CASE z # d
    <3>1. h \in Range(stack[z])
      BY <1>2, <1>6, <1>13, <2>2
    <3>2. stack[z] = <<h>> /\ Range(stack[z]) = {h}
      BY <1>13, <3>1, NameAlone, Zenon
    <3>3. z # x
      <4>1. Top(x) \in Range(stack[x]) /\ Top(x).at = "user"
        BY TopFacts
      <4> QED
        BY <1>13, <3>2, <4>1
    <3> QED
      BY <1>4, <2>2, <3>2, <3>3
  <2> QED
    BY <2>1, <2>2
<1>14. BeingCreated' \subseteq {threadHandle'} \/ BeingCreated' \cup {threadHandle'} \subseteq mixed'
  <2>1. CASE BeingCreated = {}
    BY <1>2, <1>8, <2>1
  <2>2. CASE BeingCreated # {}
    BY <1>2, <1>8, <1>9, <2>2
  <2> QED
    BY <2>1, <2>2
<1>15. mixed \subseteq mixed'
  BY <1>9
<1>16. stack[x] # <<>>
  BY Zenon DEF At
<1>17. \A w, o : InCall(w, o) => InCall(w, o)'
  BY <1>7 DEF InCall
<1>18. InCall("create", d)' /\ InCall("name", d)'
  BY <1>2, <1>7 DEF InCall
<1>19. ASSUME NEW o \in Delegates, o # d, stack'[o] # <<>> PROVE stack[o] # <<>>
  <2>1. o \in OSThreads
    BY DEF OSThreads
  <2>2. CASE o = x
    BY <1>16, <2>2
  <2>3. CASE o # x
    BY <1>4, <1>19, <2>1, <2>3, Zenon
  <2> QED
    BY <2>2, <2>3
<1>20. ASSUME NEW o \in Threads \ mixed', stack'[o] # <<>> PROVE Id'[o] = o \/ InCall("create", o)'
  <2>1. o \in Delegates /\ o \in Threads \ mixed
    BY <1>15 DEF Delegates
  <2>2. CASE o = d
    BY <1>18, <2>2
  <2>3. CASE o # d
    <3>1. Id[o] = o \/ InCall("create", o)
      BY <1>19, <1>20, <2>1, <2>3, Zenon DEF ThreadInv
    <3>2. Id'[o] = Id[o]
      BY <1>10, <2>1, <2>3
    <3> QED
      BY <1>17, <3>1, <3>2
  <2> QED
    BY <2>2, <2>3
<1>21. ASSUME NEW o \in Delegates \ mixed', stack'[o] # <<>> PROVE osName'[o] = o \/ InCall("name", o)'
  <2>1. CASE o = d
    BY <1>18, <2>1
  <2>2. CASE o # d
    <3>1. o \in Delegates \ mixed
      BY <1>15
    <3>2. osName[o] = o \/ InCall("name", o)
      BY <1>19, <1>21, <2>2, <3>1, Zenon DEF ThreadInv
    <3> QED
      BY <1>9, <1>17, <3>2
  <2> QED
    BY <2>1, <2>2
<1>22. /\ queueGuard' \subseteq started' /\ \A r \in Runners : Id'[r] # None => r \in namedDMPs'
       /\ \A p \in Pumps : \A t \in queue'[p] : t = InitTask \/ (t.h \in AsTask /\ Owner[t.h] = p)
  BY <1>9, <1>11, Zenon DEF ThreadInv
<1> QED
  BY <1>12, <1>13, <1>14, <1>20, <1>21, <1>22, Zenon DEF ThreadInv

LEMMA ThreadCreateReturns ==
    ASSUME TypeInv, ThreadInv, NEW x \in OSThreads, CreateReturns(x)
    PROVE  ThreadInv'
<1>1. At(x, "create") /\ stack' = [stack EXCEPT ![x] = Front(@)]
  BY Zenon DEF CreateReturns, Return
<1>2. PICK f : f = Top(x)
  OBVIOUS
<1>3. f \in BirthFrame /\ f.at = "create" /\ f \in Range(stack[x]) /\ f = Last(stack[x]) /\ stack[x] # <<>>
  BY <1>1, <1>2, TopFacts, FrameKinds
<1>4. PICK d : d = f.d
  OBVIOUS
<1>5. d \in Delegates /\ d \notin Runners
  BY <1>3, <1>4, ThreadAssumption DEF BirthFrame
<1>6. /\ Id' = IF d \in Threads THEN [Id EXCEPT ![d] = threadHandle] ELSE Id
      /\ UNCHANGED <<threadHandle, osName, mixed, namedDMPs, namedThreads, started, queueGuard, queue>>
  BY <1>2, <1>4, Zenon DEF CreateReturns, dispatcherVars, pumpVars
<1>7. /\ Range(stack[x]) = Range(stack'[x]) \cup {f}
      /\ \A z \in OSThreads : z # x => stack'[z] = stack[z]
  <2>1. stack \in [OSThreads -> Seq(Frame)]
    BY Zenon DEF TypeInv
  <2>2. stack'[x] = Front(stack[x]) /\ \A z \in OSThreads : z # x => stack'[z] = stack[z]
    BY <1>1, <2>1
  <2>3. Range(stack[x]) = Range(Front(stack[x])) \cup {Last(stack[x])}
    BY <1>3, <2>1, FrontRange
  <2> QED
    BY <1>3, <2>2, <2>3
<1>8. ASSUME NEW z \in OSThreads, NEW h \in Range(stack'[z]) PROVE h \in Range(stack[z])
  BY <1>7, <1>8
<1>9. ASSUME NEW z \in OSThreads, NEW h \in Range(stack[z]), h # f PROVE h \in Range(stack'[z])
  BY <1>7, <1>9
<1>10. Births' \subseteq Births
  <2> SUFFICES ASSUME NEW h \in Births' PROVE h \in Births
    BY Zenon
  <2>1. PICK z \in OSThreads : h \in Range(stack'[z]) /\ h.at \in {"create", "name"}
    BY Zenon DEF Births, Frames
  <2>2. h \in Range(stack[z])
    BY <1>8, <2>1
  <2> QED
    BY <2>1, <2>2, Zenon DEF Births, Frames
<1>11. ASSUME NEW h \in Births, h # f PROVE h \in Births'
  <2>1. PICK z \in OSThreads : h \in Range(stack[z]) /\ h.at \in {"create", "name"}
    BY <1>11, Zenon DEF Births, Frames
  <2>2. h \in Range(stack'[z])
    BY <1>9, <1>11, <2>1
  <2> QED
    BY <2>1, <2>2, Zenon DEF Births, Frames
<1>12. f \in Births /\ d \in BeingCreated
  <2>1. f \in Births
    BY <1>3 DEF Births, Frames
  <2> QED
    BY <1>4, <2>1, BirthsFacts
<1>13. BeingCreated' \subseteq BeingCreated
  BY <1>10, BirthsFacts
<1>14. \A o \in Runners \cup Delegates : o # d => Id'[o] = Id[o]
  BY <1>6 DEF TypeInv
<1>15. \A r \in Runners : Id'[r] = Id[r]
  BY <1>5, <1>14
<1>16. ASSUME NEW z \in OSThreads, NEW h \in Range(stack'[z]) PROVE CallOK(z, h)'
  <2>1. CallOK(z, h)
    BY <1>8, <1>16, Zenon DEF ThreadInv
  <2>2. started \subseteq started' /\ namedThreads \subseteq namedThreads'
    BY <1>6
  <2> QED
    BY <1>15, <2>1, <2>2, CallOKKept
<1>17. ASSUME NEW z \in OSThreads, NEW h \in Range(stack'[z]), h.at = "name" PROVE stack'[z] = <<h>>
  <2>1. stack[z] = <<h>> /\ Range(stack[z]) = {h}
    BY <1>8, <1>17, NameAlone
  <2>2. z # x
    BY <1>3, <1>17, <2>1
  <2> QED
    BY <1>7, <2>1, <2>2
<1>18. BeingCreated' \subseteq {threadHandle'} \/ BeingCreated' \cup {threadHandle'} \subseteq mixed'
  <2>1. BeingCreated \subseteq {threadHandle} \/ BeingCreated \cup {threadHandle} \subseteq mixed
    BY Zenon DEF ThreadInv
  <2> QED
    BY <1>6, <1>13, <2>1
<1>19. ASSUME NEW o \in Delegates, stack'[o] # <<>> PROVE stack[o] # <<>>
  <2>1. o \in OSThreads
    BY DEF OSThreads
  <2>2. CASE o = x
    BY <1>3, <2>2
  <2>3. CASE o # x
    BY <1>7, <1>19, <2>1, <2>3, Zenon
  <2> QED
    BY <2>2, <2>3
<1>20. ASSUME NEW o \in Threads \ mixed', stack'[o] # <<>> PROVE Id'[o] = o \/ InCall("create", o)'
  <2>1. o \in Delegates /\ o \in Threads \ mixed
    BY <1>6 DEF Delegates
  <2>2. CASE o = d
    <3>1. threadHandle = d
      BY <1>12, <2>1, <2>2 DEF ThreadInv
    <3> QED
      BY <1>6, <2>1, <2>2, <3>1 DEF TypeInv
  <2>3. CASE o # d
    <3>1. Id[o] = o \/ InCall("create", o)
      BY <1>19, <1>20, <2>1, Zenon DEF ThreadInv
    <3>2. InCall("create", o) => InCall("create", o)'
      BY <1>4, <1>11, <2>3 DEF InCall
    <3>3. Id'[o] = Id[o]
      BY <1>14, <2>1, <2>3
    <3> QED
      BY <3>1, <3>2, <3>3
  <2> QED
    BY <2>2, <2>3
<1>21. ASSUME NEW o \in Delegates \ mixed', stack'[o] # <<>> PROVE osName'[o] = o \/ InCall("name", o)'
  <2>1. o \in Delegates \ mixed
    BY <1>6
  <2>2. osName[o] = o \/ InCall("name", o)
    BY <1>19, <1>21, <2>1, Zenon DEF ThreadInv
  <2>3. InCall("name", o) => InCall("name", o)'
    BY <1>3, <1>11 DEF InCall
  <2> QED
    BY <1>6, <2>2, <2>3
<1>22. /\ queueGuard' \subseteq started' /\ \A r \in Runners : Id'[r] # None => r \in namedDMPs'
       /\ \A p \in Pumps : \A t \in queue'[p] : t = InitTask \/ (t.h \in AsTask /\ Owner[t.h] = p)
  BY <1>6, <1>15, Zenon DEF ThreadInv
<1> QED
  BY <1>16, <1>17, <1>18, <1>20, <1>21, <1>22, Zenon DEF ThreadInv

\* SetThreadName on a thread that is being created keeps the names of unmixed threads,
\* and gives x its own if it is one.
LEMMA SetNameKeeps ==
    ASSUME TypeInv, ThreadInv, NEW x \in Delegates, At(x, "name"), SetThreadName(x)
    PROVE  /\ \A o \in Delegates \ mixed : osName[o] = o \/ o = x => osName'[o] = o
           /\ Top(x).at = "name" /\ Top(x).d = x /\ Top(x) \in Births
           /\ stack[x] = <<Top(x)>> /\ Range(stack[x]) = {Top(x)}
<1>1. x \in OSThreads
  BY DEF OSThreads
<1>2. PICK n : n = Top(x)
  OBVIOUS
<1>3. n \in BirthFrame /\ n.at = "name" /\ n \in Range(stack[x])
  BY <1>1, <1>2, TopFacts, FrameKinds
<1>4. n.d = x /\ stack[x] = <<n>> /\ Range(stack[x]) = {n}
  <2>1. n.d = x
    BY <1>1, <1>3, Zenon DEF ThreadInv, CallOK
  <2> QED
    BY <1>1, <1>3, <2>1, NameAlone, Zenon
<1>5. n \in Births
  BY <1>1, <1>3 DEF Births, Frames
<1>6. x \in BeingCreated
  BY <1>4, <1>5, BirthsFacts
<1>7. threadHandle = x \/ (x \in mixed /\ threadHandle \in mixed)
  BY <1>6 DEF ThreadInv
<1>8. osName' = [osName EXCEPT ![threadHandle] = x]
  BY Zenon DEF SetThreadName
<1>9. ASSUME NEW o \in Delegates \ mixed, osName[o] = o \/ o = x PROVE osName'[o] = o
  <2>1. o \in OSThreads
    BY DEF OSThreads
  <2> QED
    BY <1>7, <1>8, <1>9, <2>1 DEF TypeInv
<1> QED
  BY <1>2, <1>3, <1>4, <1>5, <1>9

\* The named thread goes on with the call u, and no other thread is born or named.
LEMMA NameEnds ==
    ASSUME TypeInv, ThreadInv, NEW x \in Delegates, At(x, "name"), SetThreadName(x),
           UNCHANGED <<threadHandle, Id, mixed, namedDMPs, namedThreads, queueGuard>>,
           started \subseteq started',
           \A p \in Pumps : \A t \in queue'[p] : t \in queue[p] \/ t = InitTask,
           NEW u, Plain(u), Range(stack'[x]) = {u}, CallOK(x, u)',
           \A z \in OSThreads \ {x} :
              /\ \A h : h.at \in {"create", "name"} => (h \in Range(stack'[z]) <=> h \in Range(stack[z]))
              /\ stack[z] = <<>> => stack'[z] = <<>>
              /\ \A h \in Range(stack'[z]) : h \in Range(stack[z]) \/ CallOK(z, h)'
              /\ \A h \in Range(stack'[z]) : h.at = "name" => stack'[z] = stack[z]
    PROVE  ThreadInv'
<1>1. x \in OSThreads
  BY DEF OSThreads
<1>2. PICK n : n = Top(x)
  OBVIOUS
<1>3. /\ \A o \in Delegates \ mixed : osName[o] = o \/ o = x => osName'[o] = o
      /\ n.at = "name" /\ n.d = x /\ n \in Births /\ stack[x] = <<n>> /\ Range(stack[x]) = {n}
  BY <1>2, SetNameKeeps, Zenon
<1>4. u.at \notin {"create", "name"}
  BY DEF Plain
<1>5. Births' \subseteq Births
  <2> SUFFICES ASSUME NEW h \in Births' PROVE h \in Births
    BY Zenon
  <2>1. PICK z \in OSThreads : h \in Range(stack'[z]) /\ h.at \in {"create", "name"}
    BY Zenon DEF Births, Frames
  <2>2. z # x
    BY <1>4, <2>1
  <2>3. h \in Range(stack[z])
    BY <2>1, <2>2
  <2> QED
    BY <2>1, <2>3, Zenon DEF Births, Frames
<1>6. ASSUME NEW h \in Births, h # n PROVE h \in Births'
  <2>1. PICK z \in OSThreads : h \in Range(stack[z]) /\ h.at \in {"create", "name"}
    BY <1>6, Zenon DEF Births, Frames
  <2>2. z # x
    BY <1>3, <1>6, <2>1
  <2>3. h \in Range(stack'[z])
    BY <2>1, <2>2
  <2> QED
    BY <2>1, <2>3, Zenon DEF Births, Frames
<1>7. BeingCreated' \subseteq BeingCreated
  BY <1>5, BirthsFacts
<1>8. ASSUME NEW z \in OSThreads, NEW h \in Range(stack'[z]) PROVE CallOK(z, h)'
  <2>1. CASE z = x
    BY <1>8, <2>1
  <2>2. CASE z # x /\ h \in Range(stack[z])
    <3>1. CallOK(z, h)
      BY <2>2, Zenon DEF ThreadInv
    <3> QED
      BY <3>1, CallOKKept
  <2> QED
    BY <1>8, <2>1, <2>2, Zenon
<1>9. ASSUME NEW z \in OSThreads, NEW h \in Range(stack'[z]), h.at = "name" PROVE stack'[z] = <<h>>
  <2>1. z # x
    BY <1>4, <1>9
  <2>2. stack'[z] = stack[z]
    BY <1>9, <2>1, Zenon
  <2>3. h \in Range(stack[z])
    BY <1>9, <2>2, Zenon
  <2>4. stack[z] = <<h>>
    BY <1>9, <2>3, Zenon DEF ThreadInv
  <2> QED
    BY <2>2, <2>4
<1>10. BeingCreated' \subseteq {threadHandle'} \/ BeingCreated' \cup {threadHandle'} \subseteq mixed'
  <2>1. BeingCreated \subseteq {threadHandle} \/ BeingCreated \cup {threadHandle} \subseteq mixed
    BY Zenon DEF ThreadInv
  <2> QED
    BY <1>7, <2>1
<1>11. stack[x] # <<>>
  BY Zenon DEF At
<1>12. ASSUME NEW o \in Delegates, stack'[o] # <<>> PROVE stack[o] # <<>>
  <2>1. o \in OSThreads
    BY DEF OSThreads
  <2>2. CASE o = x
    BY <1>11, <2>2
  <2>3. CASE o # x
    BY <1>12, <2>1, <2>3, Zenon
  <2> QED
    BY <2>2, <2>3
<1>13. ASSUME NEW o \in Threads \ mixed', stack'[o] # <<>> PROVE Id'[o] = o \/ InCall("create", o)'
  <2>1. o \in Delegates /\ o \in Threads \ mixed
    BY DEF Delegates
  <2>2. Id[o] = o \/ InCall("create", o)
    BY <1>12, <1>13, <2>1, Zenon DEF ThreadInv
  <2>3. InCall("create", o) => InCall("create", o)'
    BY <1>3, <1>6 DEF InCall
  <2> QED
    BY <2>2, <2>3
<1>14. ASSUME NEW o \in Delegates \ mixed', stack'[o] # <<>> PROVE osName'[o] = o \/ InCall("name", o)'
  <2>1. o \in Delegates \ mixed
    OBVIOUS
  <2>2. osName[o] = o \/ InCall("name", o)
    BY <1>12, <1>14, <2>1, Zenon DEF ThreadInv
  <2>3. InCall("name", o) => o = x \/ InCall("name", o)'
    BY <1>3, <1>6 DEF InCall
  <2> QED
    BY <1>3, <2>1, <2>2, <2>3
<1>15. /\ queueGuard' \subseteq started' /\ \A r \in Runners : Id'[r] # None => r \in namedDMPs'
       /\ \A p \in Pumps : \A t \in queue'[p] : t = InitTask \/ (t.h \in AsTask /\ Owner[t.h] = p)
  <2>1. queueGuard' \subseteq started'
    BY DEF ThreadInv
  <2> QED
    BY <2>1, Zenon DEF ThreadInv
<1> QED
  BY <1>8, <1>9, <1>10, <1>13, <1>14, <1>15, Zenon DEF ThreadInv

LEMMA ThreadStart ==
    ASSUME TypeInv, ThreadInv, NEW x \in OSThreads, ThreadStartFunction(x)
    PROVE  ThreadInv'
<1>1. At(x, "name") /\ SetThreadName(x)
      /\ UNCHANGED <<threadHandle, Id, mixed, namedDMPs, namedThreads, queueGuard>>
  BY Zenon DEF ThreadStartFunction, dispatcherVars
<1>2. x \in Delegates
  BY Zenon DEF ThreadStartFunction, WorkerMain, ThreadMain, Delegates
<1>3. PICK n : n = Top(x)
  OBVIOUS
<1>4. /\ \A o \in Delegates \ mixed : osName[o] = o \/ o = x => osName'[o] = o
      /\ n.at = "name" /\ n.d = x /\ n \in Births /\ stack[x] = <<n>> /\ Range(stack[x]) = {n}
  BY <1>1, <1>2, <1>3, SetNameKeeps, Zenon
<1>5. stack[x] # <<>> /\ stack[x] \in Seq(Frame) /\ stack \in [OSThreads -> Seq(Frame)]
  BY <1>1, Zenon DEF At, TypeInv
<1>6. CASE WorkerMain(x)
  <2>1. PICK u : u = User(InitTask)
    OBVIOUS
  <2>2. u \in UserFrame /\ u.at = "user" /\ u.task = InitTask /\ Plain(u) /\ u \in Frame
    BY <2>1, TaskFacts, MadeFrames, PlainKinds, KindsAreFrames
  <2>3. stack' = [stack EXCEPT ![x] = Append(Front(@), u)] /\ UNCHANGED <<started, queue>>
    BY <1>6, <2>1, Zenon DEF WorkerMain, Goto
  <2>4. stack'[x] = Append(Front(stack[x]), u) /\ \A z \in OSThreads \ {x} : stack'[z] = stack[z]
    BY <1>5, <2>3
  <2>5. stack'[x] = <<u>>
    <3>1. Front(<<n>>) = <<>> /\ Append(<<>>, u) = <<u>>
      BY EmptySeq DEF Front
    <3> QED
      BY <1>4, <2>4, <3>1, Zenon
  <2>6. Range(stack'[x]) = {u}
    <3>1. Range(<<u>>) = {u}
      BY DEF Range
    <3> QED
      BY <2>5, <3>1, Zenon
  <2>7. CallOK(x, u)'
    <3>1. u.task.h \notin AsTask
      BY <2>2, TaskFacts, HandlerAssumption
    <3> QED
      BY <2>2, <3>1 DEF CallOK, Posting
  <2> QED
    BY <1>1, <1>2, <2>2, <2>3, <2>4, <2>6, <2>7, NameEnds, Zenon
<1>7. CASE ThreadMain(x)
  <2>1. x \in Threads /\ x \in Pumps
    BY <1>7 DEF ThreadMain, Pumps
  <2>2. CASE GetSharedState(x) /\ StartMessageLoop(x, x, <<>>)
    <3>1. PICK c : c = <<>>
      OBVIOUS
    <3>2. c \in Seq(Frame) /\ Range(c) = {}
      BY <3>1 DEF Range
    <3>3. StartMessageLoop(x, x, c)
      BY <2>2, <3>1, Zenon
    <3>4. PICK y \in OSThreads \cup {None} : LoopStarted(x, x, c, y)
      BY <1>1, <2>1, <3>3, LoopStart, Zenon
    <3>5. started' = started \cup {x} /\ queue' = [queue EXCEPT ![x] = @ \cup {InitTask}]
      BY <1>1, <2>1, <3>3, LoopStart, Zenon
    <3>6. PICK f, g : f = [at |-> "pump", p |-> x] /\ g = [Last(stack[y]) EXCEPT !.at = "push"]
      OBVIOUS
    <3>7. LoopCalls(x, x, c, y, f, g)
      BY <2>1, <3>2, <3>4, <3>6, LoopRanges, Zenon
    <3>8. f \in PumpFrame /\ f.at = "pump" /\ f.p = x /\ Range(stack'[x]) = {f} /\ Plain(f)
      BY <3>2, <3>7, PlainKinds DEF LoopCalls
    <3>9. y # None =>
             /\ y \in OSThreads /\ stack[y] # <<>> /\ Last(stack[y]) \in PostFrame
             /\ g.at = "push" /\ g.p = Last(stack[y]).p /\ g.task = Last(stack[y]).task
             /\ Range(stack[y]) = Range(Front(stack[y])) \cup {Last(stack[y])}
             /\ Range(stack'[y]) = Range(Front(stack[y])) \cup {g}
      BY <3>7, Zenon DEF LoopCalls
    <3>10. \A z \in OSThreads : z # x /\ z # y => stack'[z] = stack[z]
      BY <3>7, Zenon DEF LoopCalls
    <3>11. x \in namedThreads
      <4>1. PostTask(x) # None
        BY <2>2, Zenon DEF GetSharedState
      <4>2. x \in namedDMPs \cup namedThreads
        BY <4>1, PostTaskFacts
      <4>3. x \notin namedDMPs
        BY <1>2, ThreadAssumption DEF TypeInv
      <4> QED
        BY <4>2, <4>3
    <3>12. CallOK(x, f)'
      <4>1. x \in started' /\ RunsOn(x, x)'
        BY <1>1, <3>5, <3>11 DEF RunsOn
      <4> QED
        BY <3>8, <4>1 DEF CallOK, Posting
    <3>13. ASSUME y # None
           PROVE  /\ Last(stack[y]).at \in Posting /\ CallOK(y, g)'
                  /\ \A h \in Range(stack[y]) : h.at # "name"
      <4>1. Last(stack[y]).at \in Posting /\ Last(stack[y]) \in Range(stack[y]) /\ y \in OSThreads
        BY <3>9, <3>13, PlainKinds
      <4>2. CallOK(y, Last(stack[y]))
        BY <4>1, Zenon DEF ThreadInv
      <4>3. g.task.h \in AsTask /\ Owner[g.task.h] = g.p
        BY <3>9, <3>13, <4>1, <4>2, Zenon DEF CallOK
      <4>4. CallOK(y, g)'
        BY <3>9, <3>13, <4>3 DEF CallOK, Posting
      <4>5. ASSUME NEW h \in Range(stack[y]), h.at = "name" PROVE FALSE
        <5>1. Range(stack[y]) = {h}
          BY <4>1, <4>5, NameAlone, Zenon
        <5>2. Last(stack[y]) = h
          BY <4>1, <5>1
        <5> QED
          BY <4>1, <4>5, <5>2 DEF Posting
      <4> QED
        BY <4>1, <4>4, <4>5
    <3>14. ASSUME NEW z \in OSThreads \ {x}
           PROVE  /\ \A h : h.at \in {"create", "name"} => (h \in Range(stack'[z]) <=> h \in Range(stack[z]))
                  /\ stack[z] = <<>> => stack'[z] = <<>>
                  /\ \A h \in Range(stack'[z]) : h \in Range(stack[z]) \/ CallOK(z, h)'
                  /\ \A h \in Range(stack'[z]) : h.at = "name" => stack'[z] = stack[z]
      <4>1. CASE z # y
        <5>1. stack'[z] = stack[z]
          BY <3>10, <4>1
        <5> QED
          BY <5>1, Zenon
      <4>2. CASE z = y
        <5>1. y # None
          BY <4>2, ThreadAssumption
        <5>2. ASSUME NEW h, h.at \in {"create", "name"} PROVE h \in Range(stack'[z]) <=> h \in Range(stack[z])
          <6>1. h # g /\ h # Last(stack[y])
            BY <3>9, <3>13, <5>1, <5>2 DEF Posting
          <6> QED
            BY <3>9, <4>2, <5>1, <6>1
        <5>3. stack[z] # <<>>
          BY <3>9, <4>2, <5>1
        <5>4. \A h \in Range(stack'[z]) : h \in Range(stack[z]) \/ CallOK(z, h)'
          <6>1. \A h \in Range(stack'[y]) : h \in Range(stack[y]) \/ h = g
            BY <3>9, <5>1
          <6> QED
            BY <3>13, <4>2, <5>1, <6>1, Zenon
        <5>5. ASSUME NEW h \in Range(stack'[z]), h.at = "name" PROVE stack'[z] = stack[z]
          <6>1. h \in Range(stack[z])
            BY <5>2, <5>5
          <6> QED
            BY <3>13, <4>2, <5>1, <5>5, <6>1, Zenon
        <5> QED
          BY <5>2, <5>3, <5>4, <5>5, Zenon
      <4> QED
        BY <4>1, <4>2
    <3>15. started \subseteq started' /\ \A p \in Pumps : \A t \in queue'[p] : t \in queue[p] \/ t = InitTask
      BY <3>5 DEF TypeInv
    <3> QED
      BY <1>1, <1>2, <3>8, <3>12, <3>14, <3>15, NameEnds, Zenon
  <2>3. CASE UNCHANGED <<stack, started, queue>>
    <3>1. Births' = Births
      BY <2>3, Zenon DEF Births, Frames
    <3>2. BeingCreated' = BeingCreated /\ \A w, d : InCall(w, d)' <=> InCall(w, d)
      BY <3>1, BirthsFacts, Zenon DEF InCall
    <3>3. ASSUME NEW z \in OSThreads, NEW h \in Range(stack'[z])
          PROVE  CallOK(z, h)' /\ (h.at = "name" => stack'[z] = <<h>>)
      <4>1. CallOK(z, h) /\ (h.at = "name" => stack[z] = <<h>>)
        BY <2>3, <3>3, Zenon DEF ThreadInv
      <4>2. CallOK(z, h)'
        BY <1>1, <2>3, <4>1, CallOKKept
      <4> QED
        BY <2>3, <4>1, <4>2, Zenon
    <3>4. ASSUME NEW o \in Delegates \ mixed', stack'[o] # <<>> PROVE osName'[o] = o \/ InCall("name", o)'
      <4>1. o \in Delegates \ mixed /\ stack[o] # <<>>
        BY <1>1, <2>3, <3>4, Zenon
      <4>2. osName[o] = o \/ InCall("name", o)
        BY <4>1, Zenon DEF ThreadInv
      <4> QED
        BY <1>4, <3>2, <4>1, <4>2, Zenon
    <3>5. ASSUME NEW o \in Threads \ mixed', stack'[o] # <<>> PROVE Id'[o] = o \/ InCall("create", o)'
      BY <1>1, <2>3, <3>2, <3>5, Zenon DEF ThreadInv
    <3>6. BeingCreated' \subseteq {threadHandle'} \/ BeingCreated' \cup {threadHandle'} \subseteq mixed'
      BY <1>1, <3>2, Zenon DEF ThreadInv
    <3>7. /\ queueGuard' \subseteq started' /\ \A r \in Runners : Id'[r] # None => r \in namedDMPs'
          /\ \A p \in Pumps : \A t \in queue'[p] : t = InitTask \/ (t.h \in AsTask /\ Owner[t.h] = p)
      BY <1>1, <2>3, Zenon DEF ThreadInv
    <3> QED
      BY <3>3, <3>4, <3>5, <3>6, <3>7, Zenon DEF ThreadInv
  <2> QED
    BY <1>7, <2>2, <2>3, Zenon DEF ThreadMain
<1> QED
  BY <1>6, <1>7, Zenon DEF ThreadStartFunction

LEMMA ThreadInit == Init => ThreadInv
<1> SUFFICES ASSUME Init PROVE ThreadInv
  OBVIOUS
<1>1. PICK u : u = User(InitTask)
  OBVIOUS
<1>2. u.at = "user" /\ u.task = InitTask /\ u.task.h \notin AsTask
  BY <1>1, TaskFacts, MadeFrames, HandlerAssumption
<1>3. ASSUME NEW x \in OSThreads, NEW f \in Range(stack[x]) PROVE f = u
  <2>1. stack[x] = IF x = MainThread THEN <<u>> ELSE <<>>
    BY <1>1 DEF Init
  <2>2. Range(<<u>>) = {u} /\ Range(<<>>) = {}
    BY DEF Range
  <2> QED
    BY <1>3, <2>1, <2>2
<1>4. \A x \in OSThreads : \A f \in Range(stack[x]) : CallOK(x, f) /\ f.at # "name"
  BY <1>2, <1>3 DEF CallOK, Posting
<1>5. BeingCreated = {}
  <2> SUFFICES ASSUME NEW f \in Births PROVE FALSE
    BY BirthsFacts, Zenon
  <2>1. f.at \in {"create", "name"} /\ f = u
    BY <1>3, Zenon DEF Births, Frames
  <2> QED
    BY <1>2, <2>1
<1>6. \A d \in Delegates : stack[d] = <<>>
  BY ThreadAssumption DEF Init, OSThreads
<1>7. /\ queueGuard \subseteq started /\ \A r \in Runners : Id[r] # None => r \in namedDMPs
      /\ \A p \in Pumps : \A t \in queue[p] : t = InitTask \/ (t.h \in AsTask /\ Owner[t.h] = p)
  BY DEF Init
<1>8. \A d \in Threads : d \in Delegates
  BY DEF Delegates
<1> QED
  BY <1>4, <1>5, <1>6, <1>7, <1>8 DEF ThreadInv

LEMMA ThreadStep ==
    ASSUME TypeInv, HubInv, ThreadInv, [Next]_vars
    PROVE  ThreadInv'
<1>1. ASSUME NEW x \in OSThreads, NEW d \in Threads, StartThread(x, d) PROVE ThreadInv'
  <2>1. At(x, "user") /\ stack[d] = <<>> /\ Create(x, d) /\ Id' = Id /\ d \in Delegates
    BY <1>1, Zenon DEF StartThread, Delegates
  <2> QED
    BY <2>1, ThreadCreate
<1>2. ASSUME NEW x \in OSThreads, NEW d \in Workers, StartWorker(x, d) PROVE ThreadInv'
  <2>1. At(x, "user") /\ stack[d] = <<>> /\ Create(x, d) /\ Id' = [Id EXCEPT ![d] = x] /\ d \in Delegates
    BY <1>2, Zenon DEF StartWorker, Delegates
  <2> QED
    BY <2>1, ThreadCreate
<1>3. ASSUME NEW x \in OSThreads, Calls(x) \/ Runs(x) PROVE ThreadInv'
  BY <1>1, <1>2, <1>3, ThreadHub, ThreadDispatch, ThreadPumps, ThreadRunners,
     ThreadCreateReturns, ThreadStart, Zenon DEF Calls, Runs
<1>4. CASE UNCHANGED vars
  <2>1. Births' = Births
    BY <1>4, Zenon DEF Births, Frames, vars
  <2>2. Kept({})
    BY <1>4, <2>1, Zenon DEF Kept, vars, ThreadInv
  <2>3. Grows
    BY <1>4, GrowsSame, Zenon DEF vars, threadVars, dispatcherVars, pumpVars
  <2> QED
    BY <2>2, <2>3, ThreadKept
<1> QED
  BY <1>3, <1>4, Zenon DEF Next

\* What runs on a thread has the thread's Id, and an unmixed thread its name.
LEMMA ThreadImplies ==
    ASSUME TypeInv, ThreadInv
    PROVE  ThreadIdentity
<1>1. ASSUME NEW x \in OSThreads, NEW f \in Range(stack[x]), NEW p, RunsOn(p, x)
      PROVE  IsCorrectThread(p, x) \/ (p \in mixed \cup BeingCreated /\ x = p)
  <2>1. x # None
    BY ThreadAssumption
  <2>2. None \notin namedDMPs /\ None \notin namedThreads
    BY ThreadAssumption DEF TypeInv, Pumps
  <2>3. CASE p \in Runners /\ Id[p] = x
    <3>1. p \in namedDMPs
      BY <2>1, <2>3, Zenon DEF ThreadInv
    <3>2. GetTaskRunner(p) = p /\ p # None
      BY <2>2, <3>1, Zenon DEF GetTaskRunner
    <3> QED
      BY <2>3, <3>2 DEF IsCorrectThread, GetThreadId
  <2>4. CASE p \in namedThreads /\ p = x /\ p \notin mixed \cup BeingCreated
    <3>1. p \in Threads /\ p \in Delegates /\ p \notin namedDMPs /\ p # None
      BY <2>2, <2>4, ThreadAssumption DEF TypeInv, Delegates
    <3>2. stack[p] # <<>>
      <4>1. Range(<<>>) = {}
        BY DEF Range
      <4> QED
        BY <1>1, <2>4, <4>1
    <3>3. Id[p] = p \/ InCall("create", p)
      BY <2>4, <3>1, <3>2, Zenon DEF ThreadInv
    <3>4. ~InCall("create", p)
      BY <2>4, BirthsFacts, Zenon DEF InCall
    <3>5. GetTaskRunner(p) = None /\ GetThread(p) = p
      BY <2>4, <3>1, Zenon DEF GetTaskRunner, GetThread
    <3> QED
      BY <2>4, <3>1, <3>3, <3>4, <3>5 DEF IsCorrectThread, GetThreadId
  <2> QED
    BY <1>1, <2>3, <2>4, Zenon DEF RunsOn
<1>2. \A x \in OSThreads : \A f \in Range(stack[x]) :
         f.at = "user" /\ f.task.h \in AsTask => RunsOn(Owner[f.task.h], x)
  BY Zenon DEF ThreadInv, CallOK
<1>3. ASSUME NEW d \in Delegates \ (mixed \cup BeingCreated), stack[d] # <<>> PROVE osName[d] = d
  <2>1. osName[d] = d \/ InCall("name", d)
    BY <1>3, Zenon DEF ThreadInv
  <2>2. ~InCall("name", d)
    BY <1>3, BirthsFacts, Zenon DEF InCall
  <2> QED
    BY <2>1, <2>2
<1> QED
  BY <1>1, <1>2, <1>3, Zenon DEF ThreadIdentity

---------------------------------------------------------------------------
(* The hub.                                                                *)

\* The erasing calls of s2 are calls of s.
NoErase(s, s2) == \A f \in Range(s2) : f.at = "erase" => f \in Range(s)

LEMMA EraseFrames ==
    ASSUME NEW f \in Frames', \A y \in OSThreads : NoErase(stack[y], stack'[y]), f.at = "erase"
    PROVE  f \in Frames
<1>1. PICK y \in OSThreads : f \in Range(stack'[y])
  BY Zenon DEF Frames
<1>2. f \in Range(stack[y])
  BY <1>1, Zenon DEF NoErase
<1> QED
  BY <1>2, Zenon DEF Frames

\* A step that neither erases nor touches the hub's data.
LEMMA HubKept ==
    ASSUME HubInv, UNCHANGED hubVars, \A y \in OSThreads : NoErase(stack[y], stack'[y])
    PROVE  HubInv'
<1>1. \A f \in Frames' : f.at = "erase" => f \in Frames
  BY EraseFrames
<1>2. /\ UNCHANGED <<eventHandlers, registered, used, raced>>
      /\ \A v, e : VectorOK(v, e)' <=> VectorOK(v, e)
      /\ \A f : EraseOK(f)' <=> EraseOK(f)
  BY Zenon DEF hubVars, VectorOK, EraseOK
<1>3. \A e \in DOMAIN eventHandlers' : VectorOK(eventHandlers[e], e)'
  BY <1>2, Zenon DEF HubInv
<1>4. \A f \in Frames' : f.at = "erase" => EraseOK(f)'
  BY <1>1, <1>2, Zenon DEF HubInv
<1>5. \A f, g \in Frames' : f.at = "erase" /\ g.at = "erase" /\ f.e = g.e /\ f # g => f.h \in raced'
  BY <1>1, <1>2, Zenon DEF HubInv
<1>6. \A h \in Handlers \ raced' :
         h \in registered' <=> EventOf[h] \in DOMAIN eventHandlers' /\ h \in Range(eventHandlers'[EventOf[h]])
  BY <1>2, Zenon DEF HubInv
<1> QED
  BY <1>3, <1>4, <1>5, <1>6, Zenon DEF HubInv

\* The vector of a handler that is new to it.
LEMMA AppendNoRepeat ==
    ASSUME NEW S, NEW s \in Seq(S), NEW h \in S, IsInjective(s), h \notin Range(s)
    PROVE  IsInjective(Append(s, h))
<1>1. /\ DOMAIN Append(s, h) = 1 .. Len(s) + 1 /\ DOMAIN s = 1 .. Len(s) /\ Len(s) \in Nat
      /\ \A i \in 1 .. Len(s) : Append(s, h)[i] = s[i]
      /\ Append(s, h)[Len(s) + 1] = h
  BY AppendFacts
<1>2. \A i \in 1 .. Len(s) : s[i] # h
  BY <1>1 DEF Range
<1>3. \A i, j \in 1 .. Len(s) : s[i] = s[j] => i = j
  BY <1>1 DEF IsInjective
<1>4. PICK n, c : n = Len(s) /\ c = Append(s, h)
  OBVIOUS
<1>5. \A i, j \in 1 .. n + 1 : c[i] = c[j] => i = j
  <2> SUFFICES ASSUME NEW i \in 1 .. n + 1, NEW j \in 1 .. n + 1, c[i] = c[j] PROVE i = j
    OBVIOUS
  <2>1. n \in Nat
    BY <1>1, <1>4
  <2>2. CASE i = n + 1 /\ j = n + 1
    BY <2>2
  <2>3. CASE i \in 1 .. n /\ j \in 1 .. n
    BY <1>1, <1>3, <1>4, <2>3
  <2>4. CASE i = n + 1 /\ j \in 1 .. n
    BY <1>1, <1>2, <1>4, <2>4
  <2>5. CASE i \in 1 .. n /\ j = n + 1
    BY <1>1, <1>2, <1>4, <2>5
  <2> QED
    BY <2>1, <2>2, <2>3, <2>4, <2>5
<1> QED
  BY <1>1, <1>4, <1>5, Zenon DEF IsInjective

LEMMA EmptyVector == \A e : VectorOK(<<>>, e) /\ Range(<<>>) = {}
BY DEF VectorOK, IsInjective, Range

\* eventHandlers' is At0 of the event, and nothing else of the hub matters.
LEMMA HubAt0 ==
    ASSUME HubInv, NEW e, eventHandlers' = At0(eventHandlers, e), UNCHANGED <<registered, used>>,
           raced \subseteq raced'
    PROVE  /\ \A d \in DOMAIN eventHandlers' : VectorOK(eventHandlers[d], d)'
           /\ \A h \in Handlers \ raced' :
                 h \in registered' <=> EventOf[h] \in DOMAIN eventHandlers' /\ h \in Range(eventHandlers'[EventOf[h]])
           /\ \A f \in Frames : f.at = "erase" => EraseOK(f)'
<1>1. /\ DOMAIN eventHandlers' = DOMAIN eventHandlers \cup {e}
      /\ \A d \in DOMAIN eventHandlers : eventHandlers'[d] = eventHandlers[d]
      /\ e \notin DOMAIN eventHandlers => eventHandlers'[e] = <<>>
  BY DEF At0
<1>2. \A v, d : VectorOK(v, d)' <=> VectorOK(v, d)
  BY Zenon DEF VectorOK
<1>3. ASSUME NEW d \in DOMAIN eventHandlers' PROVE VectorOK(eventHandlers[d], d)'
  <2>1. CASE d \in DOMAIN eventHandlers
    BY <1>1, <1>2, <2>1, Zenon DEF HubInv
  <2>2. CASE d \notin DOMAIN eventHandlers
    <3>1. eventHandlers'[d] = <<>>
      BY <1>1, <1>3, <2>2, Zenon
    <3> QED
      BY <1>2, <3>1, EmptyVector, Zenon
  <2> QED
    BY <2>1, <2>2
<1>4. ASSUME NEW h \in Handlers \ raced'
      PROVE  h \in registered' <=> EventOf[h] \in DOMAIN eventHandlers' /\ h \in Range(eventHandlers'[EventOf[h]])
  <2>1. h \in registered <=> EventOf[h] \in DOMAIN eventHandlers /\ h \in Range(eventHandlers[EventOf[h]])
    BY <1>4, Zenon DEF HubInv
  <2>2. CASE EventOf[h] \in DOMAIN eventHandlers
    BY <1>1, <2>1, <2>2, Zenon
  <2>3. CASE EventOf[h] = e /\ e \notin DOMAIN eventHandlers
    <3>1. Range(eventHandlers'[e]) = {}
      BY <1>1, <2>3, EmptyVector, Zenon
    <3> QED
      BY <2>1, <2>3, <3>1
  <2>4. CASE EventOf[h] \notin DOMAIN eventHandlers \cup {e}
    BY <1>1, <2>1, <2>4, Zenon
  <2> QED
    BY <2>2, <2>3, <2>4
<1>5. ASSUME NEW f \in Frames, f.at = "erase" PROVE EraseOK(f)'
  <2>1. EraseOK(f)
    BY <1>5, Zenon DEF HubInv
  <2> QED
    BY <1>1, <1>2, <2>1, Zenon DEF EraseOK
<1> QED
  BY <1>3, <1>4, <1>5

LEMMA HubRegister ==
    ASSUME TypeInv, HubInv, NEW x \in OSThreads,
           \/ \E e \in Events : RegisterEvent(x, e)
           \/ \E h \in Handlers : RegisterEventHandler(x, h)
    PROVE  HubInv'
<1>1. UNCHANGED stack
  BY Zenon DEF RegisterEvent, RegisterEventHandler
<1>2. Frames' = Frames
  BY <1>1, Zenon DEF Frames
<1>3. ASSUME NEW e \in Events, RegisterEvent(x, e) PROVE HubInv'
  <2>1. eventHandlers' = At0(eventHandlers, e) /\ UNCHANGED <<registered, used, raced>>
    BY <1>3, Zenon DEF RegisterEvent
  <2>2. /\ \A d \in DOMAIN eventHandlers' : VectorOK(eventHandlers[d], d)'
        /\ \A h \in Handlers \ raced' :
              h \in registered' <=> EventOf[h] \in DOMAIN eventHandlers' /\ h \in Range(eventHandlers'[EventOf[h]])
        /\ \A f \in Frames : f.at = "erase" => EraseOK(f)'
    BY <2>1, HubAt0
  <2> QED
    BY <1>2, <2>1, <2>2, Zenon DEF HubInv
<1>4. ASSUME NEW h \in Handlers, RegisterEventHandler(x, h), EventOf[h] \notin DOMAIN eventHandlers
      PROVE  HubInv'
  <2>1. UNCHANGED hubVars
    BY <1>4, Zenon DEF RegisterEventHandler, hubVars
  <2>2. \A y \in OSThreads : NoErase(stack[y], stack'[y])
    BY <1>1, Zenon DEF NoErase
  <2> QED
    BY <2>1, <2>2, HubKept
<1>5. ASSUME NEW h \in Handlers, RegisterEventHandler(x, h), EventOf[h] \in DOMAIN eventHandlers
      PROVE  HubInv'
  <2>1. PICK e, v : e = EventOf[h] /\ v = eventHandlers[e]
    OBVIOUS
  <2>2. /\ h \notin used /\ used' = used \cup {h} /\ registered' = registered \cup {h}
        /\ eventHandlers' = [eventHandlers EXCEPT ![e] = Append(@, h)]
        /\ raced' = IF Erasing(e) = {} THEN raced ELSE raced \cup {h}
    BY <1>5, <2>1, Zenon DEF RegisterEventHandler
  <2>3. v \in Seq(Handlers) /\ VectorOK(v, e)
    BY <1>5, <2>1, Zenon DEF TypeInv, HubInv
  <2>4. h \notin Range(v) /\ IsInjective(Append(v, h)) /\ Range(Append(v, h)) = Range(v) \cup {h}
    <3>1. h \notin Range(v) /\ IsInjective(v)
      BY <2>2, <2>3, Zenon DEF VectorOK
    <3>2. IsInjective(Append(v, h))
      BY <2>3, <3>1, AppendNoRepeat
    <3>3. Range(Append(v, h)) = Range(v) \cup {h}
      BY <2>3, AppendRange
    <3> QED
      BY <3>1, <3>2, <3>3
  <2>5. DOMAIN eventHandlers' = DOMAIN eventHandlers /\ eventHandlers'[e] = Append(v, h)
        /\ \A d \in DOMAIN eventHandlers : d # e => eventHandlers'[d] = eventHandlers[d]
    BY <1>5, <2>1, <2>2
  <2>6. \A u, d : VectorOK(u, d) => VectorOK(u, d)'
    BY <2>2 DEF VectorOK
  <2>7. \A d \in DOMAIN eventHandlers' : VectorOK(eventHandlers[d], d)'
    <3>1. VectorOK(Append(v, h), e)'
      BY <2>1, <2>2, <2>3, <2>4 DEF VectorOK
    <3> QED
      BY <2>5, <2>6, <3>1, Zenon DEF HubInv
  <2>8. raced \subseteq raced'
    BY <2>2
  <2>9. ASSUME NEW g \in Handlers \ raced'
        PROVE  g \in registered' <=> EventOf[g] \in DOMAIN eventHandlers' /\ g \in Range(eventHandlers'[EventOf[g]])
    <3>1. CASE g = h
      <4>1. h \in Range(Append(v, h))
        BY <2>4
      <4> QED
        BY <1>5, <2>1, <2>2, <2>5, <3>1, <4>1
    <3>2. CASE g # h
      <4>1. g \in registered <=> EventOf[g] \in DOMAIN eventHandlers /\ g \in Range(eventHandlers[EventOf[g]])
        BY <2>8, <2>9, Zenon DEF HubInv
      <4>2. g \in registered' <=> g \in registered
        BY <2>2, <3>2
      <4>3. CASE EventOf[g] = e
        BY <2>1, <2>4, <2>5, <3>2, <4>1, <4>2, <4>3
      <4>4. CASE EventOf[g] # e
        BY <2>5, <4>1, <4>2, <4>4, Zenon
      <4> QED
        BY <4>3, <4>4
    <3> QED
      BY <3>1, <3>2
  <2>10. ASSUME NEW f \in Frames, f.at = "erase" PROVE EraseOK(f)'
    <3>1. EraseOK(f)
      BY <2>10, Zenon DEF HubInv
    <3>2. f.e = e => h \in raced'
      <4>1. ASSUME f.e = e PROVE f.h \in Erasing(e)
        BY <2>10, <4>1, Zenon DEF Erasing
      <4> QED
        BY <2>2, <4>1
    <3>3. ASSUME NEW g \in Handlers \ (raced' \cup {f.h}), EventOf[g] = f.e
          PROVE  g \in registered' <=> g \in Range(f.handlers)
      <4>1. g # h
        BY <2>1, <3>2, <3>3
      <4>2. g \in registered <=> g \in Range(f.handlers)
        BY <2>8, <3>1, <3>3, Zenon DEF EraseOK
      <4> QED
        BY <2>2, <4>1, <4>2
    <3> QED
      BY <2>5, <2>6, <3>1, <3>3, Zenon DEF EraseOK
  <2> QED
    BY <1>2, <2>7, <2>8, <2>9, <2>10, Zenon DEF HubInv
<1> QED
  BY <1>3, <1>4, <1>5

\* The copy without h that Unregister makes.
LEMMA HubUnregister ==
    ASSUME TypeInv, HubInv, NEW x \in OSThreads, NEW h \in Handlers, UnregisterEventHandler(x, h)
    PROVE  HubInv'
<1>1. PICK e, v : e = EventOf[h] /\ v = RemoveFirst(At0(eventHandlers, e)[e], h)
  OBVIOUS
<1>2. PICK f : f = [at |-> "erase", e |-> e, h |-> h, handlers |-> v]
  OBVIOUS
<1>3. /\ e \in Events /\ v \in Seq(Handlers) /\ IsInjective(v)
      /\ e \in DOMAIN eventHandlers => Range(v) = Range(eventHandlers[e]) \ {h}
      /\ e \notin DOMAIN eventHandlers => Range(v) = {}
      /\ f \in EraseFrame /\ f.at = "erase" /\ f.e = e /\ f.h = h /\ f.handlers = v
      /\ stack' = [stack EXCEPT ![x] = Append(@, f)]
      /\ eventHandlers' = At0(eventHandlers, e)
  <2>1. Without(v, e, h)
    BY <1>1, <1>2, UnregisterFacts
  <2>2. e \in Events /\ v \in Seq(Handlers) /\ IsInjective(v)
    BY <1>1, <1>2, UnregisterFacts
  <2>3. f \in EraseFrame /\ f.at = "erase" /\ f.e = e /\ f.h = h /\ f.handlers = v
    BY <1>1, <1>2, UnregisterFacts
  <2>4. stack' = [stack EXCEPT ![x] = Append(@, f)] /\ eventHandlers' = At0(eventHandlers, e)
    BY <1>1, <1>2, UnregisterFacts
  <2> QED
    BY <2>1, <2>2, <2>3, <2>4 DEF Without
<1>4. /\ UNCHANGED <<registered, used>>
      /\ raced' = IF Erasing(e) = {} THEN raced ELSE raced \cup Erasing(e) \cup {h}
  BY <1>1, Zenon DEF UnregisterEventHandler
<1>5. raced \subseteq raced'
  BY <1>4
<1>6. /\ \A d \in DOMAIN eventHandlers' : VectorOK(eventHandlers[d], d)'
      /\ \A g \in Handlers \ raced' :
            g \in registered' <=> EventOf[g] \in DOMAIN eventHandlers' /\ g \in Range(eventHandlers'[EventOf[g]])
      /\ \A k \in Frames : k.at = "erase" => EraseOK(k)'
  BY <1>3, <1>4, <1>5, HubAt0
<1>7. ASSUME NEW k \in Frames' PROVE k \in Frames \/ k = f
  <2>1. PICK y \in OSThreads : k \in Range(stack'[y])
    BY <1>7, Zenon DEF Frames
  <2>2. stack \in [OSThreads -> Seq(Frame)] /\ f \in Frame
    BY <1>3, KindsAreFrames DEF TypeInv
  <2>3. CASE y = x
    <3>1. stack'[x] = Append(stack[x], f) /\ stack[x] \in Seq(Frame)
      BY <1>3, <2>2
    <3>2. Range(stack'[x]) = Range(stack[x]) \cup {f}
      BY <2>2, <3>1, AppendRange
    <3> QED
      BY <2>1, <2>3, <3>2 DEF Frames
  <2>4. CASE y # x
    <3>1. stack'[y] = stack[y]
      BY <1>3, <2>2, <2>4
    <3> QED
      BY <2>1, <3>1, Zenon DEF Frames
  <2> QED
    BY <2>3, <2>4
<1>8. EraseOK(f)'
  <2>1. e \in DOMAIN eventHandlers' /\ \A g : VectorOK(g, e)' <=> VectorOK(g, e)
    BY <1>3, <1>4 DEF At0, VectorOK
  <2>2. h \notin Range(v) /\ \A g \in Range(v) : g \in used /\ EventOf[g] = e
    BY <1>3 DEF HubInv, VectorOK
  <2>3. VectorOK(v, e)
    BY <1>3, <2>2, Zenon DEF VectorOK
  <2>4. ASSUME NEW g \in Handlers \ (raced' \cup {h}), EventOf[g] = e
        PROVE  g \in registered <=> g \in Range(v)
    <3>1. g \in registered <=> EventOf[g] \in DOMAIN eventHandlers /\ g \in Range(eventHandlers[EventOf[g]])
      BY <1>5, <2>4, Zenon DEF HubInv
    <3> QED
      BY <1>3, <2>4, <3>1
  <2>5. EventOf[h] = e
    BY <1>1
  <2> QED
    BY <1>3, <1>4, <2>1, <2>2, <2>3, <2>4, <2>5, Zenon DEF EraseOK
<1>9. ASSUME NEW k \in Frames', NEW g \in Frames', k.at = "erase", g.at = "erase", k.e = g.e, k # g
      PROVE  k.h \in raced'
  <2>1. \A j \in Frames : j.at = "erase" /\ j.e = e => j.h \in Erasing(e)
    BY Zenon DEF Erasing
  <2>2. CASE k \in Frames /\ g \in Frames
    BY <1>5, <1>9, <2>2, Zenon DEF HubInv
  <2>3. CASE k = f /\ g \in Frames
    BY <1>3, <1>4, <1>9, <2>1, <2>3
  <2>4. CASE g = f /\ k \in Frames
    BY <1>3, <1>4, <1>9, <2>1, <2>4
  <2> QED
    BY <1>7, <1>9, <2>2, <2>3, <2>4
<1>10. \A k \in Frames' : k.at = "erase" => EraseOK(k)'
  BY <1>6, <1>7, <1>8, Zenon
<1> QED
  BY <1>6, <1>9, <1>10, Zenon DEF HubInv

\* The copy goes back over the table's vector.
LEMMA HubStore ==
    ASSUME TypeInv, HubInv, NEW x \in OSThreads, StoreHandlers(x)
    PROVE  HubInv'
<1>1. At(x, "erase") /\ stack' = [stack EXCEPT ![x] = Front(@)] /\ UNCHANGED <<used, raced>>
  BY Zenon DEF StoreHandlers, Return
<1>2. PICK f : f = Top(x)
  OBVIOUS
<1>3. /\ f.at = "erase" /\ f \in Range(stack[x]) /\ f \in Frames
      /\ Range(Front(stack[x])) \subseteq Range(stack[x])
  BY <1>1, <1>2, TopFacts DEF Frames
<1>4. EraseOK(f)
  BY <1>3, Zenon DEF HubInv
<1>5. eventHandlers' = [eventHandlers EXCEPT ![f.e] = f.handlers] /\ registered' = registered \ {f.h}
  BY <1>2, Zenon DEF StoreHandlers
<1>6. /\ DOMAIN eventHandlers' = DOMAIN eventHandlers /\ eventHandlers'[f.e] = f.handlers
      /\ \A d \in DOMAIN eventHandlers : d # f.e => eventHandlers'[d] = eventHandlers[d]
  BY <1>4, <1>5 DEF EraseOK
<1>7. \A v, d : VectorOK(v, d)' <=> VectorOK(v, d)
  BY <1>1, Zenon DEF VectorOK
<1>8. \A d \in DOMAIN eventHandlers' : VectorOK(eventHandlers[d], d)'
  BY <1>4, <1>6, <1>7, Zenon DEF HubInv, EraseOK
<1>9. ASSUME NEW h \in Handlers \ raced'
      PROVE  h \in registered' <=> EventOf[h] \in DOMAIN eventHandlers' /\ h \in Range(eventHandlers'[EventOf[h]])
  <2>1. EventOf[f.h] = f.e /\ f.e \in DOMAIN eventHandlers /\ f.h \notin Range(f.handlers)
    BY <1>4, Zenon DEF EraseOK
  <2>2. CASE h = f.h
    BY <1>5, <1>6, <2>1, <2>2
  <2>3. CASE h # f.h /\ EventOf[h] = f.e
    <3>1. h \in registered <=> h \in Range(f.handlers)
      BY <1>1, <1>4, <1>9, <2>3, Zenon DEF EraseOK
    <3> QED
      BY <1>5, <1>6, <2>1, <2>3, <3>1
  <2>4. CASE EventOf[h] # f.e
    <3>1. h \in registered <=> EventOf[h] \in DOMAIN eventHandlers /\ h \in Range(eventHandlers[EventOf[h]])
      BY <1>1, <1>9, Zenon DEF HubInv
    <3> QED
      BY <1>5, <1>6, <2>1, <2>4, <3>1
  <2> QED
    BY <2>2, <2>3, <2>4
<1>10. ASSUME NEW y \in OSThreads PROVE NoErase(stack[y], stack'[y])
  <2>1. stack'[y] = IF y = x THEN Front(stack[x]) ELSE stack[y]
    BY <1>1 DEF TypeInv
  <2> QED
    BY <1>3, <2>1 DEF NoErase
<1>11. \A k \in Frames' : k.at = "erase" => k \in Frames
  BY <1>10, EraseFrames
<1>12. ASSUME NEW k \in Frames', k.at = "erase" PROVE EraseOK(k)'
  <2>1. k \in Frames /\ EraseOK(k)
    BY <1>11, <1>12, Zenon DEF HubInv
  <2>2. ASSUME NEW h \in Handlers \ (raced' \cup {k.h}), EventOf[h] = k.e
        PROVE  h \in registered' <=> h \in Range(k.handlers)
    <3>1. h \in registered <=> h \in Range(k.handlers)
      BY <1>1, <2>1, <2>2, Zenon DEF EraseOK
    <3>2. h # f.h
      <4> SUFFICES ASSUME h = f.h PROVE FALSE
        OBVIOUS
      <4>1. k # f /\ k.e = f.e
        BY <1>4, <2>2 DEF EraseOK
      <4>2. f.h \in raced
        BY <1>3, <1>12, <2>1, <4>1, Zenon DEF HubInv
      <4> QED
        BY <1>1, <2>2, <4>2
    <3> QED
      BY <1>5, <3>1, <3>2
  <2> QED
    BY <1>6, <1>7, <2>1, <2>2, Zenon DEF EraseOK
<1>13. \A k, g \in Frames' : k.at = "erase" /\ g.at = "erase" /\ k.e = g.e /\ k # g => k.h \in raced'
  BY <1>1, <1>11, Zenon DEF HubInv
<1> QED
  BY <1>8, <1>9, <1>12, <1>13, Zenon DEF HubInv

LEMMA HubInit == Init => HubInv
<1> SUFFICES ASSUME Init PROVE HubInv
  OBVIOUS
<1>1. PICK u : u = User(InitTask)
  OBVIOUS
<1>2. u.at = "user"
  BY <1>1, TaskFacts, MadeFrames
<1>3. ASSUME NEW f \in Frames PROVE f = u
  <2>1. PICK x \in OSThreads : f \in Range(stack[x])
    BY <1>3, Zenon DEF Frames
  <2>2. stack[x] = IF x = MainThread THEN <<u>> ELSE <<>>
    BY <1>1 DEF Init
  <2>3. Range(<<u>>) = {u} /\ Range(<<>>) = {}
    BY DEF Range
  <2> QED
    BY <2>1, <2>2, <2>3
<1>4. DOMAIN eventHandlers = {} /\ registered = {}
  BY DEF Init
<1> QED
  BY <1>2, <1>3, <1>4 DEF HubInv

---------------------------------------------------------------------------
(* What the calls carry.                                                   *)

LEMMA AppendLoads ==
    ASSUME NEW s \in Seq(Frame), NEW f \in Frame
    PROVE  \A i \in Nat, t \in EventTasks :
              Carried(Append(s, f), i, t) <=> Carried(s, i, t) \/ (i = Len(s) + 1 /\ Carries(f, t))
<1>1. PICK n, c : n = Len(s) /\ c = Append(s, f)
  OBVIOUS
<1>2. /\ n \in Nat /\ DOMAIN s = 1 .. n /\ DOMAIN c = 1 .. n + 1 /\ c[n + 1] = f
      /\ \A i \in 1 .. n : c[i] = s[i]
  BY <1>1, AppendFacts
<1>3. ASSUME NEW i \in Nat, NEW t \in EventTasks
      PROVE  Carried(c, i, t) <=> Carried(s, i, t) \/ (i = n + 1 /\ Carries(f, t))
  <2>1. CASE i \in 1 .. n
    <3>1. i \in 1 .. n + 1 /\ i # n + 1
      BY <1>2, <2>1
    <3> QED
      BY <1>2, <2>1, <3>1, Zenon DEF Carried
  <2>2. CASE i = n + 1
    <3>1. i \in 1 .. n + 1 /\ i \notin 1 .. n
      BY <1>2, <2>2
    <3> QED
      BY <1>2, <2>2, <3>1, Zenon DEF Carried
  <2>3. CASE i \notin 1 .. n + 1
    <3>1. i \notin 1 .. n /\ i # n + 1
      BY <1>2, <2>3
    <3> QED
      BY <1>2, <2>3, <3>1, Zenon DEF Carried
  <2>4. i \in 1 .. n \/ i = n + 1 \/ i \notin 1 .. n + 1
    BY <1>2
  <2> QED
    BY <2>1, <2>2, <2>3, <2>4
<1> QED
  BY <1>1, <1>3, Zenon

LEMMA FrontLoads ==
    ASSUME NEW s \in Seq(Frame), s # <<>>
    PROVE  /\ \A i \in Nat, t \in EventTasks : Carried(Front(s), i, t) <=> Carried(s, i, t) /\ i # Len(s)
           /\ \A t \in EventTasks : Carried(s, Len(s), t) <=> Carries(Last(s), t)
<1>1. PICK n, c : n = Len(s) /\ c = Front(s)
  OBVIOUS
<1>2. /\ n \in Nat \ {0} /\ DOMAIN s = 1 .. n /\ DOMAIN c = 1 .. n - 1
      /\ \A i \in 1 .. n - 1 : c[i] = s[i]
  BY <1>1, FrontFacts
<1>3. ASSUME NEW i \in Nat, NEW t \in EventTasks
      PROVE  Carried(c, i, t) <=> Carried(s, i, t) /\ i # n
  <2>1. CASE i \in 1 .. n - 1
    <3>1. i \in 1 .. n /\ i # n
      BY <1>2, <2>1
    <3> QED
      BY <1>2, <2>1, <3>1, Zenon DEF Carried
  <2>2. CASE i \notin 1 .. n - 1
    <3>1. i \notin 1 .. n \/ i = n
      BY <1>2, <2>2
    <3> QED
      BY <1>2, <2>2, <3>1, Zenon DEF Carried
  <2> QED
    BY <2>1, <2>2
<1>4. n \in DOMAIN s /\ Last(s) = s[n]
  BY <1>1, <1>2 DEF Last
<1>5. \A t \in EventTasks : Carried(s, n, t) <=> Carries(Last(s), t)
  BY <1>4, Zenon DEF Carried
<1> QED
  BY <1>1, <1>3, <1>5, Zenon

Idle(f) == \A t \in EventTasks : ~Carries(f, t)

LEMMA IdleKinds ==
    ASSUME NEW f, f.at \notin Posting \cup {"loop"}
    PROVE  Idle(f)
BY Zenon DEF Idle, Carries

\* A thread's calls change from s to s2, carry the same, and loop over the same vectors.
LoopsKept(s, s2) == \A f \in Range(s2) : f.at = "loop" => \E g \in Range(s) : g.at = "loop" /\ g.handlers = f.handlers
SameLoads(s, s2) == \A i \in Nat, t \in EventTasks : Carried(s2, i, t) <=> Carried(s, i, t)
Quiet(s, s2) == LoopsKept(s, s2) /\ SameLoads(s, s2)

LEMMA QuietSame == \A s : Quiet(s, s) /\ NoErase(s, s)
BY Zenon DEF Quiet, LoopsKept, SameLoads, NoErase

LEMMA QuietAppend ==
    ASSUME NEW s \in Seq(Frame), NEW f \in Frame, f.at \notin Posting \cup {"loop"}
    PROVE  Quiet(s, Append(s, f)) /\ (f.at # "erase" => NoErase(s, Append(s, f)))
<1>1. Range(Append(s, f)) = Range(s) \cup {f} /\ Idle(f)
  BY AppendRange, IdleKinds
<1>2. LoopsKept(s, Append(s, f))
  BY <1>1, Zenon DEF LoopsKept
<1>3. SameLoads(s, Append(s, f))
  BY <1>1, AppendLoads, Zenon DEF SameLoads, Idle
<1> QED
  BY <1>1, <1>2, <1>3, Zenon DEF Quiet, NoErase

LEMMA QuietFront ==
    ASSUME NEW s \in Seq(Frame), s # <<>>, Idle(Last(s))
    PROVE  Quiet(s, Front(s)) /\ NoErase(s, Front(s))
<1>1. Range(s) = Range(Front(s)) \cup {Last(s)}
  BY FrontRange
<1>2. Range(Front(s)) \subseteq Range(s)
  BY <1>1
<1>3. SameLoads(s, Front(s))
  BY FrontLoads, Zenon DEF SameLoads, Idle
<1> QED
  BY <1>2, <1>3, Zenon DEF Quiet, NoErase, LoopsKept

LEMMA QuietSwap ==
    ASSUME NEW s \in Seq(Frame), s # <<>>, NEW g \in Frame, g.at \notin {"erase", "loop"},
           \A t \in EventTasks : Carries(g, t) <=> Carries(Last(s), t)
    PROVE  Quiet(s, Append(Front(s), g)) /\ NoErase(s, Append(Front(s), g))
<1>1. PICK c : c = Front(s)
  OBVIOUS
<1>2. c \in Seq(Frame) /\ Range(s) = Range(c) \cup {Last(s)} /\ Len(c) + 1 = Len(s)
  BY <1>1, FrontRange, FrontFacts
<1>3. Range(Append(c, g)) = Range(c) \cup {g}
  BY <1>2, AppendRange
<1>4. \A f \in Range(Append(c, g)) : f \in Range(s) \/ f = g
  BY <1>2, <1>3
<1>5. LoopsKept(s, Append(c, g)) /\ NoErase(s, Append(c, g))
  BY <1>4 DEF LoopsKept, NoErase
<1>6. ASSUME NEW i \in Nat, NEW t \in EventTasks PROVE Carried(Append(c, g), i, t) <=> Carried(s, i, t)
  <2>1. Carried(Append(c, g), i, t) <=> Carried(c, i, t) \/ (i = Len(c) + 1 /\ Carries(g, t))
    BY <1>2, AppendLoads
  <2>2. Carried(c, i, t) <=> Carried(s, i, t) /\ i # Len(s)
    BY <1>1, FrontLoads, Zenon
  <2>3. Carried(s, Len(s), t) <=> Carries(g, t)
    BY FrontLoads, Zenon
  <2> QED
    BY <1>2, <2>1, <2>2, <2>3, Zenon
<1> QED
  BY <1>1, <1>5, <1>6, Zenon DEF Quiet, SameLoads

\* A step in which no share of an event moves.
Still ==
    /\ \A y \in OSThreads : Quiet(stack[y], stack'[y])
    /\ UNCHANGED <<expected, ran, dropped>> /\ raced \subseteq raced'
    /\ \A p \in Pumps : \A t \in EventTasks : t \in queue'[p] <=> t \in queue[p]

LEMMA LoopFrames ==
    ASSUME NEW f \in Frames', \A y \in OSThreads : LoopsKept(stack[y], stack'[y]), f.at = "loop"
    PROVE  \E g \in Frames : g.at = "loop" /\ g.handlers = f.handlers
<1>1. PICK y \in OSThreads : f \in Range(stack'[y])
  BY Zenon DEF Frames
<1>2. PICK g \in Range(stack[y]) : g.at = "loop" /\ g.handlers = f.handlers
  BY <1>1, Zenon DEF LoopsKept
<1> QED
  BY <1>2, Zenon DEF Frames

LEMMA DeliveryStill ==
    ASSUME DeliveryInv, Still
    PROVE  DeliveryInv'
<1>1. \A f \in Frames' : f.at = "loop" => IsInjective(f.handlers)
  <2> SUFFICES ASSUME NEW f \in Frames', f.at = "loop" PROVE IsInjective(f.handlers)
    OBVIOUS
  <2>1. PICK g \in Frames : g.at = "loop" /\ g.handlers = f.handlers
    BY LoopFrames, Zenon DEF Still, Quiet
  <2> QED
    BY <2>1, Zenon DEF DeliveryInv
<1>2. ASSUME NEW t \in EventTasks, NEW x, NEW i \in Nat PROVE InPlace(t, x, i)' <=> InPlace(t, x, i)
  <2>1. x \in OSThreads => (Carried(stack'[x], i, t) <=> Carried(stack[x], i, t))
    BY Zenon DEF Still, Quiet, SameLoads
  <2>2. x \in Pumps => (t \in queue'[x] <=> t \in queue[x])
    BY Zenon DEF Still
  <2>3. dropped' = dropped /\ ran' = ran
    BY Zenon DEF Still
  <2>4. Carried(stack[x], i, t)' <=> Carried(stack'[x], i, t)
    BY Zenon DEF Carried, Carries
  <2> QED
    BY <2>1, <2>2, <2>3, <2>4, Zenon DEF InPlace
<1>3. \A t \in EventTasks : (Somewhere(t)' <=> Somewhere(t)) /\ (OnePlace(t)' <=> OnePlace(t))
  BY <1>2, Zenon DEF Somewhere, OnePlace
<1>4. expected' = expected /\ ran' = ran /\ raced \subseteq raced'
  BY Zenon DEF Still
<1>5. \A t \in EventTasks : Somewhere(t)' => t.k \in DOMAIN expected'
  BY <1>3, <1>4, Zenon DEF DeliveryInv
<1>6. \A t \in EventTasks : t.k \in DOMAIN expected' /\ t.h \notin raced' => (Somewhere(t)' <=> t.h \in expected'[t.k])
  BY <1>3, <1>4, Zenon DEF DeliveryInv
<1>7. \A t \in EventTasks : OnePlace(t)'
  BY <1>3, Zenon DEF DeliveryInv
<1>8. ran' \in [Tasks -> 0 .. 1] /\ ran'[InitTask] = 0
  BY <1>4, Zenon DEF DeliveryInv
<1> QED
  BY <1>1, <1>5, <1>6, <1>7, <1>8, Zenon DEF DeliveryInv

\* The share t moves from its place x0, i0 to x1, i1, and no other moves.
Moves(t, x0, i0, x1, i1) ==
    /\ \A y \in OSThreads, i \in Nat, u \in EventTasks :
          Carried(stack'[y], i, u) <=>
             \/ Carried(stack[y], i, u) /\ ~(u = t /\ y = x0 /\ i = i0)
             \/ u = t /\ y = x1 /\ i = i1 /\ i1 # 0
    /\ \A p \in Pumps, u \in EventTasks :
          u \in queue'[p] <=>
             \/ u \in queue[p] /\ ~(u = t /\ p = x0 /\ i0 = 0)
             \/ u = t /\ p = x1 /\ i1 = 0
    /\ \A u \in EventTasks : u \in dropped' <=> u \in dropped \/ (u = t /\ x1 = None /\ i1 = 0)
    /\ \A u \in EventTasks : ran'[u] # 0 <=> ran[u] # 0 \/ (u = t /\ x1 = None /\ i1 = 1)

LEMMA DeliveryMoves ==
    ASSUME DeliveryInv, NEW t \in EventTasks,
           NEW x0 \in OSThreads \cup Pumps, NEW i0 \in Nat, InPlace(t, x0, i0),
           NEW x1, NEW i1 \in Nat,
           (x1 \in OSThreads /\ i1 # 0) \/ (x1 \in Pumps /\ i1 = 0) \/ (x1 = None /\ i1 \in {0, 1}),
           Moves(t, x0, i0, x1, i1),
           \A y \in OSThreads : LoopsKept(stack[y], stack'[y]),
           UNCHANGED <<expected, raced>>, ran' \in [Tasks -> 0 .. 1], ran'[InitTask] = 0
    PROVE  DeliveryInv'
<1>1. x0 \in Places /\ x0 # None /\ x1 \in Places /\ \A y \in OSThreads \cup Pumps : y # None
  BY ThreadAssumption DEF Places
<1>2. \A y \in Places, i \in Nat : InPlace(t, y, i) => y = x0 /\ i = i0
  BY <1>1, Zenon DEF DeliveryInv, OnePlace
<1>3. ASSUME NEW u \in EventTasks, NEW y, NEW i \in Nat
      PROVE  InPlace(u, y, i)' <=> \/ y \in OSThreads /\ Carried(stack'[y], i, u)
                                   \/ y \in Pumps /\ i = 0 /\ u \in queue'[y]
                                   \/ y = None /\ i = 0 /\ u \in dropped'
                                   \/ y = None /\ i = 1 /\ ran'[u] # 0
  <2>1. Carried(stack[y], i, u)' <=> Carried(stack'[y], i, u)
    BY Zenon DEF Carried, Carries
  <2> QED
    BY <2>1, Zenon DEF InPlace
<1>4. ASSUME NEW u \in EventTasks, u # t, NEW y, NEW i \in Nat PROVE InPlace(u, y, i)' <=> InPlace(u, y, i)
  BY <1>3, <1>4, Zenon DEF InPlace, Moves
<1>5. ASSUME NEW y \in Places, NEW i \in Nat, InPlace(t, y, i)' PROVE y = x1 /\ i = i1
  <2>1. CASE y \in OSThreads /\ Carried(stack'[y], i, t)
    <3>1. (InPlace(t, y, i) /\ ~(y = x0 /\ i = i0)) \/ (y = x1 /\ i = i1)
      BY <2>1, Zenon DEF InPlace, Moves
    <3> QED
      BY <1>2, <3>1, Zenon
  <2>2. CASE y \in Pumps /\ i = 0 /\ t \in queue'[y]
    <3>1. (InPlace(t, y, i) /\ ~(y = x0 /\ i = i0)) \/ (y = x1 /\ i = i1)
      BY <2>2, Zenon DEF InPlace, Moves
    <3> QED
      BY <1>2, <3>1, Zenon
  <2>3. CASE y = None /\ i = 0 /\ t \in dropped'
    <3>1. InPlace(t, y, i) \/ (y = x1 /\ i = i1)
      BY <2>3, Zenon DEF InPlace, Moves
    <3> QED
      BY <1>1, <1>2, <2>3, <3>1, Zenon
  <2>4. CASE y = None /\ i = 1 /\ ran'[t] # 0
    <3>1. InPlace(t, y, i) \/ (y = x1 /\ i = i1)
      BY <2>4, Zenon DEF InPlace, Moves
    <3> QED
      BY <1>1, <1>2, <2>4, <3>1, Zenon
  <2>5. \/ y \in OSThreads /\ Carried(stack'[y], i, t)
        \/ y \in Pumps /\ i = 0 /\ t \in queue'[y]
        \/ y = None /\ i = 0 /\ t \in dropped'
        \/ y = None /\ i = 1 /\ ran'[t] # 0
    BY <1>3, <1>5
  <2> QED
    BY <2>1, <2>2, <2>3, <2>4, <2>5
<1>6. InPlace(t, x1, i1)'
  BY <1>3, Zenon DEF Moves
<1>7. ASSUME NEW u \in EventTasks PROVE Somewhere(u)' <=> Somewhere(u)
  <2>1. CASE u = t
    BY <1>1, <1>6, <2>1, Zenon DEF Somewhere
  <2>2. CASE u # t
    BY <1>4, <2>2, Zenon DEF Somewhere
  <2> QED
    BY <2>1, <2>2
<1>8. ASSUME NEW u \in EventTasks PROVE OnePlace(u)'
  <2>1. CASE u = t
    BY <1>5, <2>1, Zenon DEF OnePlace
  <2>2. CASE u # t
    <3>1. OnePlace(u)
      BY Zenon DEF DeliveryInv
    <3>2. ASSUME NEW y \in Places, NEW z \in Places, NEW i \in Nat, NEW j \in Nat,
                 InPlace(u, y, i)', InPlace(u, z, j)'
          PROVE  y = z /\ i = j
      <4>1. InPlace(u, y, i) /\ InPlace(u, z, j)
        BY <1>4, <2>2, <3>2
      <4> QED
        BY <3>1, <4>1, Zenon DEF OnePlace
    <3> QED
      BY <3>2, Zenon DEF OnePlace, Places
  <2> QED
    BY <2>1, <2>2
<1>9. \A f \in Frames' : f.at = "loop" => IsInjective(f.handlers)
  <2> SUFFICES ASSUME NEW f \in Frames', f.at = "loop" PROVE IsInjective(f.handlers)
    OBVIOUS
  <2>1. PICK g \in Frames : g.at = "loop" /\ g.handlers = f.handlers
    BY LoopFrames, Zenon
  <2> QED
    BY <2>1, Zenon DEF DeliveryInv
<1>10. \A u \in EventTasks : Somewhere(u)' => u.k \in DOMAIN expected'
  BY <1>7, Zenon DEF DeliveryInv
<1>11. \A u \in EventTasks : u.k \in DOMAIN expected' /\ u.h \notin raced' => (Somewhere(u)' <=> u.h \in expected'[u.k])
  BY <1>7, Zenon DEF DeliveryInv
<1> QED
  BY <1>8, <1>9, <1>10, <1>11, Zenon DEF DeliveryInv

\* A round of the loop takes its share, and no other, off the loop's frame.
LEMMA LoopCarries ==
    ASSUME NEW f \in LoopFrame, IsInjective(f.handlers)
    PROVE  /\ f.i > Len(f.handlers) => Idle(f)
           /\ \A t \in EventTasks : f.i <= Len(f.handlers) /\ t.k = f.k /\ t.h = f.handlers[f.i] =>
                 /\ Carries(f, t) /\ ~Carries(Advanced(f), t)
                 /\ \A u \in EventTasks : u # t => (Carries(Advanced(f), u) <=> Carries(f, u))
<1>1. PICK v, n, i, g : v = f.handlers /\ n = Len(v) /\ i = f.i /\ g = Advanced(f)
  OBVIOUS
<1>2. /\ f.at = "loop" /\ i \in Nat \ {0} /\ v \in Seq(Handlers) /\ n \in Nat /\ DOMAIN v = 1 .. n
      /\ g.at = "loop" /\ g.k = f.k /\ g.i = i + 1 /\ g.handlers = v
  BY <1>1, LoopMoves, PlainKinds DEF Advanced, LoopFrame
<1>3. /\ \A u : Carries(f, u) <=> f.k = u.k /\ \E j \in i .. n : v[j] = u.h
      /\ \A u : Carries(g, u) <=> f.k = u.k /\ \E j \in i + 1 .. n : v[j] = u.h
  <2>1. "loop" \notin Posting
    BY DEF Posting
  <2> QED
    BY <1>1, <1>2, <2>1, Zenon DEF Carries
<1>4. i > n => Idle(f)
  <2>1. i > n => i .. n = {}
    BY <1>2
  <2> QED
    BY <1>3, <2>1 DEF Idle
<1>5. ASSUME NEW t \in EventTasks, i <= n, t.k = f.k, t.h = v[i]
      PROVE  /\ Carries(f, t) /\ ~Carries(g, t)
             /\ \A u \in EventTasks : u # t => (Carries(g, u) <=> Carries(f, u))
  <2>1. i \in i .. n /\ i \in 1 .. n /\ i \notin i + 1 .. n /\ i + 1 .. n \subseteq 1 .. n
    BY <1>2, <1>5
  <2>2. i .. n = {i} \cup (i + 1 .. n)
    BY <1>2, <1>5
  <2>3. \A j \in i + 1 .. n : v[j] # v[i]
    BY <1>1, <1>2, <2>1, Zenon DEF IsInjective
  <2>4. \A u \in EventTasks : u.k = t.k /\ u.h = t.h => u = t
    BY DEF EventTasks
  <2>5. Carries(f, t) /\ ~Carries(g, t)
    BY <1>3, <1>5, <2>1, <2>3, Zenon
  <2>6. ASSUME NEW u \in EventTasks, u # t PROVE Carries(g, u) <=> Carries(f, u)
    <3>1. (\E j \in i .. n : v[j] = u.h) <=> v[i] = u.h \/ \E j \in i + 1 .. n : v[j] = u.h
      BY <2>2
    <3> QED
      BY <1>3, <1>5, <2>4, <2>6, <3>1, Zenon
  <2> QED
    BY <2>5, <2>6
<1> QED
  BY <1>1, <1>4, <1>5, Zenon

LEMMA PostCarries ==
    ASSUME NEW f \in PostFrame
    PROVE  \A t : Carries(f, t) <=> f.task = t
BY DEF Carries, PostFrame, Posting

\* A change of the calls of x alone.
LEMMA OneStack ==
    ASSUME TypeInv, NEW x \in OSThreads, NEW s2, stack' = [stack EXCEPT ![x] = s2]
    PROVE  /\ LoopsKept(stack[x], s2) => \A y \in OSThreads : LoopsKept(stack[y], stack'[y])
           /\ Quiet(stack[x], s2) => \A y \in OSThreads : Quiet(stack[y], stack'[y])
           /\ NoErase(stack[x], s2) => \A y \in OSThreads : NoErase(stack[y], stack'[y])
<1>1. \A y \in OSThreads : stack'[y] = IF y = x THEN s2 ELSE stack[y]
  BY DEF TypeInv
<1>2. \A y \in OSThreads : (y = x /\ stack'[y] = s2) \/ stack'[y] = stack[y]
  BY <1>1
<1>3. \A s : LoopsKept(s, s) /\ Quiet(s, s) /\ NoErase(s, s)
  BY QuietSame, Zenon DEF Quiet
<1> QED
  BY <1>2, <1>3, Zenon

\* The n-th call of x delivers t to x1, i1, and the calls of x become s2.
Leaves(x, s2, t, n, x1, i1) ==
    \A i \in Nat, u \in EventTasks :
       Carried(s2, i, u) <=> (Carried(stack[x], i, u) /\ ~(u = t /\ i = n)) \/ (u = t /\ x = x1 /\ i = i1 /\ i1 # 0)
Arrives(t, x1, i1) ==
    /\ \A p \in Pumps, u \in EventTasks : u \in queue'[p] <=> u \in queue[p] \/ (u = t /\ p = x1 /\ i1 = 0)
    /\ \A u \in EventTasks : u \in dropped' <=> u \in dropped \/ (u = t /\ x1 = None /\ i1 = 0)
    /\ \A u \in EventTasks : ran'[u] # 0 <=> ran[u] # 0 \/ (u = t /\ x1 = None /\ i1 = 1)

LEMMA MoveOff ==
    ASSUME TypeInv, NEW x \in OSThreads, NEW s2, stack' = [stack EXCEPT ![x] = s2],
           NEW t \in EventTasks, NEW n \in Nat \ {0}, NEW x1, NEW i1 \in Nat, x1 = x \/ i1 = 0 \/ x1 = None,
           Leaves(x, s2, t, n, x1, i1), Arrives(t, x1, i1)
    PROVE  Moves(t, x, n, x1, i1)
<1>1. \A y \in OSThreads : stack'[y] = IF y = x THEN s2 ELSE stack[y]
  BY DEF TypeInv
<1>2. ASSUME NEW y \in OSThreads, NEW i \in Nat, NEW u \in EventTasks
      PROVE  Carried(stack'[y], i, u) <=>
                \/ Carried(stack[y], i, u) /\ ~(u = t /\ y = x /\ i = n)
                \/ u = t /\ y = x1 /\ i = i1 /\ i1 # 0
  <2>1. CASE y = x
    <3>1. stack'[y] = s2 /\ stack[y] = stack[x]
      BY <1>1, <2>1
    <3> QED
      BY <2>1, <3>1, Zenon DEF Leaves
  <2>2. CASE y # x
    <3>1. stack'[y] = stack[y] /\ y # None
      BY <1>1, <2>2, ThreadAssumption
    <3> QED
      BY <2>2, <3>1, Zenon
  <2> QED
    BY <2>1, <2>2
<1>3. n # 0
  OBVIOUS
<1> QED
  BY <1>2, <1>3, Zenon DEF Moves, Arrives

\* The calls of x after its loop has done the round for t, but for what the round calls.
RoundDone(x, d, n, t) ==
    /\ n \in Nat \ {0} /\ d \in Seq(Frame) /\ Len(d) = n
    /\ LoopsKept(stack[x], d) /\ NoErase(stack[x], d) /\ InPlace(t, x, n)
    /\ \A i \in Nat, u \in EventTasks : Carried(d, i, u) <=> Carried(stack[x], i, u) /\ ~(u = t /\ i = n)

\* The loop's frame after a round that delivers t.
LEMMA RoundFacts ==
    ASSUME TypeInv, DeliveryInv, NEW x \in OSThreads, At(x, "loop"), NEW f, f = Top(x), NEW g, g = Advanced(f),
           NEW t \in EventTasks, f.i <= Len(f.handlers), t.k = f.k, t.h = f.handlers[f.i],
           NEW n, n = Len(stack[x]), NEW d, d = Append(Front(stack[x]), g)
    PROVE  RoundDone(x, d, n, t)
<1>1. PICK s, c : s = stack[x] /\ c = Front(s)
  OBVIOUS
<1>2. s \in Seq(Frame) /\ s # <<>> /\ f = Last(s) /\ f \in LoopFrame /\ f.at = "loop" /\ f \in Range(s) /\ f \in Frames
  BY <1>1, TopFacts, FrameKinds DEF Frames
<1>3. /\ n \in Nat \ {0} /\ c \in Seq(Frame) /\ Len(c) + 1 = n /\ Len(c) \in Nat
      /\ Range(s) = Range(c) \cup {f}
  <2>1. n \in Nat \ {0} /\ c \in Seq(Frame) /\ Len(c) = n - 1
    BY <1>1, <1>2, FrontFacts
  <2>2. Range(s) = Range(c) \cup {f}
    BY <1>1, <1>2, FrontRange
  <2> QED
    BY <2>1, <2>2
<1>4. g \in Frame /\ g.at = "loop" /\ g.handlers = f.handlers
  BY <1>2, LoopMoves, KindsAreFrames DEF Advanced
<1>5. d = Append(c, g) /\ d \in Seq(Frame) /\ Len(d) = n /\ Range(d) = Range(c) \cup {g}
  <2>1. d = Append(c, g)
    BY <1>1, Zenon
  <2>2. Append(c, g) \in Seq(Frame) /\ Len(Append(c, g)) = Len(c) + 1
    BY <1>3, <1>4, AppendFacts
  <2>3. Range(Append(c, g)) = Range(c) \cup {g}
    BY <1>3, <1>4, AppendRange
  <2> QED
    BY <1>3, <2>1, <2>2, <2>3
<1>6. \A k \in Range(d) : k \in Range(s) \/ k = g
  BY <1>3, <1>5
<1>7. LoopsKept(s, d) /\ NoErase(s, d)
  <2>1. LoopsKept(s, d)
    BY <1>2, <1>4, <1>6, Zenon DEF LoopsKept
  <2>2. g.at # "erase"
    BY <1>4
  <2> QED
    BY <1>6, <2>1, <2>2, Zenon DEF NoErase
<1>8. IsInjective(f.handlers)
  BY <1>2, Zenon DEF DeliveryInv
<1>9. Carries(f, t) /\ ~Carries(g, t) /\ \A u \in EventTasks : u # t => (Carries(g, u) <=> Carries(f, u))
  BY <1>2, <1>8, LoopCarries, Zenon
<1>10. ASSUME NEW i \in Nat, NEW u \in EventTasks
       PROVE  Carried(d, i, u) <=> Carried(s, i, u) /\ ~(u = t /\ i = n)
  <2>1. Carried(d, i, u) <=> Carried(c, i, u) \/ (i = n /\ Carries(g, u))
    BY <1>3, <1>4, <1>5, AppendLoads
  <2>2. Carried(c, i, u) <=> Carried(s, i, u) /\ i # n
    BY <1>1, <1>2, FrontLoads, Zenon
  <2>3. Carried(s, n, u) <=> Carries(f, u)
    <3>1. n = Len(s)
      BY <1>1
    <3>2. Carried(s, Len(s), u) <=> Carries(Last(s), u)
      BY <1>2, FrontLoads, Zenon
    <3> QED
      BY <1>2, <3>1, <3>2, Zenon
  <2> QED
    BY <1>9, <2>1, <2>2, <2>3, Zenon
<1>11. InPlace(t, x, n)
  <2>1. Carried(s, n, t)
    BY <1>1, <1>2, <1>9, FrontLoads, Zenon
  <2> QED
    BY <1>1, <2>1, Zenon DEF InPlace
<1> QED
  BY <1>1, <1>3, <1>5, <1>7, <1>10, <1>11, Zenon DEF RoundDone

\* Nothing carries a done share: its count is still zero.
LEMMA CountZero ==
    ASSUME DeliveryInv, NEW t \in EventTasks, NEW x0 \in OSThreads \cup Pumps, NEW i0 \in Nat, InPlace(t, x0, i0)
    PROVE  ran[t] = 0 /\ t # InitTask
<1>1. x0 # None /\ x0 \in Places /\ None \in Places
  BY ThreadAssumption DEF Places
<1>2. ~InPlace(t, None, 1)
  BY <1>1, Zenon DEF DeliveryInv, OnePlace
<1> QED
  BY <1>2, TaskFacts DEF InPlace

LEMMA CountOne ==
    ASSUME DeliveryInv, NEW t \in EventTasks, ran[t] = 0, ran' = [ran EXCEPT ![t] = @ + 1]
    PROVE  /\ ran' \in [Tasks -> 0 .. 1] /\ ran'[InitTask] = 0
           /\ \A u \in EventTasks : ran'[u] # 0 <=> ran[u] # 0 \/ u = t
BY TaskFacts DEF DeliveryInv

\* What is kept when the share t moves on from the calls of x.
LEMMA MoveKeeps ==
    ASSUME TypeInv, HubInv, DeliveryInv, NEW x \in OSThreads, UNCHANGED <<hubVars, expected>>,
           NEW t \in EventTasks, NEW n \in Nat, InPlace(t, x, n),
           NEW s2, stack' = [stack EXCEPT ![x] = s2], LoopsKept(stack[x], s2), NoErase(stack[x], s2),
           NEW x1, NEW i1 \in Nat,
           (x1 \in OSThreads /\ i1 # 0) \/ (x1 \in Pumps /\ i1 = 0) \/ (x1 = None /\ i1 \in {0, 1}),
           Moves(t, x, n, x1, i1), ran' \in [Tasks -> 0 .. 1], ran'[InitTask] = 0
    PROVE  HubInv' /\ DeliveryInv'
<1>1. (\A y \in OSThreads : LoopsKept(stack[y], stack'[y])) /\ (\A y \in OSThreads : NoErase(stack[y], stack'[y]))
  BY OneStack
<1>2. HubInv'
  BY <1>1, HubKept
<1>3. DeliveryInv'
  <2>1. x \in OSThreads \cup Pumps /\ UNCHANGED <<expected, raced>>
    BY Zenon DEF hubVars
  <2> QED
    BY <1>1, <2>1, DeliveryMoves, Zenon
<1> QED
  BY <1>2, <1>3

LEMMA DispatchKeeps ==
    ASSUME TypeInv, HubInv, DeliveryInv, NEW x \in OSThreads, DispatchEvent(x)
    PROVE  HubInv' /\ DeliveryInv'
<1>1. PICK f, g, t : f = Top(x) /\ g = Advanced(f) /\ t = Share(f)
  OBVIOUS
<1>2. At(x, "loop") /\ UNCHANGED hubVars /\ UNCHANGED <<queue, expected, raced>>
  BY Zenon DEF DispatchEvent, hubVars, pumpVars
<1>3. f \in LoopFrame /\ DispatchOutcome(x, f, g, t)
  BY <1>1, DispatchCases, Zenon
<1>4. PICK s : s = stack[x]
  OBVIOUS
<1>5. s \in Seq(Frame) /\ s # <<>> /\ f = Last(s) /\ f \in Frames /\ f.at = "loop"
  BY <1>1, <1>2, <1>4, TopFacts DEF Frames
<1>6. IsInjective(f.handlers)
  BY <1>5, Zenon DEF DeliveryInv
<1>7. ran \in [Tasks -> 0 .. 1] /\ ran[InitTask] = 0
  BY Zenon DEF DeliveryInv
<1>8. ASSUME NEW s2, stack' = [stack EXCEPT ![x] = s2], Quiet(s, s2), NoErase(s, s2), UNCHANGED <<ran, dropped>>
      PROVE  HubInv' /\ DeliveryInv'
  <2>1. (\A y \in OSThreads : Quiet(stack[y], stack'[y])) /\ (\A y \in OSThreads : NoErase(stack[y], stack'[y]))
    BY <1>4, <1>8, OneStack
  <2>2. Still
    BY <1>2, <1>8, <2>1, Zenon DEF Still
  <2> QED
    BY <1>2, <2>1, <2>2, HubKept, DeliveryStill
<1>9. CASE f.i > Len(f.handlers) /\ stack' = [stack EXCEPT ![x] = Front(@)] /\ UNCHANGED <<ran, dropped, crashed>>
  <2>1. Idle(f)
    BY <1>3, <1>6, <1>9, LoopCarries
  <2>2. Quiet(s, Front(s)) /\ NoErase(s, Front(s))
    BY <1>5, <2>1, QuietFront
  <2>3. stack' = [stack EXCEPT ![x] = Front(s)]
    BY <1>4, <1>9, Zenon
  <2> QED
    BY <1>8, <1>9, <2>2, <2>3, Zenon
<1>10. CASE crashed' = TRUE /\ UNCHANGED <<stack, ran, dropped>>
  <2>1. stack' = [stack EXCEPT ![x] = s]
    BY <1>4, <1>10 DEF TypeInv
  <2> QED
    BY <1>8, <1>10, <2>1, QuietSame, Zenon
<1>11. ASSUME f.i <= Len(f.handlers), t \in EventTasks, t.k = f.k, t.h = f.handlers[f.i],
              \/ /\ stack' = [stack EXCEPT ![x] = Append(Append(Front(stack[x]), g), User(t))]
                 /\ ran' = [ran EXCEPT ![t] = @ + 1]
                 /\ UNCHANGED <<dropped, crashed>>
              \/ \E p \in Pumps :
                    /\ stack' = [stack EXCEPT ![x] = Append(Append(Front(stack[x]), g), PostMessageToThread(p, t))]
                    /\ UNCHANGED <<ran, dropped, crashed>>
              \/ /\ dropped' = dropped \cup {t}
                 /\ stack' = [stack EXCEPT ![x] = Append(Front(stack[x]), g)]
                 /\ UNCHANGED <<ran, crashed>>
       PROVE  HubInv' /\ DeliveryInv'
  <2>1. PICK n, d : n = Len(stack[x]) /\ d = Append(Front(stack[x]), g)
    OBVIOUS
  <2>2. /\ n \in Nat \ {0} /\ d \in Seq(Frame) /\ Len(d) = n
        /\ LoopsKept(s, d) /\ NoErase(s, d) /\ InPlace(t, x, n)
        /\ \A i \in Nat, u \in EventTasks : Carried(d, i, u) <=> Carried(s, i, u) /\ ~(u = t /\ i = n)
    <3>1. RoundDone(x, d, n, t)
      BY <1>1, <1>2, <1>11, <2>1, RoundFacts, Zenon
    <3> QED
      BY <1>4, <3>1, Zenon DEF RoundDone
  <2>3. ran[t] = 0
    BY <1>11, <2>2, CountZero
  <2>5. \A p \in Pumps, u \in EventTasks : u \in queue'[p] <=> u \in queue[p]
    BY <1>2, Zenon
  <2>6. CASE /\ stack' = [stack EXCEPT ![x] = Append(Append(Front(stack[x]), g), User(t))]
             /\ ran' = [ran EXCEPT ![t] = @ + 1]
             /\ UNCHANGED <<dropped, crashed>>
    <3>1. PICK k, e : k = User(t) /\ e = Append(d, k)
      OBVIOUS
    <3>2. k \in Frame /\ k.at = "user" /\ Idle(k)
      <4>1. k \in UserFrame /\ k.at = "user"
        BY <1>11, <3>1, TaskFacts, MadeFrames
      <4>2. k.at \notin Posting \cup {"loop"}
        BY <4>1 DEF Posting
      <4> QED
        BY <4>1, <4>2, KindsAreFrames, IdleKinds
    <3>3. stack' = [stack EXCEPT ![x] = e]
      BY <2>1, <2>6, <3>1, Zenon
    <3>4. \A j \in Range(e) : j \in Range(d) \/ j = k
      BY <2>2, <3>1, <3>2, AppendRange
    <3>5. LoopsKept(s, e) /\ NoErase(s, e)
      <4>1. k.at # "loop" /\ k.at # "erase"
        BY <3>2
      <4> QED
        BY <2>2, <3>4, <4>1, Zenon DEF LoopsKept, NoErase
    <3>6. \A i \in Nat, u \in EventTasks : Carried(e, i, u) <=> Carried(s, i, u) /\ ~(u = t /\ i = n)
      BY <2>2, <3>1, <3>2, AppendLoads, Zenon DEF Idle
    <3>7. PICK x1, i1 : x1 = None /\ i1 = 1
      OBVIOUS
    <3>8. i1 \in Nat /\ i1 # 0 /\ x1 # x /\ i1 = 1 /\ x1 = None /\ \A p \in Pumps : p # x1
      BY <3>7, ThreadAssumption
    <3>9. /\ ran' \in [Tasks -> 0 .. 1] /\ ran'[InitTask] = 0
          /\ \A u \in EventTasks : ran'[u] # 0 <=> ran[u] # 0 \/ u = t
      BY <1>11, <2>3, <2>6, CountOne
    <3>10. Moves(t, x, n, x1, i1)
      <4>1. Leaves(x, e, t, n, x1, i1)
        BY <1>4, <3>6, <3>8, Zenon DEF Leaves
      <4>2. Arrives(t, x1, i1)
        BY <2>5, <2>6, <3>8, <3>9, Zenon DEF Arrives
      <4> QED
        BY <1>11, <2>2, <3>3, <3>8, <4>1, <4>2, MoveOff
    <3> QED
      BY <1>2, <1>4, <1>11, <2>2, <3>3, <3>5, <3>8, <3>9, <3>10, MoveKeeps
  <2>7. ASSUME NEW p \in Pumps,
               stack' = [stack EXCEPT ![x] = Append(Append(Front(stack[x]), g), PostMessageToThread(p, t))],
               UNCHANGED <<ran, dropped, crashed>>
        PROVE  HubInv' /\ DeliveryInv'
    <3>1. PICK k, e : k = PostMessageToThread(p, t) /\ e = Append(d, k)
      OBVIOUS
    <3>2. k \in Frame /\ k.at \notin {"loop", "erase"} /\ \A u : Carries(k, u) <=> t = u
      <4>1. k \in PostFrame /\ k.at \in Posting /\ k.task = t
        BY <1>11, <3>1, MadeFrames
      <4>2. k.at \notin {"loop", "erase"}
        BY <4>1 DEF Posting
      <4> QED
        BY <4>1, <4>2, KindsAreFrames, PostCarries
    <3>3. stack' = [stack EXCEPT ![x] = e]
      BY <2>1, <2>7, <3>1, Zenon
    <3>4. \A j \in Range(e) : j \in Range(d) \/ j = k
      BY <2>2, <3>1, <3>2, AppendRange
    <3>5. LoopsKept(s, e) /\ NoErase(s, e)
      BY <2>2, <3>2, <3>4, Zenon DEF LoopsKept, NoErase
    <3>6. PICK m, x1 : m = n + 1 /\ x1 = x
      OBVIOUS
    <3>7. m \in Nat /\ m # 0 /\ m = Len(d) + 1 /\ x1 = x
      BY <2>2, <3>6
    <3>8. \A i \in Nat, u \in EventTasks :
             Carried(e, i, u) <=> (Carried(s, i, u) /\ ~(u = t /\ i = n)) \/ (u = t /\ i = m)
      BY <2>2, <3>1, <3>2, <3>7, AppendLoads, Zenon
    <3>9. x # None
      BY ThreadAssumption
    <3>10. Moves(t, x, n, x1, m)
      <4>1. Leaves(x, e, t, n, x1, m)
        BY <1>4, <3>7, <3>8, Zenon DEF Leaves
      <4>2. Arrives(t, x1, m)
        BY <2>5, <2>7, <3>7, <3>9, Zenon DEF Arrives
      <4> QED
        BY <1>11, <2>2, <3>3, <3>7, <4>1, <4>2, MoveOff
    <3>11. ran' \in [Tasks -> 0 .. 1] /\ ran'[InitTask] = 0
      BY <1>7, <2>7, Zenon
    <3> QED
      BY <1>2, <1>4, <1>11, <2>2, <3>3, <3>5, <3>7, <3>10, <3>11, MoveKeeps
  <2>8. CASE /\ dropped' = dropped \cup {t}
             /\ stack' = [stack EXCEPT ![x] = Append(Front(stack[x]), g)]
             /\ UNCHANGED <<ran, crashed>>
    <3>1. stack' = [stack EXCEPT ![x] = d]
      BY <2>1, <2>8, Zenon
    <3>2. PICK x1, i1 : x1 = None /\ i1 = 0
      OBVIOUS
    <3>3. i1 \in Nat /\ i1 = 0 /\ i1 # 1 /\ x1 # x /\ x1 = None /\ \A p \in Pumps : p # x1
      BY <3>2, ThreadAssumption
    <3>4. \A u \in EventTasks : u \in dropped' <=> u \in dropped \/ u = t
      BY <2>8
    <3>5. Moves(t, x, n, x1, i1)
      <4>1. Leaves(x, d, t, n, x1, i1)
        BY <1>4, <2>2, <3>3, Zenon DEF Leaves
      <4>2. Arrives(t, x1, i1)
        BY <2>5, <2>8, <3>3, <3>4, Zenon DEF Arrives
      <4> QED
        BY <1>11, <2>2, <3>1, <3>3, <4>1, <4>2, MoveOff
    <3>6. ran' \in [Tasks -> 0 .. 1] /\ ran'[InitTask] = 0
      BY <1>7, <2>8, Zenon
    <3> QED
      BY <1>2, <1>4, <1>11, <2>2, <3>1, <3>3, <3>5, <3>6, MoveKeeps
  <2> QED
    BY <1>11, <2>6, <2>7, <2>8, Zenon
<1> QED
  BY <1>3, <1>9, <1>10, <1>11, Zenon DEF DispatchOutcome

\* A step that moves no share and erases nothing, and what it keeps.
Passive == Still /\ UNCHANGED hubVars /\ \A y \in OSThreads : NoErase(stack[y], stack'[y])

LEMMA PassiveKeeps ==
    ASSUME HubInv, DeliveryInv, Passive
    PROVE  HubInv' /\ DeliveryInv'
BY HubKept, DeliveryStill, Zenon DEF Passive

\* One thread goes from its calls to s2, and the queues gain at most init tasks.
LEMMA PassiveStack ==
    ASSUME TypeInv, NEW x \in OSThreads, NEW s2, stack' = [stack EXCEPT ![x] = s2],
           Quiet(stack[x], s2), NoErase(stack[x], s2),
           UNCHANGED <<hubVars, deliveryVars>>,
           \A p \in Pumps : \A t \in EventTasks : t \in queue'[p] <=> t \in queue[p]
    PROVE  Passive
<1>1. (\A y \in OSThreads : Quiet(stack[y], stack'[y])) /\ (\A y \in OSThreads : NoErase(stack[y], stack'[y]))
  BY OneStack
<1> QED
  BY <1>1, Zenon DEF Passive, Still, hubVars, deliveryVars

LEMMA PassivePumps ==
    ASSUME TypeInv, NEW x \in OSThreads,
           \/ HandlerReturns(x) \/ PostBlockerWait(x) \/ LockQueue(x) \/ UnlockQueue(x)
           \/ (\E r \in Runners : InitRunner(x, r)) \/ (\E d \in Threads : NameThread(x, d))
           \/ CreateReturns(x)
    PROVE  Passive
<1>1. PICK s : s = stack[x]
  OBVIOUS
<1>2. s \in Seq(Frame)
  BY <1>1 DEF TypeInv
<1>3. /\ UNCHANGED <<hubVars, deliveryVars>>
      /\ \A p \in Pumps : \A t \in EventTasks : t \in queue'[p] <=> t \in queue[p]
  BY Zenon DEF HandlerReturns, PostBlockerWait, LockQueue, UnlockQueue, InitRunner, NameThread, CreateReturns, pumpVars
<1>4. CASE HandlerReturns(x) \/ CreateReturns(x)
  <2>1. (At(x, "user") \/ At(x, "create")) /\ stack' = [stack EXCEPT ![x] = Front(@)]
    BY <1>4, Zenon DEF HandlerReturns, CreateReturns, Return
  <2>2. s # <<>> /\ (Last(s).at = "user" \/ Last(s).at = "create")
    BY <1>1, <2>1, Zenon DEF At
  <2>3. Last(s).at \notin Posting \cup {"loop"}
    BY <2>2 DEF Posting
  <2>4. Idle(Last(s))
    BY <2>3, IdleKinds
  <2>5. Quiet(s, Front(s)) /\ NoErase(s, Front(s))
    BY <1>2, <2>2, <2>4, QuietFront
  <2>6. stack' = [stack EXCEPT ![x] = Front(s)]
    BY <1>1, <2>1, Zenon
  <2> QED
    BY <1>1, <1>3, <2>5, <2>6, PassiveStack
<1>5. CASE PostBlockerWait(x)
  <2>1. At(x, "wait")
    BY <1>5, Zenon DEF PostBlockerWait
  <2>2. PICK f, g : f = Top(x) /\ g = [f EXCEPT !.at = "blocked"]
    OBVIOUS
  <2>3. f \in PostFrame /\ f = Last(s) /\ s # <<>>
    BY <1>1, <2>1, <2>2, TopFacts, FrameKinds DEF Posting
  <2>4. g \in PostFrame /\ g.at = "blocked" /\ g.task = f.task
    BY <2>2, <2>3, PostMoves DEF Posting
  <2>5. g \in Frame /\ g.at \notin {"erase", "loop"} /\ \A t \in EventTasks : Carries(g, t) <=> Carries(Last(s), t)
    BY <2>3, <2>4, KindsAreFrames, PostCarries
  <2>6. Quiet(s, Append(Front(s), g)) /\ NoErase(s, Append(Front(s), g))
    BY <1>2, <2>3, <2>5, QuietSwap
  <2>7. stack' = [stack EXCEPT ![x] = Append(Front(s), g)]
    BY <1>1, <1>5, <2>2, Zenon DEF PostBlockerWait, Goto
  <2> QED
    BY <1>1, <1>3, <2>6, <2>7, PassiveStack
<1>6. CASE UNCHANGED stack
  <2>1. stack' = [stack EXCEPT ![x] = s]
    BY <1>1, <1>6 DEF TypeInv
  <2> QED
    BY <1>1, <1>3, <2>1, QuietSame, PassiveStack, Zenon
<1> QED
  BY <1>4, <1>5, <1>6, Zenon DEF LockQueue, UnlockQueue, InitRunner, NameThread

LEMMA QuietPumpFrame ==
    ASSUME NEW s \in Seq(Frame), NEW f \in Frame, f.at \notin Posting \cup {"loop", "erase"}
    PROVE  /\ Quiet(s, Append(s, f)) /\ NoErase(s, Append(s, f))
           /\ \A n \in Frame : s = <<n>> /\ n.at = "name" =>
                 /\ Quiet(s, <<f>>) /\ NoErase(s, <<f>>)
                 /\ Append(<<>>, f) = <<f>> /\ Append(Front(s), f) = <<f>>
           /\ s = <<>> => Quiet(s, <<f>>) /\ NoErase(s, <<f>>)
<1>1. Quiet(s, Append(s, f)) /\ NoErase(s, Append(s, f))
  BY QuietAppend
<1>2. Append(<<>>, f) = <<f>>
  OBVIOUS
<1>3. ASSUME s = <<>> PROVE Quiet(s, <<f>>) /\ NoErase(s, <<f>>)
  BY <1>1, <1>2, <1>3, Zenon
<1>4. ASSUME NEW n \in Frame, s = <<n>>, n.at = "name"
      PROVE  /\ Quiet(s, <<f>>) /\ NoErase(s, <<f>>)
             /\ Append(<<>>, f) = <<f>> /\ Append(Front(s), f) = <<f>>
  <2>1. s # <<>> /\ Last(s) = n /\ Len(s) = 1
    BY <1>4 DEF Last
  <2>2. Front(s) = <<>>
    BY <1>4, EmptySeq DEF Front
  <2>3. Append(Front(s), f) = <<f>>
    BY <1>2, <2>2, Zenon
  <2>4. Idle(f) /\ Idle(n)
    <3>1. n.at \notin Posting \cup {"loop"}
      BY <1>4 DEF Posting
    <3> QED
      BY <3>1, IdleKinds
  <2>5. \A t \in EventTasks : Carries(f, t) <=> Carries(Last(s), t)
    BY <2>1, <2>4, Zenon DEF Idle
  <2>6. Quiet(s, Append(Front(s), f)) /\ NoErase(s, Append(Front(s), f))
    BY <2>1, <2>5, QuietSwap
  <2> QED
    BY <1>2, <2>3, <2>6, Zenon
<1> QED
  BY <1>1, <1>3, <1>4, Zenon

LEMMA PostKeeps ==
    ASSUME TypeInv, HubInv, DeliveryInv, NEW x \in OSThreads, LockedPostTaskToQueue(x)
    PROVE  HubInv' /\ DeliveryInv'
<1>1. /\ At(x, "push") /\ stack' = [stack EXCEPT ![x] = Front(@)] /\ UNCHANGED <<hubVars, expected>>
      /\ UNCHANGED <<ran, dropped>>
  BY Zenon DEF LockedPostTaskToQueue, Return, deliveryVars
<1>2. PICK f, s : f = Top(x) /\ s = stack[x]
  OBVIOUS
<1>3. f \in PostFrame /\ f = Last(s) /\ s # <<>> /\ s \in Seq(Frame)
  BY <1>1, <1>2, TopFacts, FrameKinds DEF Posting
<1>4. PICK t, p, n, c : t = f.task /\ p = f.p /\ n = Len(s) /\ c = Front(s)
  OBVIOUS
<1>5. t \in EventTasks /\ p \in Pumps /\ n \in Nat \ {0}
  BY <1>3, <1>4, FrontFacts DEF PostFrame
<1>6. queue' = [queue EXCEPT ![p] = @ \cup {t}] /\ stack' = [stack EXCEPT ![x] = c]
  BY <1>1, <1>2, <1>4, Zenon DEF LockedPostTaskToQueue
<1>7. \A u : Carries(f, u) <=> t = u
  BY <1>3, <1>4, PostCarries
<1>8. /\ \A i \in Nat, u \in EventTasks : Carried(c, i, u) <=> Carried(s, i, u) /\ i # n
      /\ \A u \in EventTasks : Carried(s, n, u) <=> Carries(f, u)
  <2>1. /\ \A i \in Nat, u \in EventTasks : Carried(Front(s), i, u) <=> Carried(s, i, u) /\ i # Len(s)
        /\ \A u \in EventTasks : Carried(s, Len(s), u) <=> Carries(Last(s), u)
    BY <1>3, FrontLoads
  <2> QED
    BY <1>3, <1>4, <2>1, Zenon
<1>9. InPlace(t, x, n)
  BY <1>2, <1>5, <1>7, <1>8, Zenon DEF InPlace
<1>10. LoopsKept(s, c) /\ NoErase(s, c)
  <2>1. Range(s) = Range(c) \cup {f}
    BY <1>3, <1>4, FrontRange
  <2>2. \A k \in Range(c) : k \in Range(s)
    BY <2>1
  <2> QED
    BY <2>2, Zenon DEF LoopsKept, NoErase
<1>11. PICK i1 : i1 = 0
  OBVIOUS
<1>12. i1 \in Nat /\ i1 = 0 /\ i1 # 1 /\ p # None
  BY <1>5, <1>11, ThreadAssumption
<1>13. Leaves(x, c, t, n, p, i1)
  BY <1>2, <1>7, <1>8, <1>12, Zenon DEF Leaves
<1>14. Arrives(t, p, i1)
  <2>1. \A q \in Pumps, u \in EventTasks : u \in queue'[q] <=> u \in queue[q] \/ (u = t /\ q = p)
    BY <1>5, <1>6 DEF TypeInv
  <2> QED
    BY <1>1, <1>12, <2>1, Zenon DEF Arrives
<1>15. Moves(t, x, n, p, i1)
  BY <1>5, <1>6, <1>12, <1>13, <1>14, MoveOff
<1>16. ran' \in [Tasks -> 0 .. 1] /\ ran'[InitTask] = 0
  BY <1>1, Zenon DEF DeliveryInv
<1>17. n \in Nat
  BY <1>5
<1> QED
  BY <1>1, <1>2, <1>5, <1>6, <1>9, <1>10, <1>12, <1>15, <1>16, <1>17, MoveKeeps, Zenon

LEMMA RunTaskKeeps ==
    ASSUME TypeInv, HubInv, DeliveryInv, NEW x \in OSThreads, RunTask(x)
    PROVE  HubInv' /\ DeliveryInv'
<1>1. At(x, "pump") /\ UNCHANGED <<hubVars, expected, dropped>> /\ UNCHANGED <<expected, raced>>
  BY Zenon DEF RunTask, hubVars
<1>2. PICK p : p = Top(x).p
  OBVIOUS
<1>3. p \in Pumps
  BY <1>1, <1>2, TopFacts, FrameKinds DEF PumpFrame
<1>4. PICK t \in queue[p] :
         /\ queue' = [queue EXCEPT ![p] = @ \ {t}]
         /\ Push(x, User(t))
         /\ ran' = [ran EXCEPT ![t] = IF t = InitTask THEN @ ELSE @ + 1]
  BY <1>2, Zenon DEF RunTask
<1>5. t \in Tasks
  BY <1>3, <1>4 DEF TypeInv
<1>6. PICK u, s, s2 : u = User(t) /\ s = stack[x] /\ s2 = Append(s, u)
  OBVIOUS
<1>7. u \in Frame /\ u.at = "user" /\ u.at \notin Posting \cup {"loop"} /\ s \in Seq(Frame)
  <2>1. u \in UserFrame /\ u.at = "user"
    BY <1>5, <1>6, MadeFrames
  <2>2. s \in Seq(Frame)
    BY <1>6 DEF TypeInv
  <2> QED
    BY <2>1, <2>2, KindsAreFrames DEF Posting
<1>8. stack' = [stack EXCEPT ![x] = s2]
  BY <1>4, <1>6, Zenon DEF Push
<1>9. Quiet(s, s2) /\ NoErase(s, s2)
  BY <1>6, <1>7, QuietAppend
<1>10. /\ \A y \in OSThreads : Quiet(stack[y], stack'[y])
       /\ \A y \in OSThreads : NoErase(stack[y], stack'[y])
  BY <1>6, <1>8, <1>9, OneStack
<1>11. HubInv'
  BY <1>1, <1>10, HubKept
<1>12. CASE t = InitTask
  <2>1. ran' = ran
    BY <1>4, <1>12 DEF TypeInv
  <2>2. \A q \in Pumps : \A e \in EventTasks : e \in queue'[q] <=> e \in queue[q]
    BY <1>3, <1>4, <1>12, TaskFacts DEF TypeInv
  <2>3. Still
    BY <1>1, <1>10, <2>1, <2>2, Zenon DEF Still
  <2> QED
    BY <1>11, <2>3, DeliveryStill
<1>13. CASE t # InitTask
  <2>1. t \in EventTasks
    BY <1>5, <1>13, TaskFacts
  <2>2. PICK i0, i1, x1 : i0 = 0 /\ i1 = 1 /\ x1 = None
    OBVIOUS
  <2>3. i0 \in Nat /\ i0 = 0 /\ i1 \in Nat /\ i1 = 1 /\ i1 # 0 /\ x1 = None /\ p # None
        /\ (\A y \in OSThreads : y # None) /\ \A q \in Pumps : q # None
    BY <1>3, <2>2, ThreadAssumption
  <2>4. InPlace(t, p, i0)
    BY <1>3, <1>4, <2>3, Zenon DEF InPlace
  <2>5. ran[t] = 0
    BY <1>3, <2>1, <2>3, <2>4, CountZero
  <2>6. ran' = [ran EXCEPT ![t] = @ + 1]
    BY <1>4, <1>13
  <2>7. /\ ran' \in [Tasks -> 0 .. 1] /\ ran'[InitTask] = 0
        /\ \A e \in EventTasks : ran'[e] # 0 <=> ran[e] # 0 \/ e = t
    BY <2>1, <2>5, <2>6, CountOne
  <2>8. \A q \in Pumps, e \in EventTasks : e \in queue'[q] <=> e \in queue[q] /\ ~(e = t /\ q = p)
    BY <1>3, <1>4, <2>1 DEF TypeInv
  <2>9. \A y \in OSThreads, e \in EventTasks : ~Carried(stack[y], 0, e)
    <3> SUFFICES ASSUME NEW y \in OSThreads PROVE 0 \notin DOMAIN stack[y]
      BY Zenon DEF Carried
    <3>1. stack[y] \in Seq(Frame)
      BY DEF TypeInv
    <3> QED
      BY <3>1
  <2>10. \A y \in OSThreads, i \in Nat, e \in EventTasks : Carried(stack'[y], i, e) <=> Carried(stack[y], i, e)
    BY <1>10, Zenon DEF Quiet, SameLoads
  <2>11. Moves(t, p, i0, x1, i1)
    <3>1. \A y \in OSThreads, i \in Nat, e \in EventTasks :
             Carried(stack'[y], i, e) <=>
                \/ Carried(stack[y], i, e) /\ ~(e = t /\ y = p /\ i = i0)
                \/ e = t /\ y = x1 /\ i = i1 /\ i1 # 0
      BY <2>3, <2>9, <2>10, Zenon
    <3>2. \A q \in Pumps, e \in EventTasks :
             e \in queue'[q] <=> \/ e \in queue[q] /\ ~(e = t /\ q = p /\ i0 = 0)
                                 \/ e = t /\ q = x1 /\ i1 = 0
      BY <2>3, <2>8, Zenon
    <3>3. /\ \A e \in EventTasks : e \in dropped' <=> e \in dropped \/ (e = t /\ x1 = None /\ i1 = 0)
          /\ \A e \in EventTasks : ran'[e] # 0 <=> ran[e] # 0 \/ (e = t /\ x1 = None /\ i1 = 1)
      BY <1>1, <2>3, <2>7, Zenon
    <3> QED
      BY <3>1, <3>2, <3>3, Zenon DEF Moves
  <2>12. \A y \in OSThreads : LoopsKept(stack[y], stack'[y])
    BY <1>10, Zenon DEF Quiet
  <2>13. p \in OSThreads \cup Pumps /\ (x1 = None /\ i1 \in {0, 1})
    BY <1>3, <2>3
  <2>14. DeliveryInv'
    BY <1>1, <2>1, <2>3, <2>4, <2>7, <2>11, <2>12, <2>13, DeliveryMoves
  <2> QED
    BY <1>11, <2>14
<1> QED
  BY <1>12, <1>13

\* A pump starts on x over calls that are quiet, and a blocked poster goes on.
LEMMA QuietLoop ==
    ASSUME TypeInv, NEW x \in OSThreads, NEW p, NEW calls, NEW y \in OSThreads \cup {None},
           LoopStarted(x, p, calls, y), NEW f, f = [at |-> "pump", p |-> p],
           Quiet(stack[x], Append(calls, f)), NoErase(stack[x], Append(calls, f))
    PROVE  /\ \A z \in OSThreads : Quiet(stack[z], stack'[z])
           /\ \A z \in OSThreads : NoErase(stack[z], stack'[z])
<1>1. PICK g : g = [Last(stack[y]) EXCEPT !.at = "push"]
  OBVIOUS
<1>2. /\ stack'[x] = Append(calls, f)
      /\ y \in OSThreads => stack'[y] = Append(Front(stack[y]), g)
      /\ \A z \in OSThreads : z # x /\ z # y => stack'[z] = stack[z]
  BY <1>1 DEF LoopStarted
<1>3. ASSUME y \in OSThreads PROVE Quiet(stack[y], stack'[y]) /\ NoErase(stack[y], stack'[y])
  <2>1. PICK s, b : s = stack[y] /\ b = Last(s)
    OBVIOUS
  <2>2. s \in Seq(Frame) /\ s # <<>> /\ b \in PostFrame
    <3>1. y # None
      BY <1>3, ThreadAssumption
    <3> QED
      BY <1>3, <2>1, <3>1, Zenon DEF LoopStarted, TypeInv
  <2>3. g \in PostFrame /\ g.at = "push" /\ g.task = b.task
    BY <1>1, <2>1, <2>2, PostMoves DEF Posting
  <2>4. g \in Frame /\ g.at \notin {"erase", "loop"} /\ \A t \in EventTasks : Carries(g, t) <=> Carries(Last(s), t)
    BY <2>1, <2>2, <2>3, KindsAreFrames, PostCarries
  <2>5. Quiet(s, Append(Front(s), g)) /\ NoErase(s, Append(Front(s), g))
    BY <2>2, <2>4, QuietSwap
  <2> QED
    BY <1>2, <1>3, <2>1, <2>5, Zenon
<1>4. ASSUME NEW z \in OSThreads PROVE Quiet(stack[z], stack'[z]) /\ NoErase(stack[z], stack'[z])
  <2>1. CASE z = x
    BY <1>2, <2>1, Zenon
  <2>2. CASE z = y
    BY <1>3, <1>4, <2>2, Zenon
  <2>3. CASE z # x /\ z # y
    BY <1>2, <2>3, QuietSame, Zenon
  <2> QED
    BY <2>1, <2>2, <2>3
<1> QED
  BY <1>4

\* An init task is no event's.
LEMMA InitPosted ==
    ASSUME TypeInv, NEW p \in Pumps, queue' = [queue EXCEPT ![p] = @ \cup {InitTask}]
    PROVE  \A q \in Pumps : \A t \in EventTasks : t \in queue'[q] <=> t \in queue[q]
BY TaskFacts DEF TypeInv

LEMMA PassiveStartRunner ==
    ASSUME TypeInv, NEW x \in OSThreads, NEW r \in Runners, StartRunner(x, r)
    PROVE  Passive
<1>1. At(x, "user") /\ StartMessageLoop(x, r, stack[x]) /\ UNCHANGED <<hubVars, deliveryVars>> /\ r \in Pumps
  BY Zenon DEF StartRunner, Pumps
<1>2. PICK s, f : s = stack[x] /\ f = [at |-> "pump", p |-> r]
  OBVIOUS
<1>3. s \in Seq(Frame) /\ StartMessageLoop(x, r, s)
  BY <1>1, <1>2, Zenon DEF TypeInv
<1>4. f \in Frame /\ f.at \notin Posting \cup {"loop", "erase"}
  <2>1. f \in PumpFrame /\ f.at = "pump"
    BY <1>1, <1>2, MadeFrames
  <2> QED
    BY <2>1, KindsAreFrames DEF Posting
<1>5. PICK y \in OSThreads \cup {None} : LoopStarted(x, r, s, y)
  BY <1>1, <1>3, LoopStart, Zenon
<1>6. queue' = [queue EXCEPT ![r] = @ \cup {InitTask}]
  BY <1>1, Zenon DEF StartMessageLoop
<1>7. Quiet(s, Append(s, f)) /\ NoErase(s, Append(s, f))
  BY <1>3, <1>4, QuietPumpFrame
<1>8. /\ \A z \in OSThreads : Quiet(stack[z], stack'[z])
      /\ \A z \in OSThreads : NoErase(stack[z], stack'[z])
  BY <1>2, <1>5, <1>7, QuietLoop, Zenon
<1>9. \A q \in Pumps : \A t \in EventTasks : t \in queue'[q] <=> t \in queue[q]
  BY <1>1, <1>6, InitPosted
<1> QED
  BY <1>1, <1>8, <1>9, Zenon DEF Passive, Still, hubVars, deliveryVars

LEMMA PassiveCreate ==
    ASSUME TypeInv, NEW x \in OSThreads, NEW d \in Delegates, At(x, "user"), stack[d] = <<>>, Create(x, d)
    PROVE  Passive
<1>1. PICK f, g : f = [at |-> "create", d |-> d] /\ g = [at |-> "name", d |-> d]
  OBVIOUS
<1>2. /\ x # d /\ f \in BirthFrame /\ g \in BirthFrame /\ f.at = "create" /\ g.at = "name"
      /\ Born(x, d, f, g)
  BY <1>1, CreateFacts
<1>3. d \in OSThreads /\ f \in Frame /\ g \in Frame
  BY <1>2, KindsAreFrames DEF OSThreads
<1>4. /\ stack'[x] = Append(stack[x], f) /\ stack'[d] = <<g>>
      /\ \A z \in OSThreads : z # x /\ z # d => stack'[z] = stack[z]
  BY <1>2, <1>3 DEF Born
<1>5. f.at \notin Posting \cup {"loop", "erase"} /\ g.at \notin Posting \cup {"loop", "erase"}
  BY <1>2 DEF Posting
<1>6. PICK s, c : s = stack[x] /\ c = stack[d]
  OBVIOUS
<1>7. s \in Seq(Frame) /\ c \in Seq(Frame) /\ c = <<>>
  BY <1>3, <1>6, Zenon DEF TypeInv
<1>8. Quiet(s, Append(s, f)) /\ NoErase(s, Append(s, f))
  BY <1>3, <1>5, <1>7, QuietPumpFrame
<1>9. Quiet(c, <<g>>) /\ NoErase(c, <<g>>)
  BY <1>3, <1>5, <1>7, QuietPumpFrame
<1>10. ASSUME NEW z \in OSThreads PROVE Quiet(stack[z], stack'[z]) /\ NoErase(stack[z], stack'[z])
  <2>1. CASE z = x
    BY <1>4, <1>6, <1>8, <2>1, Zenon
  <2>2. CASE z = d
    BY <1>4, <1>6, <1>9, <2>2, Zenon
  <2>3. CASE z # x /\ z # d
    BY <1>4, <2>3, QuietSame, Zenon
  <2> QED
    BY <2>1, <2>2, <2>3
<1>11. UNCHANGED <<hubVars, deliveryVars, queue>>
  BY Zenon DEF Create, pumpVars
<1> QED
  BY <1>10, <1>11, Zenon DEF Passive, Still, hubVars, deliveryVars

LEMMA PassiveStart ==
    ASSUME TypeInv, ThreadInv, NEW x \in OSThreads, ThreadStartFunction(x)
    PROVE  Passive
<1>1. At(x, "name") /\ SetThreadName(x) /\ UNCHANGED <<hubVars, deliveryVars>>
  BY Zenon DEF ThreadStartFunction
<1>2. x \in Delegates
  BY Zenon DEF ThreadStartFunction, WorkerMain, ThreadMain, Delegates
<1>3. PICK n, s : n = Top(x) /\ s = stack[x]
  OBVIOUS
<1>4. n.at = "name" /\ s = <<n>> /\ s \in Seq(Frame) /\ n \in Frame
  <2>1. Top(x).at = "name" /\ stack[x] = <<Top(x)>>
    BY <1>1, <1>2, SetNameKeeps, Zenon
  <2>2. s \in Seq(Frame) /\ n \in Frame
    BY <1>1, <1>3, TopFacts
  <2> QED
    BY <1>3, <2>1, <2>2, Zenon
<1>5. CASE WorkerMain(x)
  <2>1. PICK u : u = User(InitTask)
    OBVIOUS
  <2>2. u \in Frame /\ u.at \notin Posting \cup {"loop", "erase"}
    <3>1. u \in UserFrame /\ u.at = "user"
      BY <2>1, TaskFacts, MadeFrames
    <3> QED
      BY <3>1, KindsAreFrames DEF Posting
  <2>3. stack' = [stack EXCEPT ![x] = Append(Front(s), u)] /\ UNCHANGED queue
    BY <1>3, <1>5, <2>1, Zenon DEF WorkerMain, Goto
  <2>4. Quiet(s, <<u>>) /\ NoErase(s, <<u>>) /\ Append(Front(s), u) = <<u>>
    BY <1>4, <2>2, QuietPumpFrame, Zenon
  <2>5. PICK s2 : s2 = <<u>>
    OBVIOUS
  <2>6. stack' = [stack EXCEPT ![x] = s2] /\ Quiet(s, s2) /\ NoErase(s, s2)
    BY <2>3, <2>4, <2>5, Zenon
  <2>7. \A q \in Pumps : \A t \in EventTasks : t \in queue'[q] <=> t \in queue[q]
    BY <2>3, Zenon
  <2> QED
    BY <1>1, <1>3, <2>6, <2>7, PassiveStack, Zenon
<1>6. CASE ThreadMain(x)
  <2>1. x \in Pumps
    BY <1>6 DEF ThreadMain, Pumps
  <2>2. CASE StartMessageLoop(x, x, <<>>)
    <3>1. PICK c, f : c = <<>> /\ f = [at |-> "pump", p |-> x]
      OBVIOUS
    <3>2. StartMessageLoop(x, x, c)
      BY <2>2, <3>1, Zenon
    <3>3. f \in Frame /\ f.at \notin Posting \cup {"loop", "erase"}
      <4>1. f \in PumpFrame /\ f.at = "pump"
        BY <2>1, <3>1, MadeFrames
      <4> QED
        BY <4>1, KindsAreFrames DEF Posting
    <3>4. PICK y \in OSThreads \cup {None} : LoopStarted(x, x, c, y)
      BY <1>1, <2>1, <3>2, LoopStart, Zenon
    <3>5. queue' = [queue EXCEPT ![x] = @ \cup {InitTask}]
      BY <3>2, Zenon DEF StartMessageLoop
    <3>6. Quiet(s, <<f>>) /\ NoErase(s, <<f>>) /\ Append(<<>>, f) = <<f>>
      BY <1>4, <3>3, QuietPumpFrame, Zenon
    <3>7. Quiet(s, Append(c, f)) /\ NoErase(s, Append(c, f))
      BY <3>1, <3>6, Zenon
    <3>8. /\ \A z \in OSThreads : Quiet(stack[z], stack'[z])
          /\ \A z \in OSThreads : NoErase(stack[z], stack'[z])
      BY <1>3, <3>1, <3>4, <3>7, QuietLoop, Zenon
    <3>9. \A q \in Pumps : \A t \in EventTasks : t \in queue'[q] <=> t \in queue[q]
      BY <2>1, <3>5, InitPosted
    <3> QED
      BY <1>1, <3>8, <3>9, Zenon DEF Passive, Still, hubVars, deliveryVars
  <2>3. CASE UNCHANGED <<stack, started, queue>>
    BY <1>1, <2>3, QuietSame, Zenon DEF Passive, Still, hubVars, deliveryVars
  <2> QED
    BY <1>6, <2>2, <2>3, Zenon DEF ThreadMain
<1> QED
  BY <1>5, <1>6, Zenon DEF ThreadStartFunction

---------------------------------------------------------------------------
(* Delivery and the hub's own operations.                                  *)

\* The hub's table changes while no share of an event does.
LEMMA StillHub ==
    ASSUME TypeInv, HubInv, NEW x \in OSThreads,
           \/ \E e \in Events : RegisterEvent(x, e)
           \/ \E h \in Handlers : RegisterEventHandler(x, h) \/ UnregisterEventHandler(x, h)
           \/ StoreHandlers(x)
    PROVE  Still
<1>1. PICK s : s = stack[x]
  OBVIOUS
<1>2. s \in Seq(Frame)
  BY <1>1 DEF TypeInv
<1>3. UNCHANGED <<expected, ran, dropped, queue>>
  BY Zenon DEF RegisterEvent, RegisterEventHandler, UnregisterEventHandler, StoreHandlers, deliveryVars, pumpVars
<1>4. raced \subseteq raced'
  BY DEF RegisterEvent, RegisterEventHandler, UnregisterEventHandler, StoreHandlers
<1>5. CASE UNCHANGED stack
  BY <1>3, <1>4, <1>5, QuietSame, Zenon DEF Still
<1>6. ASSUME NEW h \in Handlers, UnregisterEventHandler(x, h) PROVE Still
  <2>1. PICK e, v : e = EventOf[h] /\ v = RemoveFirst(At0(eventHandlers, e)[e], h)
    OBVIOUS
  <2>2. PICK f : f = [at |-> "erase", e |-> e, h |-> h, handlers |-> v]
    OBVIOUS
  <2>3. f \in EraseFrame /\ f.at = "erase" /\ stack' = [stack EXCEPT ![x] = Append(@, f)]
    BY <1>6, <2>1, <2>2, UnregisterFacts
  <2>4. f \in Frame /\ f.at \notin Posting \cup {"loop"}
    BY <2>3, KindsAreFrames DEF Posting
  <2>5. Quiet(s, Append(s, f))
    BY <1>2, <2>4, QuietAppend
  <2>6. stack' = [stack EXCEPT ![x] = Append(s, f)]
    BY <1>1, <2>3, Zenon
  <2>7. \A y \in OSThreads : Quiet(stack[y], stack'[y])
    BY <1>1, <2>5, <2>6, OneStack
  <2> QED
    BY <1>3, <1>4, <2>7, Zenon DEF Still
<1>7. CASE StoreHandlers(x)
  <2>1. At(x, "erase") /\ stack' = [stack EXCEPT ![x] = Front(@)]
    BY <1>7, Zenon DEF StoreHandlers, Return
  <2>2. s # <<>> /\ Last(s).at = "erase"
    BY <1>1, <2>1, Zenon DEF At
  <2>3. Last(s).at \notin Posting \cup {"loop"}
    BY <2>2 DEF Posting
  <2>4. Quiet(s, Front(s))
    BY <1>2, <2>2, <2>3, IdleKinds, QuietFront
  <2>5. stack' = [stack EXCEPT ![x] = Front(s)]
    BY <1>1, <2>1, Zenon
  <2>6. \A y \in OSThreads : Quiet(stack[y], stack'[y])
    BY <1>1, <2>4, <2>5, OneStack
  <2> QED
    BY <1>3, <1>4, <2>6, Zenon DEF Still
<1> QED
  BY <1>5, <1>6, <1>7, Zenon DEF RegisterEvent, RegisterEventHandler

LEMMA HubActionsKeep ==
    ASSUME TypeInv, HubInv, DeliveryInv, NEW x \in OSThreads,
           \/ \E e \in Events : RegisterEvent(x, e)
           \/ \E h \in Handlers : RegisterEventHandler(x, h) \/ UnregisterEventHandler(x, h)
           \/ StoreHandlers(x)
    PROVE  HubInv' /\ DeliveryInv'
<1>1. DeliveryInv'
  BY StillHub, DeliveryStill
<1>2. HubInv'
  BY HubRegister, HubUnregister, HubStore, Zenon
<1> QED
  BY <1>1, <1>2

LEMMA DeliveryInit == Init => DeliveryInv
<1> SUFFICES ASSUME Init PROVE DeliveryInv
  OBVIOUS
<1>1. PICK u : u = User(InitTask)
  OBVIOUS
<1>2. u.at = "user"
  BY <1>1, TaskFacts, MadeFrames
<1>3. Idle(u) /\ u.at # "loop"
  <2>1. u.at \notin Posting \cup {"loop"}
    BY <1>2 DEF Posting
  <2> QED
    BY <2>1, IdleKinds
<1>4. \A x \in OSThreads : stack[x] = <<u>> \/ stack[x] = <<>>
  BY <1>1 DEF Init
<1>5. ASSUME NEW f \in Frames PROVE f.at # "loop"
  <2>1. PICK x \in OSThreads : f \in Range(stack[x])
    BY <1>5, Zenon DEF Frames
  <2>2. Range(<<u>>) = {u} /\ Range(<<>>) = {}
    BY DEF Range
  <2> QED
    BY <1>3, <1>4, <2>1, <2>2
<1>6. ran \in [Tasks -> 0 .. 1] /\ ran[InitTask] = 0 /\ \A t \in EventTasks : ran[t] = 0
  BY TaskFacts DEF Init, EventTasks, Tasks
<1>7. ASSUME NEW t \in EventTasks, NEW x \in Places, NEW i \in Nat PROVE ~InPlace(t, x, i)
  <2>1. x \in OSThreads => ~Carried(stack[x], i, t)
    <3>1. \A j \in DOMAIN <<u>> : <<u>>[j] = u
      OBVIOUS
    <3>2. DOMAIN <<>> = {}
      OBVIOUS
    <3>3. ~Carried(<<u>>, i, t) /\ ~Carried(<<>>, i, t)
      BY <1>3, <3>1, <3>2 DEF Carried, Idle
    <3> QED
      BY <1>4, <3>3
  <2>2. t \notin dropped /\ (x \in Pumps => t \notin queue[x])
    BY DEF Init
  <2> QED
    BY <1>6, <2>1, <2>2, Zenon DEF InPlace
<1>8. \A t \in EventTasks : ~Somewhere(t) /\ OnePlace(t)
  BY <1>7, Zenon DEF Somewhere, OnePlace
<1>9. DOMAIN expected = {}
  BY DEF Init
<1> QED
  BY <1>5, <1>6, <1>8, <1>9 DEF DeliveryInv

\* The share of k in a new loop, number k over the vector v.
LEMMA NewLoopCarries ==
    ASSUME NEW v \in Seq(Handlers), NEW f, f.at = "loop", f.i = 1, f.handlers = v, NEW t
    PROVE  Carries(f, t) <=> f.k = t.k /\ t.h \in Range(v)
<1>1. DOMAIN v = 1 .. Len(v) /\ "loop" \notin Posting
  BY DEF Posting
<1>2. t.h \in Range(v) <=> \E j \in 1 .. Len(v) : v[j] = t.h
  BY <1>1 DEF Range
<1> QED
  BY <1>1, <1>2, Zenon DEF Carries

\* TriggerEvent puts the shares of event k into the n-th call of x, and moves no other.
Enters(x, n, k, v) ==
    \A t \in EventTasks, y \in Places, i \in Nat :
       InPlace(t, y, i)' <=> InPlace(t, y, i) \/ (y = x /\ i = n /\ t.k = k /\ t.h \in Range(v))

LEMMA TriggerPlaces ==
    ASSUME TypeInv, NEW x \in OSThreads, NEW e \in DOMAIN eventHandlers, NEW v, v = eventHandlers[e],
           NEW k \in 1 .. MaxTriggers, NEW n, n = Len(stack[x]) + 1,
           NEW f, f = [at |-> "loop", k |-> k, e |-> e, i |-> 1, handlers |-> v],
           stack' = [stack EXCEPT ![x] = Append(@, f)], UNCHANGED <<queue, dropped, ran>>
    PROVE  Enters(x, n, k, v)
<1> SUFFICES ASSUME NEW t \in EventTasks, NEW y \in Places, NEW i \in Nat
             PROVE  InPlace(t, y, i)' <=> InPlace(t, y, i) \/ (y = x /\ i = n /\ t.k = k /\ t.h \in Range(v))
  BY Zenon DEF Enters
<1>1. v \in Seq(Handlers) /\ e \in Events
  BY Zenon DEF TypeInv
<1>2. f.at = "loop" /\ f.i = 1 /\ f.handlers = v /\ f.k = k
  OBVIOUS
<1>3. f \in Frame
  BY <1>1, MadeFrames, KindsAreFrames
<1>4. Carries(f, t) <=> t.k = k /\ t.h \in Range(v)
  <2>1. Carries(f, t) <=> f.k = t.k /\ t.h \in Range(v)
    BY <1>1, <1>2, NewLoopCarries
  <2> QED
    BY <1>2, <2>1
<1>5. PICK s, c : s = stack[x] /\ c = Append(s, f)
  OBVIOUS
<1>6. s \in Seq(Frame)
  BY <1>5 DEF TypeInv
<1>7. Carried(c, i, t) <=> Carried(s, i, t) \/ (i = n /\ Carries(f, t))
  <2>1. n = Len(s) + 1
    BY <1>5
  <2> QED
    BY <1>3, <1>5, <1>6, <2>1, AppendLoads, Zenon
<1>8. y \in OSThreads => stack'[y] = IF y = x THEN c ELSE stack[y]
  BY <1>5 DEF TypeInv
<1>9. y \in OSThreads => (Carried(stack'[y], i, t) <=> Carried(stack[y], i, t) \/ (y = x /\ i = n /\ t.k = k /\ t.h \in Range(v)))
  <2>1. CASE y = x
    <3>1. stack'[y] = c /\ stack[y] = s
      BY <1>5, <1>8, <2>1
    <3> QED
      BY <1>4, <1>7, <2>1, <3>1, Zenon
  <2>2. CASE y # x
    BY <1>8, <2>2
  <2> QED
    BY <2>1, <2>2
<1>10. Carried(stack[y], i, t)' <=> Carried(stack'[y], i, t)
  BY Zenon DEF Carried, Carries
<1> QED
  BY <1>9, <1>10, Zenon DEF InPlace

LEMMA TriggerKeeps ==
    ASSUME TypeInv, HubInv, DeliveryInv, NEW x \in OSThreads, NEW e \in Events, TriggerEvent(x, e)
    PROVE  HubInv' /\ DeliveryInv'
<1>1. PICK v, k, n : v = eventHandlers[e] /\ k = Len(expected) + 1 /\ n = Len(stack[x]) + 1
  OBVIOUS
<1>2. PICK f : f = [at |-> "loop", k |-> k, e |-> e, i |-> 1, handlers |-> v]
  OBVIOUS
<1>3. PICK H : H = {h \in registered : EventOf[h] = e}
  OBVIOUS
<1>4. /\ e \in DOMAIN eventHandlers /\ stack' = [stack EXCEPT ![x] = Append(@, f)] /\ expected' = Append(expected, H)
      /\ UNCHANGED <<queue, dropped, ran, hubVars>> /\ Len(expected) < MaxTriggers
  BY <1>1, <1>2, <1>3, Zenon DEF TriggerEvent, Push, pumpVars
<1>5. v \in Seq(Handlers) /\ expected \in Seq(SUBSET Handlers) /\ H \in SUBSET Handlers /\ VectorOK(v, e)
  <2>1. H \in SUBSET Handlers
    BY <1>3 DEF TypeInv
  <2> QED
    BY <1>1, <1>4, <2>1, Zenon DEF TypeInv, HubInv
<1>6. k \in 1 .. MaxTriggers /\ DOMAIN expected = 1 .. k - 1
  BY <1>1, <1>4, <1>5, BoundAssumption
<1>7. f \in Frame /\ f.at = "loop" /\ f.handlers = v
  BY <1>2, <1>5, <1>6, MadeFrames, KindsAreFrames
<1>8. PICK s : s = stack[x]
  OBVIOUS
<1>9. s \in Seq(Frame) /\ stack' = [stack EXCEPT ![x] = Append(s, f)]
  BY <1>4, <1>8, Zenon DEF TypeInv
<1>10. Range(Append(s, f)) = Range(s) \cup {f}
  BY <1>7, <1>9, AppendRange
<1>11. HubInv'
  <2>1. NoErase(s, Append(s, f))
    BY <1>7, <1>10 DEF NoErase
  <2>2. \A y \in OSThreads : NoErase(stack[y], stack'[y])
    BY <1>8, <1>9, <2>1, OneStack
  <2> QED
    BY <1>4, <2>2, HubKept
<1>12. ASSUME NEW g \in Frames', g.at = "loop" PROVE IsInjective(g.handlers)
  <2>1. PICK y \in OSThreads : g \in Range(stack'[y])
    BY <1>12, Zenon DEF Frames
  <2>2. stack'[y] = IF y = x THEN Append(s, f) ELSE stack[y]
    BY <1>9 DEF TypeInv
  <2>3. g = f \/ g \in Range(stack[y])
    BY <1>8, <1>10, <2>1, <2>2
  <2> QED
    BY <1>5, <1>7, <1>12, <2>3, Zenon DEF DeliveryInv, Frames, VectorOK
<1>13. Enters(x, n, k, v)
  BY <1>1, <1>2, <1>4, <1>6, TriggerPlaces
<1>14. /\ DOMAIN expected' = 1 .. k /\ expected'[k] = H
       /\ \A j \in 1 .. k - 1 : expected'[j] = expected[j]
  BY <1>1, <1>4, <1>5, AppendFacts
<1>15. n \in Nat /\ x \in Places
  BY <1>1, <1>8, <1>9, LenProperties DEF Places
<1>16. \A t \in EventTasks : t.k = k => ~Somewhere(t)
  <2>1. k \notin DOMAIN expected
    BY <1>6
  <2> QED
    BY <2>1, Zenon DEF DeliveryInv
<1>17. ASSUME NEW t \in EventTasks, t.k = k PROVE OnePlace(t)' /\ (Somewhere(t)' <=> t.h \in Range(v))
  <2>1. \A y \in Places, i \in Nat : InPlace(t, y, i)' <=> y = x /\ i = n /\ t.h \in Range(v)
    BY <1>13, <1>16, <1>17, Zenon DEF Enters, Somewhere
  <2>2. Places' = Places
    BY Zenon DEF Places
  <2> QED
    BY <1>15, <2>1, <2>2, Zenon DEF OnePlace, Somewhere
<1>18. ASSUME NEW t \in EventTasks, t.k # k PROVE OnePlace(t)' /\ (Somewhere(t)' <=> Somewhere(t))
  <2>1. \A y \in Places, i \in Nat : InPlace(t, y, i)' <=> InPlace(t, y, i)
    BY <1>13, <1>18, Zenon DEF Enters
  <2>2. OnePlace(t)
    BY Zenon DEF DeliveryInv
  <2>3. Somewhere(t)' <=> Somewhere(t)
    BY <2>1, Zenon DEF Somewhere
  <2>4. OnePlace(t)'
    BY <2>1, <2>2, Zenon DEF OnePlace
  <2> QED
    BY <2>3, <2>4
<1>19. \A t \in EventTasks : OnePlace(t)'
  BY <1>17, <1>18, Zenon
<1>20. ASSUME NEW t \in EventTasks, Somewhere(t)' PROVE t.k \in DOMAIN expected'
  <2>1. CASE t.k = k
    BY <1>6, <1>14, <2>1
  <2>2. CASE t.k # k
    <3>1. t.k \in 1 .. k - 1
      BY <1>6, <1>18, <1>20, <2>2, Zenon DEF DeliveryInv
    <3> QED
      BY <1>6, <1>14, <3>1
  <2> QED
    BY <2>1, <2>2
<1>21. ASSUME NEW t \in EventTasks, t.k \in DOMAIN expected', t.h \notin raced'
       PROVE  Somewhere(t)' <=> t.h \in expected'[t.k]
  <2>1. t.h \in Handlers \ raced
    BY <1>4, <1>21, TaskFacts, Zenon DEF hubVars
  <2>2. CASE t.k = k
    <3>1. t.h \in registered <=> EventOf[t.h] \in DOMAIN eventHandlers /\ t.h \in Range(eventHandlers[EventOf[t.h]])
      BY <2>1, Zenon DEF HubInv
    <3>2. t.h \in Range(v) => EventOf[t.h] = e
      BY <1>5, Zenon DEF VectorOK
    <3>3. t.h \in H <=> t.h \in registered /\ EventOf[t.h] = e
      BY <1>3
    <3>4. t.h \in H <=> t.h \in Range(v)
      BY <1>1, <1>4, <3>1, <3>2, <3>3, Zenon
    <3> QED
      BY <1>14, <1>17, <2>2, <3>4, Zenon
  <2>3. CASE t.k # k
    <3>1. t.k \in 1 .. k - 1
      BY <1>6, <1>14, <1>21, <2>3
    <3>2. Somewhere(t) <=> t.h \in expected[t.k]
      BY <1>6, <2>1, <3>1, Zenon DEF DeliveryInv
    <3> QED
      BY <1>14, <1>18, <2>3, <3>1, <3>2, Zenon
  <2> QED
    BY <2>2, <2>3
<1>22. ran' \in [Tasks -> 0 .. 1] /\ ran'[InitTask] = 0
  BY <1>4, Zenon DEF DeliveryInv
<1> QED
  BY <1>11, <1>12, <1>19, <1>20, <1>21, <1>22, Zenon DEF DeliveryInv

LEMMA KeepStep ==
    ASSUME TypeInv, ThreadInv, HubInv, DeliveryInv, [Next]_vars
    PROVE  HubInv' /\ DeliveryInv'
<1>1. ASSUME NEW x \in OSThreads, NEW d \in Delegates, StartThread(x, d) \/ StartWorker(x, d) PROVE Passive
  <2>1. At(x, "user") /\ stack[d] = <<>> /\ Create(x, d)
    BY <1>1, Zenon DEF StartThread, StartWorker
  <2> QED
    BY <2>1, PassiveCreate
<1>2. \A d : d \in Threads \/ d \in Workers => d \in Delegates
  BY DEF Delegates
<1>3. ASSUME NEW x \in OSThreads, Calls(x) PROVE HubInv' /\ DeliveryInv'
  BY <1>1, <1>2, <1>3, HubActionsKeep, TriggerKeeps, PassiveStartRunner, PassivePumps, PassiveKeeps, Zenon DEF Calls
<1>4. ASSUME NEW x \in OSThreads, Runs(x) PROVE HubInv' /\ DeliveryInv'
  BY <1>4, HubActionsKeep, DispatchKeeps, PostKeeps, RunTaskKeeps, PassiveStart, PassivePumps, PassiveKeeps, Zenon DEF Runs
<1>5. CASE UNCHANGED vars
  <2>1. Passive
    BY <1>5, QuietSame, Zenon DEF vars, pumpVars, hubVars, deliveryVars, Passive, Still
  <2> QED
    BY <2>1, PassiveKeeps
<1> QED
  BY <1>3, <1>4, <1>5, Zenon DEF Next

---------------------------------------------------------------------------
(* Counting the places of a share.                                         *)

LEMMA RestOfLoop ==
    ASSUME NEW v \in Seq(Handlers), NEW i \in Nat \ {0}, NEW h
    PROVE  h \in Range(SubSeq(v, i, Len(v))) <=> \E j \in i .. Len(v) : v[j] = h
<1>1. PICK n, c : n = Len(v) /\ c = SubSeq(v, i, Len(v))
  OBVIOUS
<1>2. n \in Nat /\ DOMAIN v = 1 .. n /\ \A j \in 1 .. n : v[j] \in Handlers
  BY <1>1
<1>3. \A j \in i .. n : v[j] \in Handlers
  BY <1>2
<1>4. CASE i > n
  <2>1. c = <<>> /\ i .. n = {}
    BY <1>1, <1>2, <1>4, SubSeqEmpty
  <2>2. Range(<<>>) = {}
    BY DEF Range
  <2> QED
    BY <1>1, <2>1, <2>2
<1>5. CASE i <= n
  <2>1. c \in Seq(Handlers) /\ Len(c) = n - i + 1 /\ \A j \in 1 .. n - i + 1 : c[j] = v[i + j - 1]
    BY <1>1, <1>2, <1>3, <1>5, SubSeqProperties
  <2>2. DOMAIN c = 1 .. n - i + 1
    BY <2>1, LenProperties
  <2>3. ASSUME h \in Range(c) PROVE \E j \in i .. n : v[j] = h
    <3>1. PICK m \in 1 .. n - i + 1 : c[m] = h
      BY <2>2, <2>3 DEF Range
    <3>2. i + m - 1 \in i .. n /\ v[i + m - 1] = h
      BY <1>2, <1>5, <2>1, <3>1
    <3> QED
      BY <3>2
  <2>4. ASSUME NEW j \in i .. n, v[j] = h PROVE h \in Range(c)
    <3>1. PICK m : m = j - i + 1
      OBVIOUS
    <3>2. m \in 1 .. n - i + 1 /\ i + m - 1 = j
      BY <1>2, <1>5, <3>1
    <3>3. c[m] = h
      BY <2>1, <2>4, <3>2
    <3> QED
      BY <2>2, <3>2, <3>3 DEF Range
  <2> QED
    BY <1>1, <2>3, <2>4
<1> QED
  BY <1>1, <1>2, <1>4, <1>5

\* The sets that Shares counts.
LoopsOf(t) == {f \in Frames : f.at = "loop" /\ f.k = t.k
                                /\ t.h \in Range(SubSeq(f.handlers, f.i, Len(f.handlers)))}
PostsOf(t) == {f \in Frames : f.at \in {"wait", "blocked", "push"} /\ f.task = t}
QueuesOf(t) == {p \in Pumps : t \in queue[p]}

LEMMA SharesOf ==
    ASSUME NEW t
    PROVE  Shares(Frames, t) = Cardinality(LoopsOf(t)) + Cardinality(PostsOf(t)) + Cardinality(QueuesOf(t))
                                 + Cardinality({t} \cap dropped) + ran[t]
BY Zenon DEF Shares, LoopsOf, PostsOf, QueuesOf

\* A call that Shares counts carries t, and the reverse.
LEMMA CountedCalls ==
    ASSUME TypeInv, NEW t \in EventTasks, NEW f \in Frames
    PROVE  /\ f \in LoopsOf(t) <=> f.at = "loop" /\ Carries(f, t)
           /\ f \in PostsOf(t) <=> f.at \in Posting /\ Carries(f, t)
<1>1. f \in Frame
  <2>1. PICK y \in OSThreads : f \in Range(stack[y])
    BY Zenon DEF Frames
  <2> QED
    BY <2>1, RangeTyped
<1>2. "loop" \notin Posting
  BY DEF Posting
<1>3. CASE f.at = "loop"
  <2>1. f \in LoopFrame
    BY <1>1, <1>3, FrameKinds
  <2>2. f.handlers \in Seq(Handlers) /\ f.i \in Nat \ {0}
    BY <2>1 DEF LoopFrame
  <2>3. t.h \in Range(SubSeq(f.handlers, f.i, Len(f.handlers))) <=> \E j \in f.i .. Len(f.handlers) : f.handlers[j] = t.h
    BY <2>2, RestOfLoop
  <2> QED
    BY <1>2, <1>3, <2>3, Zenon DEF LoopsOf, PostsOf, Carries, Posting
<1>4. CASE f.at # "loop"
  BY <1>4, Zenon DEF LoopsOf, PostsOf, Carries, Posting
<1> QED
  BY <1>3, <1>4

\* The place of a call that carries t.
LEMMA CallPlace ==
    ASSUME TypeInv, NEW t, NEW f \in Frames, Carries(f, t)
    PROVE  \E y \in OSThreads, j \in Nat : j # 0 /\ InPlace(t, y, j) /\ f = stack[y][j]
<1>1. PICK y \in OSThreads : f \in Range(stack[y])
  BY Zenon DEF Frames
<1>2. stack[y] \in Seq(Frame)
  BY DEF TypeInv
<1>3. PICK j \in DOMAIN stack[y] : f = stack[y][j]
  BY <1>1 DEF Range
<1>4. j \in Nat /\ j # 0
  BY <1>2, <1>3
<1>5. InPlace(t, y, j)
  BY <1>3, Zenon DEF InPlace, Carried
<1> QED
  BY <1>3, <1>4, <1>5, Zenon

\* A share of an event is counted as often as it is somewhere, once.
LEMMA SharesCount ==
    ASSUME TypeInv, DeliveryInv, NEW t \in EventTasks
    PROVE  /\ ~Somewhere(t) => Shares(Frames, t) = 0
           /\ Somewhere(t) => Shares(Frames, t) = 1
<1>1. PICK L, P, Q, D : L = LoopsOf(t) /\ P = PostsOf(t) /\ Q = QueuesOf(t) /\ D = {t} \cap dropped
  OBVIOUS
<1>2. Shares(Frames, t) = Cardinality(L) + Cardinality(P) + Cardinality(Q) + Cardinality(D) + ran[t]
  BY <1>1, SharesOf, Zenon
<1>3. Cardinality({}) = 0 /\ \A z : Cardinality({z}) = 1
  BY FS_EmptySet, FS_Singleton, Zenon
<1>4. ran[t] \in {0, 1}
  BY TaskFacts DEF DeliveryInv
<1>5. /\ OSThreads \subseteq Places /\ Pumps \subseteq Places /\ None \in Places
      /\ None \notin OSThreads /\ None \notin Pumps /\ 0 \in Nat /\ 1 \in Nat /\ 0 # 1
  BY ThreadAssumption DEF Places
<1>6. L \subseteq Frames /\ P \subseteq Frames
  BY <1>1, Zenon DEF LoopsOf, PostsOf
<1>7. ASSUME NEW f \in L \cup P
      PROVE  \E y \in OSThreads, j \in Nat : j # 0 /\ InPlace(t, y, j) /\ f = stack[y][j]
  <2>1. f \in Frames
    BY <1>6
  <2>2. Carries(f, t)
    BY <1>1, <1>7, <2>1, CountedCalls, Zenon
  <2> QED
    BY <2>1, <2>2, CallPlace
<1>8. /\ \A p \in Q : p \in Pumps /\ InPlace(t, p, 0)
      /\ D # {} => InPlace(t, None, 0)
      /\ ran[t] # 0 => InPlace(t, None, 1)
  BY <1>1 DEF QueuesOf, InPlace
<1>9. ASSUME ~Somewhere(t) PROVE Shares(Frames, t) = 0
  <2>1. \A y \in Places, i \in Nat : ~InPlace(t, y, i)
    BY <1>9, Zenon DEF Somewhere
  <2>2. L = {} /\ P = {}
    BY <1>5, <1>7, <2>1, Zenon
  <2>3. Q = {} /\ D = {} /\ ran[t] = 0
    BY <1>5, <1>8, <2>1, Zenon
  <2> QED
    BY <1>2, <1>3, <2>2, <2>3
<1>10. ASSUME NEW x \in Places, NEW i \in Nat, InPlace(t, x, i) PROVE Shares(Frames, t) = 1
  <2>1. \A y \in Places, j \in Nat : InPlace(t, y, j) => y = x /\ j = i
    BY <1>10, Zenon DEF DeliveryInv, OnePlace
  <2>3. CASE x \in OSThreads /\ Carried(stack[x], i, t)
    <3>1. stack[x] \in Seq(Frame) /\ i \in DOMAIN stack[x]
      BY <2>3 DEF TypeInv, Carried
    <3>2. i # 0
      BY <3>1
    <3>3. PICK f : f = stack[x][i]
      OBVIOUS
    <3>4. f \in Frames /\ Carries(f, t)
      <4>1. f \in Range(stack[x])
        BY <3>1, <3>3 DEF Range
      <4> QED
        BY <2>3, <3>3, <4>1, Zenon DEF Frames, Carried
    <3>5. L \cup P \subseteq {f}
      BY <1>5, <1>7, <2>1, <3>3, Zenon
    <3>6. Q = {} /\ D = {} /\ ran[t] = 0
      BY <1>5, <1>8, <2>1, <2>3, <3>2, Zenon
    <3>7. (f \in L <=> f.at = "loop") /\ (f \in P <=> f.at \in Posting)
      BY <1>1, <3>4, CountedCalls, Zenon
    <3>8. f.at = "loop" \/ f.at \in Posting
      BY <3>4, Zenon DEF Carries
    <3>9. f.at = "loop" => f.at \notin Posting
      BY DEF Posting
    <3>10. (L = {f} /\ P = {}) \/ (L = {} /\ P = {f})
      BY <3>5, <3>7, <3>8, <3>9
    <3>11. CASE L = {f} /\ P = {}
      <4>1. Cardinality(L) = 1 /\ Cardinality(P) = 0 /\ Cardinality(Q) = 0 /\ Cardinality(D) = 0
        BY <1>3, <3>6, <3>11, Zenon
      <4> QED
        BY <1>2, <3>6, <4>1
    <3>12. CASE L = {} /\ P = {f}
      <4>1. Cardinality(L) = 0 /\ Cardinality(P) = 1 /\ Cardinality(Q) = 0 /\ Cardinality(D) = 0
        BY <1>3, <3>6, <3>12, Zenon
      <4> QED
        BY <1>2, <3>6, <4>1
    <3> QED
      BY <3>10, <3>11, <3>12
  <2>4. CASE x \in Pumps /\ i = 0 /\ t \in queue[x]
    <3>1. L = {} /\ P = {}
      BY <1>5, <1>7, <2>1, <2>4, Zenon
    <3>2. D = {} /\ ran[t] = 0
      BY <1>5, <1>8, <2>1, <2>4, Zenon
    <3>3. x \in Q /\ \A p \in Q : p = x
      BY <1>1, <1>5, <1>8, <2>1, <2>4, Zenon DEF QueuesOf
    <3>4. Q = {x}
      BY <3>3
    <3>5. Cardinality(L) = 0 /\ Cardinality(P) = 0 /\ Cardinality(Q) = 1 /\ Cardinality(D) = 0
      BY <1>3, <3>1, <3>2, <3>4, Zenon
    <3> QED
      BY <1>2, <3>2, <3>5
  <2>5. CASE x = None /\ i = 0 /\ t \in dropped
    <3>1. L = {} /\ P = {}
      BY <1>5, <1>7, <2>1, <2>5, Zenon
    <3>2. Q = {} /\ ran[t] = 0
      BY <1>5, <1>8, <2>1, <2>5, Zenon
    <3>3. D = {t}
      BY <1>1, <2>5
    <3>4. Cardinality(L) = 0 /\ Cardinality(P) = 0 /\ Cardinality(Q) = 0 /\ Cardinality(D) = 1
      BY <1>3, <3>1, <3>2, <3>3, Zenon
    <3> QED
      BY <1>2, <3>2, <3>4
  <2>6. CASE x = None /\ i = 1 /\ ran[t] # 0
    <3>1. L = {} /\ P = {}
      BY <1>5, <1>7, <2>1, <2>6, Zenon
    <3>2. Q = {} /\ D = {}
      BY <1>5, <1>8, <2>1, <2>6, Zenon
    <3>3. ran[t] = 1
      BY <1>4, <2>6
    <3>4. Cardinality(L) = 0 /\ Cardinality(P) = 0 /\ Cardinality(Q) = 0 /\ Cardinality(D) = 0
      BY <1>3, <3>1, <3>2, Zenon
    <3> QED
      BY <1>2, <3>3, <3>4
  <2> QED
    BY <1>10, <2>3, <2>4, <2>5, <2>6, Zenon DEF InPlace
<1> QED
  BY <1>9, <1>10, Zenon DEF Somewhere

LEMMA DeliveryImplies ==
    ASSUME TypeInv, DeliveryInv
    PROVE  DeliveredOnce
<1>1. ASSUME NEW k \in DOMAIN expected, NEW h \in Handlers
      PROVE  IF h \in raced THEN Shares(Frames, [k |-> k, h |-> h]) <= 1
             ELSE Shares(Frames, [k |-> k, h |-> h]) = IF h \in expected[k] THEN 1 ELSE 0
  <2>1. PICK t : t = [k |-> k, h |-> h]
    OBVIOUS
  <2>2. k \in 1 .. MaxTriggers
    <3>1. expected \in Seq(SUBSET Handlers) /\ Len(expected) <= MaxTriggers
      BY Zenon DEF TypeInv
    <3> QED
      BY <3>1, BoundAssumption
  <2>3. t \in EventTasks /\ t.k = k /\ t.h = h
    BY <2>1, <2>2, TaskFacts
  <2>4. h \notin raced => (Somewhere(t) <=> h \in expected[k])
    BY <1>1, <2>3, Zenon DEF DeliveryInv
  <2>5. (~Somewhere(t) => Shares(Frames, t) = 0) /\ (Somewhere(t) => Shares(Frames, t) = 1)
    BY <2>3, SharesCount
  <2>6. IF h \in raced THEN Shares(Frames, t) <= 1
        ELSE Shares(Frames, t) = IF h \in expected[k] THEN 1 ELSE 0
    BY <2>4, <2>5
  <2> QED
    BY <2>1, <2>6, Zenon
<1> QED
  BY <1>1, Zenon DEF DeliveredOnce

---------------------------------------------------------------------------
(* The theorems.                                                           *)

Inv == TypeInv /\ ThreadInv /\ HubInv /\ DeliveryInv

\* The inductive invariant: the types of the calls, the thread each pump and each handler
\* runs on, the vectors that UnregisterEventHandler copies and stores, and the one place
\* where a handler's share of an event is.
THEOREM EventHubInvariant == Spec => []Inv
<1>1. Init => Inv
  BY TypeInit, ThreadInit, HubInit, DeliveryInit, Zenon DEF Inv
<1>2. Inv /\ [Next]_vars => Inv'
  BY TypeStep, ThreadStep, KeepStep, Zenon DEF Inv
<1> QED
  BY <1>1, <1>2, PTL DEF Spec

\* However creations of threads, namings and posts interleave, a handler posted as a task
\* runs on a thread on which THREAD_CHECK for its owner holds, and a thread that
\* ThreadStartFunction has set going bears its own name, but for the delegates whose
\* creation is not over or overlapped another in PlatformThread's static handle; on those,
\* too, the handler runs on its owner's own thread, and only the check is wrong.
THEOREM HandlersOnTheirThreads == Spec => []ThreadIdentity
<1>1. Inv => ThreadIdentity
  BY ThreadImplies, Zenon DEF Inv
<1> QED
  BY <1>1, EventHubInvariant, PTL

\* The types, with what they say beyond types: only a pump whose loop has started holds its
\* queueGuard, and neither the loop of TriggerEvent nor a pump calls a handler twice for
\* one event.
THEOREM EventHubTypes == Spec => []TypeOK
<1>1. Inv => TypeOK
  <2> SUFFICES ASSUME TypeInv, ThreadInv, DeliveryInv PROVE TypeOK
    BY Zenon DEF Inv
  <2>1. queueGuard \subseteq started /\ ran \in [Tasks -> 0 .. 1]
    BY Zenon DEF ThreadInv, DeliveryInv
  <2> QED
    BY <2>1, Zenon DEF TypeInv, TypeOK
<1> QED
  BY <1>1, EventHubInvariant, PTL

\* TriggerEvent delivers to exactly the handlers registered when it is called, once each:
\* at any moment each of them has its share of the event in one place, the loop, a post, a
\* queue, dropped or done, and no other handler has one.  So for any number of threads
\* that register, unregister and trigger meanwhile, the handlers themselves included.  A
\* handler caught between another thread's copy and its store has at most one share.
THEOREM EventsDeliveredOnce == Spec => []DeliveredOnce
<1>1. Inv => DeliveredOnce
  BY DeliveryImplies, Zenon DEF Inv
<1> QED
  BY <1>1, EventHubInvariant, PTL

=============================================================================

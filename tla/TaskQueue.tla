----------------------------- MODULE TaskQueue -----------------------------
(***************************************************************************)
(* What a task runner promises to the threads that post to it, whatever    *)
(* pump implements it: a posted task is begun exactly once, tasks are run  *)
(* one at a time, and the task begun is one of the most urgent that are    *)
(* waiting.  Among tasks of equal urgency nothing is promised, not even    *)
(* that they run in the order they were posted: std::priority_queue is not *)
(* stable.                                                                 *)
(***************************************************************************)
EXTENDS Integers

CONSTANTS Tasks,       \* every Task object that is ever posted
          NoTask       \* "nothing is running"

VARIABLES pending,     \* posted and not begun
          urgency,     \* the priority a task was given; a smaller number is more urgent
          running,     \* the task being invoked, or NoTask
          done         \* the tasks invoked to the end

vars == <<pending, urgency, running, done>>

Init ==
    /\ pending = {}
    /\ urgency \in [Tasks -> Int]
    /\ running = NoTask
    /\ done = {}

Post(t) ==
    /\ t \notin pending \cup done \cup {running}
    /\ pending' = pending \cup {t}
    /\ UNCHANGED <<urgency, running, done>>

Begin(t) ==
    /\ running = NoTask
    /\ t \in pending
    /\ \A u \in pending : urgency[t] <= urgency[u]
    /\ pending' = pending \ {t}
    /\ running' = t
    /\ UNCHANGED <<urgency, done>>

End ==
    /\ running # NoTask
    /\ done' = done \cup {running}
    /\ running' = NoTask
    /\ UNCHANGED <<pending, urgency>>

Next == (\E t \in Tasks : Post(t) \/ Begin(t)) \/ End

Spec == Init /\ [][Next]_vars
=============================================================================

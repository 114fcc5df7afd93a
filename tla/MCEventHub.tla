---------------------------- MODULE MCEventHub -----------------------------
(***************************************************************************)
(* One event with a handler on the Main runner and one on a Thread, the    *)
(* main thread, the Thread and an I/O worker.                              *)
(***************************************************************************)
EXTENDS EventHub

CONSTANTS main, rMain, thread, worker, event, other, onMain, onThread, direct

MCEventOf == [h \in Handlers |-> IF h = direct THEN other ELSE event]
MCOwner == [h \in Handlers |-> CASE h = onMain -> rMain [] h = onThread -> thread [] OTHER -> None]
MCCallers == [RegisterEvent |-> {main}, RegisterEventHandler |-> {rMain},
              UnregisterEventHandler |-> {thread}, TriggerEvent |-> {rMain, thread},
              TaskRunner |-> {main}, Thread |-> {main}]
MCAsTask == Handlers \ {direct}
=============================================================================

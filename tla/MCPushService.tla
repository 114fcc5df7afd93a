--------------------------- MODULE MCPushService ---------------------------
(* The service on small instances.                                         *)
EXTENDS PushService, TLC

\* Every push is to the same reference, so that pushes meet each other's.
CONSTANT main
MCRefOf == [c \in Pushes |-> main]
=============================================================================

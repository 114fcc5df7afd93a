--------------------------- MODULE MCTaskManager ---------------------------
(* Programs for TaskManager: three tasks for the main runner; a task for   *)
(* a pool that was never made; two tasks for a pool of one; one for a pool *)
(* clamped to the hardware.                                                *)
EXTENDS TaskManager, TLC

MCHomeOf == InitTask :> Main @@ "a" :> Main @@ "b" :> Main @@ "c" :> Main
MCPrograms ==
  { [asked |-> 0, load |-> {"a", "b", "c"}],
    [asked |-> 0, load |-> {"x"}],
    [asked |-> 1, load |-> {"x", "y"}],
    [asked |-> -1, load |-> {"x"}] }
MCPoolPrograms == {[asked |-> -1, load |-> {"x"}]}
PosterSymmetry == Permutations(Posters)
=============================================================================

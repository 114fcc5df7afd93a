------------------------ MODULE MCRepositoryManager ------------------------
(* The repository manager under every sequence of calls, within bounds.    *)
EXTENDS RepositoryManager, TLC

CONSTANTS k1, k2, k3,    \* packs
          main, topic    \* references

\* Bounds on the two things that grow without end.
MaxReopens == 1
MaxAppends == MaxChunks + 1

\* k1 and k2 go to the same reference, so that one meets the other's.
MCRefOf == k1 :> main @@ k2 :> main @@ k3 :> topic

MCNext ==
    /\ Next
    /\ repoRefCnt' <= MaxReopens
    /\ currentRepo' # NoRepo => Len(currentRepo'.appended) <= MaxAppends

MCSpec == Init /\ [][MCNext]_vars
=============================================================================

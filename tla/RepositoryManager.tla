------------------------- MODULE RepositoryManager -------------------------
(***************************************************************************)
(* The repository the server has open (RepositoryManager, GitRepo) and     *)
(* what is on disk.  Its operations are the bodies of the tasks that       *)
(* RepoProxy posts: each runs on the Main thread under repoLocker, so each *)
(* is one step.  An operation takes the answer its promise is set to as a  *)
(* parameter; the answer "none" means that the process died in it.         *)
(*                                                                         *)
(* libgit2 is external.  A pack commits when the chunks appended to the    *)
(* writepack are exactly one whole pack; a reference is created only when  *)
(* its name is free and its target is in the object database; the calls    *)
(* named in Failures may also fail for reasons of their own.               *)
(***************************************************************************)
EXTENDS Naturals, Sequences

CONSTANTS Packs,         \* the packs that are uploaded; a pack also stands for its tip
          RefNames,      \* names of references
          RefOf,         \* the reference that the push of a pack creates
          MaxChunks,     \* chunks in a whole pack
          Repos,         \* the repositories that exist on disk
          StaleNames,    \* what the buffer of a destroyed repository name may hold
          Failures,      \* libgit2 calls that may fail: "open", "odb", "append", "commit", "head",
                         \* "iterator"
          EmptyName,
          NoRepo

ASSUME RefAssumption == RefOf \in [Packs -> RefNames] /\ NoRepo \notin Packs \cup RefNames

VARIABLES currentRepo,   \* the GitRepo, or NoRepo for the null pointer
          repoRefCnt,    \* opens that found the repository open; nothing reads it
          odb,           \* per repository, the packs committed to it
          refs,          \* per repository, the target of each reference, or NoRepo
          head,          \* per repository, the reference HEAD names, or NoRepo
          undefined,     \* an uninitialised pointer has been used
          crashed

repoVars == <<currentRepo, repoRefCnt>>
diskVars == <<odb, refs, head>>
vars == <<repoVars, diskVars, undefined, crashed>>

Init ==
    /\ currentRepo = NoRepo /\ repoRefCnt = 0
    /\ odb = [r \in Repos |-> {}]
    /\ refs = [r \in Repos |-> [n \in RefNames |-> NoRepo]]
    /\ head = [r \in Repos |-> NoRepo]
    /\ undefined = FALSE /\ crashed = FALSE

Pack(k) == [i \in 1..MaxChunks |-> <<k, i>>]

MayFail(call, res) == res = "error" /\ call \in Failures

Abort == crashed' = TRUE /\ UNCHANGED <<repoVars, diskVars, undefined>>

\* A call through a pointer that was never assigned, a GitRepo's after a failed Open or a
\* local one: the process dies, or the call answers anything and does nothing.
UseUninitialised(res) ==
    \/ res = "none" /\ Abort
    \/ /\ res \in {"success", "error"}
       /\ undefined' = TRUE
       /\ UNCHANGED <<repoVars, diskVars, crashed>>

---------------------------------------------------------------------------
(* The task bodies.                                                        *)

\* A new GitRepo: whether its repo pointer is set, and whether its odb and wp are.
GitRepo(name, repo, wp) ==
    [name |-> name, repo |-> repo, wp |-> wp, appended |-> <<>>, committed |-> FALSE]

\* The GitRepos there can be; the null pointer is none of them.
GitRepos ==
    [name : Repos \cup StaleNames, repo : BOOLEAN, wp : BOOLEAN,
     appended : Seq(Packs \X (1..MaxChunks)), committed : BOOLEAN]

ASSUME NullAssumption == NoRepo \notin GitRepos

\* Construct and Open: a writepack of its own, or an error that leaves wp, and perhaps
\* repo, unset.  The repository that was open before is forgotten, not closed.
OpenNew(name, res) ==
    \/ /\ res = "success" /\ name \in Repos
       /\ currentRepo' = GitRepo(name, TRUE, TRUE)
       /\ repoRefCnt' = 0
    \/ /\ res = "error" /\ (name \notin Repos \/ "open" \in Failures)
       /\ currentRepo' = GitRepo(name, FALSE, FALSE)
       /\ UNCHANGED repoRefCnt
    \/ /\ res = "error" /\ name \in Repos /\ "odb" \in Failures
       /\ currentRepo' = GitRepo(name, TRUE, FALSE)
       /\ UNCHANGED repoRefCnt

\* The name is read through a pointer into a string that RepoProxy::OpenRepo has
\* destroyed.  An empty name fails GitRepo's assertion.
OpenRepo(name, res) ==
    /\ ~crashed
    /\ \E n \in {name} \cup StaleNames :
          IF currentRepo # NoRepo /\ currentRepo.name = n
            THEN /\ res = "success"
                 /\ repoRefCnt' = repoRefCnt + 1
                 /\ UNCHANGED <<currentRepo, diskVars, undefined, crashed>>
            ELSE IF n = EmptyName
              THEN res = "none" /\ Abort
              ELSE OpenNew(n, res) /\ UNCHANGED <<diskVars, undefined, crashed>>

\* The destructor frees the writepack, through a pointer that a failed Open never set.
FreesUnset == currentRepo # NoRepo /\ ~currentRepo.wp

\* A close that counts opens down, and goes below zero.
CloseCounted(res) ==
    /\ ~crashed /\ res = "success"
    /\ currentRepo' = NoRepo /\ repoRefCnt' = repoRefCnt - 1
    /\ UNCHANGED <<diskVars, undefined, crashed>>

\* delete frees the writepack with whatever was not committed; repoRefCnt is not asked.
CloseRepo(res) ==
    /\ ~crashed
    /\ \/ res = "none" /\ FreesUnset /\ Abort
       \/ /\ res = "success"
          /\ currentRepo' = NoRepo /\ repoRefCnt' = 0
          /\ undefined' = (undefined \/ FreesUnset)
          /\ UNCHANGED <<diskVars, crashed>>

\* The writepack takes the chunk; one that was committed takes no more.
PackAppend(chunk, res) ==
    \/ /\ res = "success" /\ ~currentRepo.committed
       /\ currentRepo' = [currentRepo EXCEPT !.appended = Append(@, chunk)]
    \/ /\ res = "error" /\ (currentRepo.committed \/ "append" \in Failures)
       /\ UNCHANGED currentRepo

\* There is no test for a closed repository here: the null pointer is dereferenced.
AppendDataToPack(chunk, res) ==
    /\ ~crashed
    /\ \/ currentRepo = NoRepo /\ res = "none" /\ Abort
       \/ currentRepo # NoRepo /\ ~currentRepo.wp /\ UseUninitialised(res)
       \/ /\ currentRepo # NoRepo /\ currentRepo.wp
          /\ PackAppend(chunk, res)
          /\ UNCHANGED <<repoRefCnt, diskVars, undefined, crashed>>

\* A commit needs exactly one whole pack.  A commit of a writepack that was committed
\* before has nothing left to write.
PackCommit(res) ==
    \/ \E k \in Packs :
          /\ res = "success" /\ ~currentRepo.committed
          /\ currentRepo.appended = Pack(k)
          /\ odb' = [odb EXCEPT ![currentRepo.name] = @ \cup {k}]
          /\ currentRepo' = [currentRepo EXCEPT !.committed = TRUE]
    \/ /\ res = "error"
       /\ MayFail("commit", res) \/ \A k \in Packs : currentRepo.appended # Pack(k)
       /\ UNCHANGED <<odb, currentRepo>>
    \/ /\ res \in {"success", "error"} /\ currentRepo.committed
       /\ UNCHANGED <<odb, currentRepo>>

CommitPackChanges(res) ==
    /\ ~crashed
    /\ \/ currentRepo = NoRepo /\ res = "repo not open" /\ UNCHANGED vars
       \/ currentRepo # NoRepo /\ ~currentRepo.wp /\ UseUninitialised(res)
       \/ /\ currentRepo # NoRepo /\ currentRepo.wp
          /\ PackCommit(res)
          /\ UNCHANGED <<repoRefCnt, refs, head, undefined, crashed>>

\* HEAD is moved before the reference is created.
CreateAfterSetHead(k, res) ==
    LET r == currentRepo.name
        n == RefOf[k]
        creatable == refs[r][n] = NoRepo /\ k \in odb[r]
    IN  /\ res = IF creatable THEN "success" ELSE "error"
        /\ head' = [head EXCEPT ![r] = n]
        /\ refs' = IF creatable THEN [refs EXCEPT ![r][n] = k] ELSE refs
        /\ UNCHANGED odb

\* git_reference_create without force, then git_repository_set_head.  When the second
\* fails the reference stays.
CreateReference(k, res) ==
    LET r == currentRepo.name
        n == RefOf[k]
        creatable == refs[r][n] = NoRepo /\ k \in odb[r]
    IN  \/ /\ ~creatable /\ res = "error"
           /\ UNCHANGED diskVars
        \/ /\ creatable /\ MayFail("head", res)
           /\ refs' = [refs EXCEPT ![r][n] = k]
           /\ UNCHANGED <<odb, head>>
        \/ /\ creatable /\ res = "success"
           /\ refs' = [refs EXCEPT ![r][n] = k]
           /\ head' = [head EXCEPT ![r] = n]
           /\ UNCHANGED odb

NewReference(k, res) ==
    /\ ~crashed
    /\ \/ currentRepo = NoRepo /\ res = "nope" /\ UNCHANGED vars
       \/ currentRepo # NoRepo /\ ~currentRepo.repo /\ UseUninitialised(res)
       \/ /\ currentRepo # NoRepo /\ currentRepo.repo
          /\ CreateReference(k, res)
          /\ UNCHANGED <<repoVars, undefined, crashed>>

\* The list of references.  Each one's id is read into memory that was never allocated,
\* so the list of a repository that has a reference is never safe.  An error of
\* git_reference_next is taken for one more reference.
GetRepoReferences(res) ==
    LET listed == \E n \in RefNames : refs[currentRepo.name][n] # NoRepo
    IN  \/ MayFail("iterator", res) /\ UNCHANGED vars
        \/ ~listed /\ res = "success" /\ UNCHANGED vars
        \/ (listed \/ "iterator" \in Failures) /\ UseUninitialised(res)

GetRepoRefs(res) ==
    /\ ~crashed
    /\ \/ currentRepo = NoRepo /\ res = "no repo open" /\ UNCHANGED vars
       \/ currentRepo # NoRepo /\ ~currentRepo.repo /\ UseUninitialised(res)
       \/ currentRepo # NoRepo /\ currentRepo.repo /\ GetRepoReferences(res)

---------------------------------------------------------------------------
(* The manager alone: the tasks in any order, whoever posts them.          *)

Answers == {"success", "error", "repo not open", "nope", "no repo open", "none"}

Next ==
    \E res \in Answers :
        \/ \E name \in Repos : OpenRepo(name, res)
        \/ CloseRepo(res)
        \/ \E k \in Packs, i \in 1..MaxChunks : AppendDataToPack(<<k, i>>, res)
        \/ CommitPackChanges(res)
        \/ \E k \in Packs : NewReference(k, res)
        \/ GetRepoRefs(res)

Spec == Init /\ [][Next]_vars

\* Every variable keeps its type.
TypeOK ==
    /\ currentRepo \in {NoRepo} \cup GitRepos
    /\ repoRefCnt \in Nat
    /\ odb \in [Repos -> SUBSET Packs]
    /\ refs \in [Repos -> [RefNames -> Packs \cup {NoRepo}]]
    /\ head \in [Repos -> RefNames \cup {NoRepo}]
    /\ undefined \in BOOLEAN /\ crashed \in BOOLEAN

\* Whatever the order of opens, closes, appends, commits and failed calls, every
\* reference on disk has a committed target, and HEAD names a reference that exists.
RefIntegrity ==
    \A r \in Repos :
        /\ \A n \in RefNames : refs[r][n] # NoRepo => refs[r][n] \in odb[r]
        /\ head[r] # NoRepo => refs[r][head[r]] # NoRepo
=============================================================================

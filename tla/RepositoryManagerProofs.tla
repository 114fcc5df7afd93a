---------------------- MODULE RepositoryManagerProofs ----------------------
(***************************************************************************)
(* Proofs about the repository manager, for any packs, references,         *)
(* repositories, failures of libgit2 and contents of the dead name buffer, *)
(* and for every sequence of tasks.                                        *)
(*                                                                         *)
(* The type invariant is inductive once it also says that a GitRepo with a *)
(* repo pointer is one of a repository that exists: that is what makes     *)
(* currentRepo.name an index of odb, refs and head.                        *)
(***************************************************************************)
EXTENDS RepositoryManager, TLAPS

\* A GitRepo with a repo pointer belongs to a repository that exists, and one with a
\* writepack has a repo pointer.
OpenExists ==
    currentRepo # NoRepo =>
        /\ currentRepo.repo => currentRepo.name \in Repos
        /\ currentRepo.wp => currentRepo.repo

Typed == TypeOK /\ OpenExists

\* A failed call through an uninitialised pointer changes nothing but the two flags.
LEMMA UninitialisedKeeps ==
    ASSUME NEW res, UseUninitialised(res)
    PROVE  /\ UNCHANGED <<repoVars, diskVars>>
           /\ undefined' \in {TRUE, undefined} /\ crashed' \in {TRUE, crashed}
BY DEF UseUninitialised, Abort

\* OpenRepo keeps the types, whichever name it reads.
LEMMA OpenTyped ==
    ASSUME NEW name \in Repos, NEW res, Typed, OpenRepo(name, res)
    PROVE  Typed'
<1> USE DEF Typed, TypeOK, GitRepos, OpenExists, repoVars, diskVars
<1>1. PICK n \in {name} \cup StaleNames :
          IF currentRepo # NoRepo /\ currentRepo.name = n
            THEN /\ res = "success"
                 /\ repoRefCnt' = repoRefCnt + 1
                 /\ UNCHANGED <<currentRepo, diskVars, undefined, crashed>>
            ELSE IF n = EmptyName
              THEN res = "none" /\ Abort
              ELSE OpenNew(n, res) /\ UNCHANGED <<diskVars, undefined, crashed>>
    BY DEF OpenRepo
<1>2. CASE currentRepo # NoRepo /\ currentRepo.name = n
    BY <1>1, <1>2
<1>3. CASE ~(currentRepo # NoRepo /\ currentRepo.name = n) /\ n = EmptyName
    BY <1>1, <1>3 DEF Abort
<1>4. CASE ~(currentRepo # NoRepo /\ currentRepo.name = n) /\ n # EmptyName
    <2>1. OpenNew(n, res) /\ UNCHANGED <<diskVars, undefined, crashed>>
        BY <1>1, <1>4
    <2>2. PICK u \in BOOLEAN, w \in BOOLEAN :
              /\ currentRepo' = GitRepo(n, u, w)
              /\ (u => n \in Repos) /\ (w => u)
              /\ repoRefCnt' \in {0, repoRefCnt}
        <3>1. CASE res = "success" BY <2>1, <3>1 DEF OpenNew
        <3>2. CASE res = "error" BY <2>1, <3>2 DEF OpenNew
        <3>3. QED BY <2>1, <3>1, <3>2 DEF OpenNew
    <2>3. currentRepo' \in GitRepos
        <3>1. <<>> \in Seq(Packs \X (1..MaxChunks))
            OBVIOUS
        <3>2. QED BY <2>2, <3>1 DEF GitRepo
    <2>4. /\ currentRepo'.repo => currentRepo'.name \in Repos
          /\ currentRepo'.wp => currentRepo'.repo
        BY <2>2 DEF GitRepo
    <2>5. QED BY <2>1, <2>2, <2>3, <2>4
<1>5. QED BY <1>2, <1>3, <1>4

\* CloseRepo keeps the types.
LEMMA CloseTyped ==
    ASSUME NEW res, Typed, CloseRepo(res)
    PROVE  Typed'
<1> USE DEF Typed, TypeOK, GitRepos, OpenExists, repoVars, diskVars
<1>1. CASE res = "none"
    BY <1>1 DEF CloseRepo, Abort
<1>2. CASE res = "success"
    BY <1>2 DEF CloseRepo
<1>3. QED BY <1>1, <1>2 DEF CloseRepo

\* AppendDataToPack keeps the types, of the chunks of the open writepack too.
LEMMA AppendTyped ==
    ASSUME NEW k \in Packs, NEW i \in 1..MaxChunks, NEW res, Typed,
           AppendDataToPack(<<k, i>>, res)
    PROVE  Typed'
<1> USE DEF Typed, TypeOK, GitRepos, OpenExists, repoVars, diskVars
<1>1. CASE currentRepo = NoRepo /\ res = "none" /\ Abort
    BY <1>1 DEF Abort
<1>2. CASE currentRepo # NoRepo /\ ~currentRepo.wp /\ UseUninitialised(res)
    BY <1>2, UninitialisedKeeps
<1>3. CASE /\ currentRepo # NoRepo /\ currentRepo.wp
           /\ currentRepo' = [currentRepo EXCEPT !.appended = Append(@, <<k, i>>)]
           /\ UNCHANGED <<repoRefCnt, diskVars, undefined, crashed>>
    <2>1. Append(currentRepo.appended, <<k, i>>) \in Seq(Packs \X (1..MaxChunks))
        <3>1. currentRepo.appended \in Seq(Packs \X (1..MaxChunks))
            BY <1>3
        <3>2. <<k, i>> \in Packs \X (1..MaxChunks)
            OBVIOUS
        <3>3. QED BY <3>1, <3>2
    <2>2. QED BY <1>3, <2>1
<1>4. CASE UNCHANGED <<repoVars, diskVars, undefined, crashed>>
    BY <1>4
<1>5. QED BY <1>1, <1>2, <1>3, <1>4 DEF AppendDataToPack, PackAppend

\* CommitPackChanges keeps the types, and adds only packs to the object database.
LEMMA CommitTyped ==
    ASSUME NEW res, Typed, CommitPackChanges(res)
    PROVE  Typed'
<1> USE DEF Typed, TypeOK, GitRepos, OpenExists, repoVars, diskVars
<1>1. CASE currentRepo # NoRepo /\ ~currentRepo.wp /\ UseUninitialised(res)
    BY <1>1, UninitialisedKeeps
<1>2. ASSUME NEW k \in Packs, currentRepo # NoRepo, currentRepo.wp,
             odb' = [odb EXCEPT ![currentRepo.name] = @ \cup {k}],
             currentRepo' = [currentRepo EXCEPT !.committed = TRUE],
             UNCHANGED <<repoRefCnt, refs, head, undefined, crashed>>
      PROVE  Typed'
    BY <1>2
<1>3. CASE UNCHANGED <<repoVars, diskVars, undefined, crashed>>
    BY <1>3
<1>4. QED BY <1>1, <1>2, <1>3 DEF CommitPackChanges, PackCommit, vars

\* NewReference keeps the types of the references and of HEAD.
LEMMA ReferenceTyped ==
    ASSUME NEW k \in Packs, NEW res, Typed, NewReference(k, res)
    PROVE  Typed'
<1> USE DEF Typed, TypeOK, GitRepos, OpenExists, repoVars, diskVars
<1>1. CASE currentRepo # NoRepo /\ ~currentRepo.repo /\ UseUninitialised(res)
    BY <1>1, UninitialisedKeeps
<1>2. CASE /\ currentRepo # NoRepo /\ currentRepo.repo
           /\ CreateReference(k, res)
           /\ UNCHANGED <<repoVars, undefined, crashed>>
    <2>1. currentRepo.name \in Repos /\ RefOf[k] \in RefNames
        BY <1>2, RefAssumption
    <2>2. /\ refs' \in {refs, [refs EXCEPT ![currentRepo.name][RefOf[k]] = k]}
          /\ head' \in {head, [head EXCEPT ![currentRepo.name] = RefOf[k]]}
          /\ odb' = odb
        BY <1>2 DEF CreateReference
    <2>3. refs' \in [Repos -> [RefNames -> Packs \cup {NoRepo}]]
        BY <2>1, <2>2
    <2>4. head' \in [Repos -> RefNames \cup {NoRepo}]
        BY <2>1, <2>2
    <2>5. QED BY <1>2, <2>2, <2>3, <2>4
<1>3. CASE UNCHANGED vars
    BY <1>3 DEF vars
<1>4. QED BY <1>1, <1>2, <1>3 DEF NewReference

\* GetRepoRefs changes at most the two flags.
LEMMA ListKeeps ==
    ASSUME NEW res, GetRepoRefs(res)
    PROVE  /\ UNCHANGED <<repoVars, diskVars>>
           /\ undefined' \in {TRUE, undefined} /\ crashed' \in {TRUE, crashed}
<1>1. UseUninitialised(res) \/ UNCHANGED vars
    BY DEF GetRepoRefs, GetRepoReferences
<1>2. QED BY <1>1, UninitialisedKeeps DEF vars

\* So it keeps the types.
LEMMA ListTyped ==
    ASSUME NEW res, Typed, GetRepoRefs(res)
    PROVE  Typed'
BY ListKeeps DEF repoVars, diskVars, Typed, TypeOK, OpenExists

\* The inductive invariant: types, and an opened GitRepo is of an existing repository.
THEOREM TypedHolds == Spec => []Typed
<1>1. Init => Typed
    <2> SUFFICES ASSUME Init PROVE Typed
        OBVIOUS
    <2>1. currentRepo = NoRepo /\ repoRefCnt = 0 /\ ~undefined /\ ~crashed
        BY DEF Init
    <2>2. odb \in [Repos -> SUBSET Packs]
        BY DEF Init
    <2>3. refs \in [Repos -> [RefNames -> Packs \cup {NoRepo}]]
        BY DEF Init
    <2>4. head \in [Repos -> RefNames \cup {NoRepo}]
        BY DEF Init
    <2>5. undefined \in BOOLEAN /\ crashed \in BOOLEAN
        BY DEF Init
    <2>6. QED BY <2>1, <2>2, <2>3, <2>4, <2>5 DEF Typed, TypeOK, OpenExists
<1>2. Typed /\ [Next]_vars => Typed'
    <2> SUFFICES ASSUME Typed, [Next]_vars PROVE Typed'
        OBVIOUS
    <2>1. CASE UNCHANGED vars
        BY <2>1 DEF vars, repoVars, diskVars, Typed, TypeOK, OpenExists
    <2>2. CASE Next
        BY <2>2, OpenTyped, CloseTyped, AppendTyped, CommitTyped, ReferenceTyped, ListTyped DEF Next
    <2>3. QED BY <2>1, <2>2
<1>3. QED BY <1>1, <1>2, PTL DEF Spec

\* Type correctness of the repository manager, for every sequence of tasks.
THEOREM TypeCorrect == Spec => []TypeOK
BY TypedHolds, PTL DEF Typed

---------------------------------------------------------------------------
(* References.                                                             *)

\* A task other than a commit or a new reference leaves the disk alone.
LEMMA DiskUntouched ==
    ASSUME NEW res,
           \/ \E name \in Repos : OpenRepo(name, res)
           \/ CloseRepo(res)
           \/ \E k \in Packs, i \in 1..MaxChunks : AppendDataToPack(<<k, i>>, res)
    PROVE  UNCHANGED diskVars
<1>1. ASSUME NEW name \in Repos, OpenRepo(name, res) PROVE UNCHANGED diskVars
    BY <1>1 DEF OpenRepo, Abort
<1>2. CASE CloseRepo(res)
    BY <1>2 DEF CloseRepo, Abort
<1>3. ASSUME NEW k \in Packs, NEW i \in 1..MaxChunks, AppendDataToPack(<<k, i>>, res)
      PROVE  UNCHANGED diskVars
    BY <1>3, UninitialisedKeeps DEF AppendDataToPack, Abort
<1>4. QED BY <1>1, <1>2, <1>3

\* A commit only adds packs.
LEMMA CommitGrows ==
    ASSUME NEW res, Typed, RefIntegrity, CommitPackChanges(res)
    PROVE  RefIntegrity'
<1>1. UNCHANGED <<refs, head>>
    BY UninitialisedKeeps DEF CommitPackChanges, vars, diskVars
<1>2. \A r \in Repos : odb[r] \subseteq odb'[r]
    <2>1. CASE odb' = odb
        BY <2>1
    <2>2. ASSUME NEW k \in Packs, odb' = [odb EXCEPT ![currentRepo.name] = @ \cup {k}]
          PROVE  \A r \in Repos : odb[r] \subseteq odb'[r]
        BY <2>2 DEF Typed, TypeOK
    <2>3. QED BY <2>1, <2>2, UninitialisedKeeps DEF CommitPackChanges, PackCommit, vars, diskVars
<1>3. QED BY <1>1, <1>2 DEF RefIntegrity

\* A new reference has a committed target, and HEAD follows it.
LEMMA ReferenceSound ==
    ASSUME NEW k \in Packs, NEW res, Typed, RefIntegrity, NewReference(k, res)
    PROVE  RefIntegrity'
<1>1. CASE UNCHANGED diskVars
    BY <1>1 DEF diskVars, RefIntegrity
<1>2. CASE currentRepo # NoRepo /\ currentRepo.repo /\ CreateReference(k, res)
    <2> DEFINE r == currentRepo.name
               n == RefOf[k]
    <2>1. /\ r \in Repos /\ n \in RefNames /\ k # NoRepo
          /\ refs \in [Repos -> [RefNames -> Packs \cup {NoRepo}]]
          /\ head \in [Repos -> RefNames \cup {NoRepo}]
        BY <1>2, RefAssumption DEF Typed, TypeOK, OpenExists
    <2>2. CASE UNCHANGED diskVars
        BY <1>1, <2>2
    <2>3. CASE /\ k \in odb[r]
               /\ refs' = [refs EXCEPT ![r][n] = k]
               /\ head' \in {head, [head EXCEPT ![r] = n]}
               /\ odb' = odb
        <3>1. ASSUME NEW s \in Repos, NEW m \in RefNames
              PROVE  refs'[s][m] = IF s = r /\ m = n THEN k ELSE refs[s][m]
            BY <2>1, <2>3
        <3>2. ASSUME NEW s \in Repos
              PROVE  head'[s] \in {head[s], IF s = r THEN n ELSE head[s]}
            BY <2>1, <2>3
        <3>3. ASSUME NEW s \in Repos, NEW m \in RefNames, refs'[s][m] # NoRepo
              PROVE  refs'[s][m] \in odb'[s]
            BY <2>3, <3>1, <3>3 DEF RefIntegrity
        <3>4. ASSUME NEW s \in Repos, head'[s] # NoRepo
              PROVE  refs'[s][head'[s]] # NoRepo
            <4>1. head'[s] \in RefNames
                BY <2>1, <3>2, <3>4
            <4>2. CASE head'[s] = head[s]
                BY <2>1, <3>1, <3>4, <4>1, <4>2 DEF RefIntegrity
            <4>3. CASE s = r /\ head'[s] = n
                BY <2>1, <3>1, <4>1, <4>3
            <4>4. QED BY <3>2, <4>2, <4>3
        <3>5. QED BY <3>3, <3>4 DEF RefIntegrity
    <2>4. QED BY <1>2, <2>2, <2>3 DEF CreateReference, diskVars
<1>3. QED BY <1>1, <1>2, UninitialisedKeeps DEF NewReference, vars

\* Every reference on disk has a committed target and HEAD names an existing
\* reference, for every sequence of tasks.
THEOREM ReferencesHaveTargets == Spec => []RefIntegrity
<1>1. Init => RefIntegrity
    BY DEF Init, RefIntegrity
<1>2. Typed /\ RefIntegrity /\ [Next]_vars => RefIntegrity'
    <2> SUFFICES ASSUME Typed, RefIntegrity, [Next]_vars PROVE RefIntegrity'
        OBVIOUS
    <2>1. CASE UNCHANGED diskVars
        BY <2>1 DEF diskVars, RefIntegrity
    <2>2. CASE Next
        BY <2>1, <2>2, DiskUntouched, CommitGrows, ReferenceSound, ListKeeps DEF Next
    <2>3. QED BY <2>1, <2>2 DEF vars
<1>3. QED BY <1>1, <1>2, TypedHolds, PTL DEF Spec

---------------------------------------------------------------------------
(* What is on disk stays there, and what a task's answer tells.            *)

\* Committed packs stay committed, and a reference that exists keeps its target.
NothingLost ==
    \A r \in Repos :
        /\ odb[r] \subseteq odb'[r]
        /\ \A n \in RefNames : refs[r][n] # NoRepo => refs'[r][n] = refs[r][n]

\* The reference of k is on disk, and so is the pack it names.
OnDisk(k) == \E r \in Repos : k \in odb[r] /\ refs[r][RefOf[k]] = k

\* What a new reference does to the references, and to the object database.
LEMMA ReferenceEffect ==
    ASSUME Typed, NEW k \in Packs, NEW res, NewReference(k, res)
    PROVE  /\ odb' = odb
           /\ \/ refs' = refs
              \/ /\ currentRepo # NoRepo /\ currentRepo.name \in Repos
                 /\ refs[currentRepo.name][RefOf[k]] = NoRepo /\ k \in odb[currentRepo.name]
                 /\ refs' = [refs EXCEPT ![currentRepo.name][RefOf[k]] = k]
           /\ res = "success" => undefined' \/ OnDisk(k)'
<1>1. CASE currentRepo = NoRepo /\ res = "nope" /\ UNCHANGED vars
    BY <1>1 DEF vars, diskVars
<1>2. CASE currentRepo # NoRepo /\ ~currentRepo.repo /\ UseUninitialised(res)
    BY <1>2 DEF UseUninitialised, Abort, diskVars
<1>3. CASE currentRepo # NoRepo /\ currentRepo.repo /\ CreateReference(k, res)
  <2> DEFINE r == currentRepo.name
             n == RefOf[k]
  <2>1. /\ r \in Repos /\ n \in RefNames /\ k # NoRepo
        /\ refs \in [Repos -> [RefNames -> Packs \cup {NoRepo}]]
    BY <1>3, RefAssumption DEF Typed, TypeOK, OpenExists
  <2>2. CASE res = "error" /\ UNCHANGED diskVars
    BY <2>2 DEF diskVars
  <2>3. CASE /\ refs[r][n] = NoRepo /\ k \in odb[r]
             /\ refs' = [refs EXCEPT ![r][n] = k] /\ odb' = odb
    <3>1. refs'[r][n] = k
      BY <2>1, <2>3
    <3>2. OnDisk(k)'
      BY <2>1, <2>3, <3>1 DEF OnDisk
    <3>3. QED BY <1>3, <2>1, <2>3, <3>2
  <2>4. QED BY <1>3, <2>2, <2>3 DEF CreateReference
<1>4. QED BY <1>1, <1>2, <1>3 DEF NewReference

\* No task takes anything from the disk.
LEMMA StepKeepsDisk == Typed /\ [Next]_vars => NothingLost
<1> SUFFICES ASSUME Typed, [Next]_vars PROVE NothingLost
    OBVIOUS
<1>1. ASSUME UNCHANGED diskVars PROVE NothingLost
    BY <1>1 DEF diskVars, NothingLost
<1>2. ASSUME NEW res, CommitPackChanges(res) PROVE NothingLost
  <2>1. UNCHANGED refs
    BY <1>2, UninitialisedKeeps DEF CommitPackChanges, vars, diskVars
  <2>2. CASE odb' = odb
    BY <2>1, <2>2 DEF NothingLost
  <2>3. ASSUME NEW k \in Packs, odb' = [odb EXCEPT ![currentRepo.name] = @ \cup {k}]
        PROVE  NothingLost
    BY <2>1, <2>3 DEF Typed, TypeOK, NothingLost
  <2>4. QED
    BY <1>2, <2>2, <2>3, UninitialisedKeeps DEF CommitPackChanges, PackCommit, vars, diskVars
<1>3. ASSUME NEW res, NEW k \in Packs, NewReference(k, res) PROVE NothingLost
  <2>1. CASE UNCHANGED <<odb, refs>>
    BY <2>1 DEF NothingLost
  <2>2. CASE /\ odb' = odb
             /\ refs[currentRepo.name][RefOf[k]] = NoRepo
             /\ refs' = [refs EXCEPT ![currentRepo.name][RefOf[k]] = k]
    <3>1. refs \in [Repos -> [RefNames -> Packs \cup {NoRepo}]]
      BY DEF Typed, TypeOK
    <3>2. ASSUME NEW r \in Repos, NEW n \in RefNames, refs[r][n] # NoRepo
          PROVE  refs'[r][n] = refs[r][n]
      BY <2>2, <3>1, <3>2
    <3>3. QED BY <2>2, <3>2 DEF NothingLost
  <2>3. QED BY <1>3, <2>1, <2>2, ReferenceEffect
<1>4. QED BY <1>1, <1>2, <1>3, DiskUntouched, ListKeeps DEF Next, vars

\* PackCommit and CreateReference only ever add: no task removes a pack from an object
\* database, or redirects a reference that another push created.  (That a call through an
\* unset pointer does neither is how UseUninitialised models it, not a result.)
THEOREM DiskOnlyGrows == Spec => [][NothingLost]_vars
BY StepKeepsDisk, TypedHolds, PTL DEF Spec

---------------------------------------------------------------------------
(* Facts for the module that composes the manager with the handlers.       *)

\* A push's reference is on disk when its task answers "success", unless an uninitialised
\* pointer has answered in its place.
LEMMA SuccessTells ==
    Typed => \A k \in Packs : NewReference(k, "success") => undefined' \/ OnDisk(k)'
BY ReferenceEffect

\* The use of an uninitialised pointer is not forgotten.
LEMMA UndefinedStays == Typed /\ [Next]_vars => (undefined => undefined')
<1> SUFFICES ASSUME [Next]_vars, undefined PROVE undefined'
    OBVIOUS
<1>1. ASSUME UNCHANGED undefined \/ undefined' = TRUE PROVE undefined'
    BY <1>1
<1>2. ASSUME NEW res PROVE UseUninitialised(res) => undefined'
    BY DEF UseUninitialised, Abort
<1>3. ASSUME NEW res, NEW name, OpenRepo(name, res) PROVE undefined'
    BY <1>3 DEF OpenRepo, Abort
<1>4. ASSUME NEW res, CloseRepo(res) PROVE undefined'
    BY <1>4 DEF CloseRepo, Abort
<1>5. ASSUME NEW res, NEW chunk, AppendDataToPack(chunk, res) PROVE undefined'
    BY <1>2, <1>5 DEF AppendDataToPack, Abort
<1>6. ASSUME NEW res, CommitPackChanges(res) PROVE undefined'
    BY <1>2, <1>6 DEF CommitPackChanges, vars
<1>7. ASSUME NEW res, NEW k, NewReference(k, res) PROVE undefined'
    BY <1>2, <1>7 DEF NewReference, vars
<1>8. ASSUME NEW res, GetRepoRefs(res) PROVE undefined'
    BY <1>2, <1>8 DEF GetRepoRefs, GetRepoReferences, vars
<1>9. QED BY <1>3, <1>4, <1>5, <1>6, <1>7, <1>8 DEF Next, vars

\* An open that answers has a GitRepo to show for it, even when it failed.
LEMMA OpenLeavesARepo ==
    Typed => \A name \in Repos, res \in Answers :
                 OpenRepo(name, res) /\ res # "none" => currentRepo' # NoRepo
<1> SUFFICES ASSUME Typed, NEW name \in Repos, NEW res \in Answers,
                    OpenRepo(name, res), res # "none"
             PROVE  currentRepo' # NoRepo
    OBVIOUS
<1>1. PICK n \in Repos \cup StaleNames :
          \/ currentRepo # NoRepo /\ currentRepo' = currentRepo
          \/ OpenNew(n, res)
    BY DEF OpenRepo
<1>2. \A u, w \in BOOLEAN : GitRepo(n, u, w) \in GitRepos
  <2>1. <<>> \in Seq(Packs \X (1..MaxChunks))
    OBVIOUS
  <2>2. QED BY <1>1, <2>1 DEF GitRepo, GitRepos
<1>3. QED BY <1>1, <1>2, NullAssumption DEF OpenNew

\* Only a close gives the repository up.
LEMMA OnlyCloseForgets ==
    Typed /\ currentRepo # NoRepo =>
        /\ \A name \in Repos, res \in Answers : OpenRepo(name, res) => currentRepo' # NoRepo
        /\ \A k \in Packs, i \in 1..MaxChunks, res \in Answers :
              AppendDataToPack(<<k, i>>, res) => currentRepo' # NoRepo
        /\ \A res \in Answers : CommitPackChanges(res) => currentRepo' # NoRepo
        /\ \A k \in Packs, res \in Answers : NewReference(k, res) => currentRepo' # NoRepo
<1> SUFFICES ASSUME Typed, currentRepo # NoRepo, NEW res \in Answers
             PROVE  /\ \A name \in Repos : OpenRepo(name, res) => currentRepo' # NoRepo
                    /\ \A k \in Packs, i \in 1..MaxChunks :
                          AppendDataToPack(<<k, i>>, res) => currentRepo' # NoRepo
                    /\ CommitPackChanges(res) => currentRepo' # NoRepo
                    /\ \A k \in Packs : NewReference(k, res) => currentRepo' # NoRepo
    OBVIOUS
<1>1. ASSUME NEW name \in Repos, OpenRepo(name, res) PROVE currentRepo' # NoRepo
  <2>1. CASE res = "none"
    BY <1>1, <2>1 DEF OpenRepo, OpenNew, Abort, repoVars
  <2>2. QED BY <1>1, <2>1, OpenLeavesARepo
<1>2. currentRepo \in GitRepos
    BY DEF Typed, TypeOK
<1>3. ASSUME NEW res2, UseUninitialised(res2) PROVE currentRepo' = currentRepo
    BY <1>3, UninitialisedKeeps DEF repoVars
<1>4. ASSUME NEW k \in Packs, NEW i \in 1..MaxChunks, AppendDataToPack(<<k, i>>, res)
      PROVE  currentRepo' # NoRepo
  <2>1. CASE currentRepo' = [currentRepo EXCEPT !.appended = Append(@, <<k, i>>)]
    <3>1. currentRepo.appended \in Seq(Packs \X (1..MaxChunks))
        BY <1>2 DEF GitRepos
    <3>2. Append(currentRepo.appended, <<k, i>>) \in Seq(Packs \X (1..MaxChunks))
        BY <3>1
    <3>3. currentRepo' \in GitRepos
        BY <1>2, <2>1, <3>2 DEF GitRepos
    <3>4. QED BY <3>3, NullAssumption
  <2>2. QED BY <1>3, <1>4, <2>1 DEF AppendDataToPack, PackAppend
<1>5. ASSUME CommitPackChanges(res) PROVE currentRepo' # NoRepo
  <2>1. CASE currentRepo' = [currentRepo EXCEPT !.committed = TRUE]
    <3>1. currentRepo' \in GitRepos
        BY <1>2, <2>1 DEF GitRepos
    <3>2. QED BY <3>1, NullAssumption
  <2>2. QED BY <1>3, <1>5, <2>1 DEF CommitPackChanges, PackCommit
<1>6. ASSUME NEW k \in Packs, NewReference(k, res) PROVE currentRepo' # NoRepo
    BY <1>3, <1>6 DEF NewReference, repoVars
<1>7. QED BY <1>1, <1>4, <1>5, <1>6

\* Opens find the repository they were asked for, and libgit2 opens it.
Reliable == StaleNames = {} /\ "open" \notin Failures /\ "odb" \notin Failures /\ EmptyName \notin Repos

\* The open GitRepo has its pointers.
Healthy == currentRepo # NoRepo => currentRepo.repo /\ currentRepo.wp

\* When opens do not fail, only an append without a repository ends the process.
LEMMA HealthyStays ==
    Reliable /\ Typed /\ Healthy =>
        /\ \A name \in Repos, res \in Answers :
              OpenRepo(name, res) => Healthy' /\ UNCHANGED crashed
        /\ \A res \in Answers : CloseRepo(res) => Healthy' /\ UNCHANGED crashed
        /\ \A k \in Packs, i \in 1..MaxChunks, res \in Answers :
              AppendDataToPack(<<k, i>>, res) =>
                  Healthy' /\ (currentRepo # NoRepo => UNCHANGED crashed)
        /\ \A res \in Answers : CommitPackChanges(res) => Healthy' /\ UNCHANGED crashed
        /\ \A k \in Packs, res \in Answers :
              NewReference(k, res) => Healthy' /\ UNCHANGED crashed
<1> SUFFICES ASSUME Reliable, Typed, Healthy, NEW res \in Answers
             PROVE  /\ \A name \in Repos : OpenRepo(name, res) => Healthy' /\ UNCHANGED crashed
                    /\ CloseRepo(res) => Healthy' /\ UNCHANGED crashed
                    /\ \A k \in Packs, i \in 1..MaxChunks :
                          AppendDataToPack(<<k, i>>, res) =>
                              Healthy' /\ (currentRepo # NoRepo => UNCHANGED crashed)
                    /\ CommitPackChanges(res) => Healthy' /\ UNCHANGED crashed
                    /\ \A k \in Packs : NewReference(k, res) => Healthy' /\ UNCHANGED crashed
    OBVIOUS
<1>1. currentRepo # NoRepo =>
          /\ currentRepo.repo = TRUE /\ currentRepo.wp = TRUE
          /\ DOMAIN currentRepo = {"name", "repo", "wp", "appended", "committed"}
    BY DEF Typed, TypeOK, GitRepos, Healthy
<1>2. ASSUME NEW name \in Repos, OpenRepo(name, res) PROVE Healthy' /\ UNCHANGED crashed
  <2>1. \/ UNCHANGED <<currentRepo, crashed>>
        \/ currentRepo' = GitRepo(name, TRUE, TRUE) /\ UNCHANGED crashed
    BY <1>2 DEF OpenRepo, OpenNew, Reliable
  <2>2. GitRepo(name, TRUE, TRUE).repo /\ GitRepo(name, TRUE, TRUE).wp
    BY DEF GitRepo
  <2>3. QED BY <2>1, <2>2 DEF Healthy
<1>3. ASSUME CloseRepo(res) PROVE Healthy' /\ UNCHANGED crashed
    BY <1>1, <1>3 DEF CloseRepo, FreesUnset, Healthy
<1>4. ASSUME NEW k \in Packs, NEW i \in 1..MaxChunks, AppendDataToPack(<<k, i>>, res)
      PROVE  Healthy' /\ (currentRepo # NoRepo => UNCHANGED crashed)
  <2>1. CASE currentRepo = NoRepo
    BY <1>4, <2>1 DEF AppendDataToPack, Abort, repoVars, Healthy
  <2>2. CASE currentRepo # NoRepo
    <3>1. PackAppend(<<k, i>>, res) /\ UNCHANGED crashed
        BY <1>1, <1>4, <2>2 DEF AppendDataToPack
    <3>2. currentRepo'.repo = TRUE /\ currentRepo'.wp = TRUE
        BY <1>1, <2>2, <3>1 DEF PackAppend
    <3>3. QED BY <3>1, <3>2 DEF Healthy
  <2>3. QED BY <2>1, <2>2
<1>5. ASSUME CommitPackChanges(res) PROVE Healthy' /\ UNCHANGED crashed
  <2>1. CASE UNCHANGED vars
    BY <2>1 DEF vars, repoVars, Healthy
  <2>2. CASE currentRepo # NoRepo /\ PackCommit(res) /\ UNCHANGED crashed
    <3>1. currentRepo'.repo = TRUE /\ currentRepo'.wp = TRUE
        BY <1>1, <2>2 DEF PackCommit
    <3>2. QED BY <2>2, <3>1 DEF Healthy
  <2>3. QED BY <1>1, <1>5, <2>1, <2>2 DEF CommitPackChanges
<1>6. ASSUME NEW k \in Packs, NewReference(k, res) PROVE Healthy' /\ UNCHANGED crashed
    BY <1>1, <1>6 DEF NewReference, vars, repoVars, Healthy
<1>7. QED BY <1>2, <1>3, <1>4, <1>5, <1>6

=============================================================================

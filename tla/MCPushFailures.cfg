\* Two pushes; every libgit2 call may fail, a frontend may disappear, and the
\* repository name may be read from a buffer that was reused.
SPECIFICATION Spec
CONSTANTS
    Pushes = {a, b}
    Fetches = {}
    MaxChunks = 2
    Mortal = {a}
    NoPush = NoPush
    main = main
    RefNames = {main}
    RefOf <- MCRefOf
    Repos = {server}
    RepoName = server
    StaleNames = {garbage, EmptyName}
    Failures = {"open", "odb", "append", "commit", "head"}
    EmptyName = EmptyName
    NoRepo = NoRepo
    Nobody = Nobody
    NoAnswer = NoAnswer
INVARIANTS OkImpliesDurable OnlyAForeignCloseKills
CHECK_DEADLOCK FALSE

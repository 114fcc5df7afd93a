\* One push between two ref advertisements; appends, commits and references may fail.
\* StaleNames is empty: every open reads the name it was given, which the code does not
\* guarantee (the buffer of the name is gone by then) and this question presupposes.
SPECIFICATION Spec
CONSTANTS
    Pushes = {a}
    Fetches = {f, g}
    MaxChunks = 3
    Mortal = {}
    NoPush = NoPush
    main = main
    RefNames = {main}
    RefOf <- MCRefOf
    Repos = {server}
    RepoName = server
    StaleNames = {}
    Failures = {"append", "commit", "head"}
    EmptyName = EmptyName
    NoRepo = NoRepo
    Nobody = Nobody
    NoAnswer = NoAnswer
INVARIANTS NoCrashDuringUpload
CHECK_DEADLOCK FALSE

\* Two pushes to the same reference, interleaved in every way; libgit2 does not fail.
SPECIFICATION FairSpec
CONSTANTS
    Pushes = {a, b}
    Fetches = {}
    MaxChunks = 2
    Mortal = {}
    NoPush = NoPush
    main = main
    RefNames = {main}
    RefOf <- MCRefOf
    Repos = {server}
    RepoName = server
    StaleNames = {}
    Failures = {}
    EmptyName = EmptyName
    NoRepo = NoRepo
    Nobody = Nobody
    NoAnswer = NoAnswer
INVARIANTS TypeOK AnswersMatchWaits
PROPERTIES EveryRequestEnds
CHECK_DEADLOCK FALSE

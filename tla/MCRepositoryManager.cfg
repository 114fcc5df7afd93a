\* Three packs of two chunks, two of them for the same reference; every libgit2 call
\* may fail, and the dead name buffer may read as another name or as empty.
SPECIFICATION MCSpec
CONSTANTS
    k1 = k1
    k2 = k2
    k3 = k3
    main = main
    topic = topic
    Packs = {k1, k2, k3}
    RefNames = {main, topic}
    RefOf <- MCRefOf
    MaxChunks = 2
    Repos = {server}
    StaleNames = {garbage, EmptyName}
    Failures = {"open", "odb", "append", "commit", "head", "iterator"}
    EmptyName = EmptyName
    NoRepo = NoRepo
INVARIANTS TypeOK RefIntegrity
CHECK_DEADLOCK FALSE

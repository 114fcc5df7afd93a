SPECIFICATION Spec
CONSTANTS
    main = main
    rMain = rMain
    thread = thread
    worker = worker
    event = event
    other = other
    onMain = onMain
    onThread = onThread
    direct = direct
    None = None
    MainThread = main
    Runners = {rMain}
    Main = rMain
    Threads = {thread}
    Workers = {worker}
    Events = {event, other}
    Handlers = {onMain, onThread, direct}
    EventOf <- MCEventOf
    Owner <- MCOwner
    AsTask <- MCAsTask
    Callers <- MCCallers
    MaxTriggers = 2
    MaxRemovals = 1
INVARIANTS TypeOK DeliveredOnce ThreadIdentity
PROPERTY PostsEnd
CHECK_DEADLOCK FALSE

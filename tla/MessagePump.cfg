\* Three handlers, and a pipe smaller than the number of posts, so that it fills up.
SPECIFICATION FairSpec
CONSTANTS
    Posters = {p1, p2, p3}
    Tasks = {init, close, a, b}
    InitTask = init
    NoArgTasks = {init, close}
    Priorities = {1, 2, 3}
    PipeCapacity = 2
    NoTask = NoTask
INVARIANTS TypeOK NoPosterBlocks NoLostWakeup EveryWakeHasAByte FullPipeIsSafe
PROPERTIES EveryPostedTaskRuns ImplementsTaskQueue
CHECK_DEADLOCK FALSE

\* Two uploads of up to three chunks; either frontend may disappear.
SPECIFICATION FairSpec
CONSTANTS
    Pushes = {s1, s2}
    MaxChunks = 3
    Mortal = {s1, s2}
    NoPush = NoPush
INVARIANTS TypeOK OneOperationAtATime NoStrayMessage AppendedInOrder AckAheadByOne
    CommitCoversAll UnpackOkAfterAppends StuckOnlyByLoss
PROPERTIES EveryUploadIsServed
CHECK_DEADLOCK FALSE

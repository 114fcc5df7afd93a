\* Four calls, two of them closes; two frontends may disappear.
SPECIFICATION FairSpec
CONSTANTS
    Calls = {open1, close1, open2, close2}
    Awaited = {open1, open2}
    Mortal = {open1, close1, open2}
    NoCall = NoCall
INVARIANTS TypeOK OneRequestArmed NoEventForTheDead LeakOnlyOfTheGone
PROPERTIES EveryCallAnswered
CHECK_DEADLOCK FALSE

CONSTANTS
    a = a
    b = b
    c = c
    d = d
    o = o
    Elements <- MCElements
    Origin <- o
    Links <- MCLinks
    SigIndex <- MCSigIndex
    Listened = {}
    Passive <- MCPassive
    AllocCanFail = FALSE
    BitsPerWord = 2
    MaxWords = 2
SPECIFICATION downstream_full_signal
CHECK_DEADLOCK FALSE
INVARIANT FoundExactlyReachable
INVARIANT ListenersCoverSignal

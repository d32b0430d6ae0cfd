CONSTANTS
    a = a
    b = b
    c = c
    d = d
    o = o
    Elements <- MCElements
    Origin <- o
    Links <- MCLinks
    SigIndex <- MCSigIndex
    Listened <- MCElements
    Passive <- MCPassive
    AllocCanFail = TRUE
    BitsPerWord = 2
    MaxWords = 2
SPECIFICATION Spec
CHECK_DEADLOCK FALSE
INVARIANT ListenersCoverSignal

CONSTANTS
    t1 = t1
    t2 = t2
    t3 = t3
    s1 = s1
    s2 = s2
    NULL = NULL
    Tasks <- MCTasks
    Signals <- MCSignals
SPECIFICATION Spec
INVARIANT TypeOK
INVARIANT Canonical
INVARIANT AllocationSuffices
PROPERTY AbstractSpec

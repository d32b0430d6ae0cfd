CONSTANTS
    q1 = q1
    q2 = q2
    p1 = p1
    p2 = p2
    t1 = t1
    t2 = t2
    t3 = t3
    t4 = t4
    NULL = NULL
    Queues <- MCQueues
    Pulls <- MCPulls
    Tasks <- MCTasks
    Up <- MCUp
    Src <- MCSrc
    TaskSignal <- MCTaskSignal
    Registrations <- MCRegistrations
    Threaded <- MCThreadedQ2
    Cap = 2
    AllocCanFail = FALSE
    Departing <- MCDepartSome
SPECIFICATION Spec
INVARIANTS
    TypeOK
    NoSleepWithWork
    NoDanglingListener
PROPERTIES
    PacketsEventuallyPulled

\* Three threads contend for a queue of one slot: waiting, rejection, time-outs,
\* stolen slots, groups of two and barriers all occur.
CONSTANTS
    t1 = t1
    t2 = t2
    t3 = t3
    Threads <- MCThreads
    Capacity = 1
    MaxJobs = 2
SPECIFICATION FairSpec
INVARIANTS
    QueueBounded
    NoLostWakeup
    JobInOnePlace
    ExclusiveAlone
    NoCallSeesShutdown
    StatsBalance
PROPERTIES
    ServesInOrder
    WaitersWoken
    TimedCallsReturn
    ShutdownCompletes

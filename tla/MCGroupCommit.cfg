\* Groups of up to three jobs of one or two statements, and callbacks that may
\* leave a transaction open, in every order and with a crash anywhere.
CONSTANTS
    g1 = g1
    g2 = g2
    g3 = g3
    x1 = x1
    x2 = x2
    GroupJobs <- MCGroupJobs
    ExclusiveJobs <- MCExclusiveJobs
    Size <- MCSize
    MaxJobs = 3
SPECIFICATION Spec
INVARIANTS
    AcknowledgedIsDurable
    AllOrNothing
    FailuresIsolated
PROPERTIES
    KeepsPromise

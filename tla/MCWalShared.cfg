\* The same log, checkpointed by a connection outside the pool as well.
CONSTANTS
    r1 = r1
    r2 = r2
    Readers <- MCReaders
    Policies <- MCPolicies
    MaxCommitFrames = 2
    MaxFrames = 4
SPECIFICATION SpecShared
PROPERTIES
    PressureNotForgotten

\* Two readers with overlapping snapshots, commits of up to two frames.
CONSTANTS
    r1 = r1
    r2 = r2
    Readers <- MCReaders
    Policies <- MCPolicies
    MaxCommitFrames = 2
    MaxFrames = 4
SPECIFICATION WalSpec
INVARIANTS
    AttemptWithinInterval
    PressureExplained
PROPERTIES
    PressureNotForgotten
    RetriesUnderPressure
    PressureSubsides

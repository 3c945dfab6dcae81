\* The same groups when a statement of a groupable job may be COMMIT.
CONSTANTS
    g1 = g1
    g2 = g2
    g3 = g3
    x1 = x1
    x2 = x2
    GroupJobs <- MCTwoGroupJobs
    ExclusiveJobs <- MCOneExclusiveJob
    Size <- MCSize
    MaxJobs = 3
SPECIFICATION SpecAnySql
INVARIANTS
    RefusedLeavesNothing

\* Two threads, each with a statement of its own, share one handle.
CONSTANTS
    t1 = t1
    t2 = t2
    None = None
    Threads <- MCThreads
    OpenCalls <- MCOpenCalls
    OpenErrors = {"KeyRequired", "InvalidDatabaseKey"}
    EngineErrors = {"SQLITE_BUSY", "SQLITE_INTERRUPT"}
SYMMETRY Symmetry
SPECIFICATION Spec
INVARIANTS
    ReleasedWithLastOwner
    RowViewsValid
    StateWordTrue
PROPERTIES
    FinishedNeedsReset

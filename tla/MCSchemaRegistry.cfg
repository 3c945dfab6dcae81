\* Two connections, two collections, one of them with three versions.
CONSTANTS
    c1 = c1
    c2 = c2
    None = None
    Connections <- MCConnections
    Schemas <- MCSchemas
    Fold <- MCFold
    Migrations <- MCMigrations
    MaxStatements = 2
    MaxDdl = 1
SYMMETRY Symmetry
SPECIFICATION Spec
INVARIANTS
    RegistryTrue
    OneOwner
    HistoryIsChain
    CallbacksOnce
PROPERTIES
    MovesByMigration
    SuccessIsTrue
    RetryIsQuiet

\* Two collections whose table names differ in case only.
CONSTANTS
    c1 = c1
    c2 = c2
    None = None
    Connections <- MCConnections
    Schemas <- CaseSchemas
    Fold <- MCFold
    Migrations = {}
    MaxStatements = 1
    MaxDdl = 0
SYMMETRY Symmetry
SPECIFICATION Spec
INVARIANT
    OneOwner

\* One thread opens the path with the default options and a key provider.
CONSTANTS
    o1 = o1
    o2 = o2
    k1 = k1
    k2 = k2
    k3 = k3
    None = None
    Plain = Plain
    Openers = {o1}
    Keys <- MCKeys
    InitKeys = {k1}
    Requests <- ProviderRequests
SPECIFICATION Spec
INVARIANTS
    MissingKeyReported

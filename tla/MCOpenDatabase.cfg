\* Two threads open one path, which is new or holds a database of any format.
CONSTANTS
    o1 = o1
    o2 = o2
    k1 = k1
    k2 = k2
    k3 = k3
    None = None
    Plain = Plain
    Openers <- MCOpeners
    Keys <- MCKeys
    InitKeys = {k1}
    Requests <- MCRequests
SYMMETRY Symmetry
SPECIFICATION Spec
INVARIANTS
    KeyedAsAsked
    KeyNotLost
    WrongKeyIsWrong

\* Four application threads and the writer share two read connections.
CONSTANTS
    c1 = c1
    c2 = c2
    t1 = t1
    t2 = t2
    t3 = t3
    t4 = t4
    w = w
    None = None
    Writer = w
    Connections <- MCConnections
    Threads <- MCThreads
SPECIFICATION Spec
INVARIANTS
    LeasesConserved
    NoLostReturn
    NoSelfWait
PROPERTIES
    ConnectionComesBack

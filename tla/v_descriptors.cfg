SPECIFICATION Spec
CONSTANTS
    c1 = c1
    c2 = c2
    c3 = c3
    Conns = {c1, c2, c3}
    NoConn = NoConn
    ClientConn = NoConn
    Target <- AllToData
    Services = {"data"}
    SpwThreads = {"spw"}
    FdMin = 4
    FdMax = 6
    Taken = {}
    FdSetSize = 7
    Chunks = 1
    MaxPkts = 1
    MaxIn = 1
\* TLC stops at the first; each one alone, or -continue, shows the others.
INVARIANTS
    AllServed
    NoOrphan
    HandlerOnLive

SPECIFICATION FairSpec
CONSTANTS
    c1 = c1
    c2 = c2
    c3 = c3
    Conns = {c1, c2, c3}
    NoConn = NoConn
    ClientConn = c1
    Target <- OneToData
    Services = {"data", "rmap"}
    SpwThreads = {"spw"}
    FdMin = 4
    FdMax = 7
    Taken = {6}
    FdSetSize = 8
    Chunks = 1
    MaxPkts = 1
    MaxIn = 0
INVARIANT OnlyLinkLossExits
PROPERTIES LinkLossTerminates LockReleased EofNoticed

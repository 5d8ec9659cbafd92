SPECIFICATION Spec
CONSTANTS
    c1 = c1
    c2 = c2
    c3 = c3
    Conns = {c1, c2, c3}
    NoConn = NoConn
    ClientConn = NoConn
    Target <- AllToData
    Services = {"data"}
    SpwThreads = {"spw"}
    FdMin = 4
    FdMax = 6
    Taken = {}
    FdSetSize = 6
    Chunks = 2
    MaxPkts = 2
    MaxIn = 1
SYMMETRY SameConns
INVARIANTS TypeOK DeliveryInv
PROPERTY WholePackets

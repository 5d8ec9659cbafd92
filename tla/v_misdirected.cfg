SPECIFICATION Spec
CONSTANTS
    c1 = c1
    c2 = c2
    c3 = c3
    Conns = {c1, c3}
    NoConn = NoConn
    ClientConn = NoConn
    Target <- OneToSniffer
    Services = {"data", "sniff"}
    SpwThreads = {"spw"}
    FdMin = 4
    FdMax = 5
    Taken = {}
    FdSetSize = 6
    Chunks = 2
    MaxPkts = 1
    MaxIn = 1

\* Either alone shows its own counterexample.
INVARIANT NoDeadMember
PROPERTY PacketsOnly

SPECIFICATION FairSpec
CONSTANTS
    h1 = h1
    h2 = h2
    h3 = h3
    Hosts = {h1, h2}
    NoHost = NoHost
    Lengths = {0, 1}
    FirstCap = 1
    MaxDgrams = 4
    MaxPkts = 2
PROPERTY FirstRegisters

SPECIFICATION FairSpec
CONSTANTS
    Chans = {"ch0"}
    Senders = {"data"}
    Sniff = TRUE
    InitialSpw = {"null"}
    MaxRx = 1
    MaxIn = 1
    MaxSig = 1
    MaxOps = 4
PROPERTY ShutdownCompletes
CHECK_DEADLOCK FALSE

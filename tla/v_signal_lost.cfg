SPECIFICATION FairSpec
CONSTANTS
    Chans = {"ch0"}
    Senders = {"data"}
    Sniff = FALSE
    InitialSpw = {"null"}
    MaxRx = 1
    MaxIn = 1
    MaxSig = 1
    MaxOps = 4
PROPERTY SignalTerminates

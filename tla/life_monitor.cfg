SPECIFICATION Spec
CONSTANTS
    Chans = {"ch0", "ch1"}
    Senders = {"data"}
    Sniff = TRUE
    InitialSpw = {"null"}
    MaxRx = 1
    MaxIn = 1
    MaxSig = 1
    MaxOps = 7
INVARIANTS OpsFreedOnce NoOpLeaked
CHECK_DEADLOCK FALSE

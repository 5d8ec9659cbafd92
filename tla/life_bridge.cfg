SPECIFICATION FairSpec
CONSTANTS
    Chans = {"ch0"}
    Senders = {"data", "gresb_tx"}
    Sniff = FALSE
    InitialSpw = {"null"}
    MaxRx = 2
    MaxIn = 1
    MaxSig = 1
    MaxOps = 7
INVARIANTS SinkStateAlive OpsAliveInUse OpsFreedOnce NoOpLeaked AtMostOneLateSink
PROPERTY ShutdownCompletes

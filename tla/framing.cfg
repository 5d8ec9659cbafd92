SPECIFICATION FairSpec
CONSTANTS
    Modes = {"pus", "fee", "gresb", "raw", "rmap"}
    Hdr = 2
    MaxSize = 1
    Kinds <- Sent
    MaxPkts = 3
INVARIANTS InSync Contiguous SizeRespected
PROPERTIES HandlerReturns Handled

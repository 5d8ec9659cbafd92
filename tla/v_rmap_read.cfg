SPECIFICATION Spec
CONSTANTS
    Modes = {"rmap"}
    Hdr = 2
    MaxSize = 2
    Kinds <- SentByManual
    MaxPkts = 2
INVARIANT InSync

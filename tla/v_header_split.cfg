SPECIFICATION Spec
CONSTANTS
    Modes = {"pus"}
    Hdr = 2
    MaxSize = 1
    Kinds <- Sent
    MaxPkts = 1
INVARIANT SegmentsTolerated

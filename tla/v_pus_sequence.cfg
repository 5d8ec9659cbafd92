SPECIFICATION Spec
CONSTANTS
    Apids = {1, 2}
    SeqMod = 4
    MaxPkts = 4
INVARIANT MismatchReported

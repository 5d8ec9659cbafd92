SPECIFICATION Spec
CONSTANTS
    Codes = {0, 2, 3, 4, 7, 8, 11, 15}
    PathLens = {0, 2, 16}
    RpathLens = {0, 3, 4, 8, 12, 16}
    DataLens = {0, 1, 3, 300}
    Addrs = {0, 16909060}
    Cuts = {0, 1, 2, 5, 17, 20}
\* TLC stops at the first; each one alone, or -continue, shows the others.
INVARIANTS
    SizeOrError
    ReadDecoded
    HdrCrcDecoded
    ReplyCarriesData
CHECK_DEADLOCK FALSE

SPECIFICATION AllSpec
CONSTANTS
    Codes = {0, 2, 3, 4, 7, 8, 11, 15}
    PathLens = {0, 2, 16}
    RpathLens = {0, 3, 4, 8, 12, 16}
    DataLens = {0, 1, 3, 300}
    Addrs = {0, 16909060}
    Cuts = {0, 1, 2, 5, 17, 20}
    Values <- FieldValues
    Contents = {0, 255}
    MaxCalls = 5
    Seeds = {0, 29}
    MaxOctets = 17
    Sources <- PusSources
    PathBytes = 1
    Losses = {1, 4, 12, 20, 30}
    Flips <- BitFlips
    OptionSets <- CommandLines
    Dsts <- TwoDsts
    Srcs <- OneSrc
    Offsets = {0, 1, 3, 6, 7, 8, 13}
    MaxBits = 20
INVARIANTS SizeAgrees RoundTrip ReplyDecoded WithinBuffer ReadsBack CrcByDefinition DumpFromPacket DamageReported NeverDropped CopiedExactly
CHECK_DEADLOCK FALSE

SPECIFICATION Spec
CONSTANTS
    Hosts = {"local", "remote"}
    Ports = {1234, 3064}
    Channels = {1, 2, 7}
    Present = {1, 2}
    PathLens = {1, 200}
    Flags = {"P", "D"}
    MaxOpts = 4
INVARIANTS TypeOK StopMatchesStart PushTargetsReady

SPECIFICATION InOrderSpec
CONSTANTS
    b1 = b1
    b2 = b2
    p1 = p1
    None = None
    Bridges = {b1, b2}
    Ports = {p1}
    MaxPending = 2
    MaxMissed = 1
    MaxFaults = 0
    EngineStates = {"BLOCKING", "FORWARDING"}
SYMMETRY Symmetry
INVARIANTS
    KernelFollows

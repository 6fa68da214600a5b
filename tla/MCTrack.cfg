SPECIFICATION MCTrackSpec
CONSTANTS
    b1 = b1
    b2 = b2
    p1 = p1
    None = None
    Bridges = {b1, b2}
    Ports = {p1}
    MaxPending = 2
    MaxMissed = 1
    MaxFaults = 1
    EngineStates = {"BLOCKING", "FORWARDING"}
SYMMETRY Symmetry
INVARIANTS
    EngineFollowsLinks
    OneBridgePerPort
    ViewIsCurrent
    KernelFollowsUnlessRaced

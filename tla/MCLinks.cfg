SPECIFICATION LinksSpec
CONSTANTS
    MacSpace = 16
    PortSpace = 16
    TreeSpace = 4
    HelloTime = 1
    MigrateTime = 1
    MaxCost = 20
    AgeModulus = 8
    MaxBacklog = 0
    ExtraFlaps = 1
    Mstis = {}
    Commands = {}
    Bridges <- MCBridges
    Ports <- MCPorts
    BridgeOf <- MCBridgeOf
    Peer <- MCPeer
    PathCost <- MCPathCost
    Duplex <- MCDuplex
    BootBridge <- MCBootBridge
    BootPriority <- MCBootPriority
    BootPort <- MCBootPort
    BootBudget <- MCBootBudget
INVARIANTS
    TypeOK
    QuietSettled
    RootSelectionCurrent
    AnnouncesCurrentRoot
    NoForwardingLoop
    QuietDrained
PROPERTIES
    NoNeedToRun
    Converges

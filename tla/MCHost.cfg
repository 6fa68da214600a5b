SPECIFICATION MCFairSpec
CONSTANTS
    MacSpace = 16
    PortSpace = 16
    TreeSpace = 4
    HelloTime = 1
    MigrateTime = 2
    MaxCost = 20
    AgeModulus = 8
    MaxBacklog = 0
    ExtraFlaps = 1
    Mstis = {}
    Commands <- MCCommands
    Bridges <- MCBridges
    Ports <- MCPorts
    BridgeOf <- MCBridgeOf
    Peer <- MCPeer
    PathCost <- MCPathCost
    Duplex <- MCDuplex
    BootBridge <- MCBootBridge
    BootPriority <- MCBootPriority
    BootPort <- MCBootPort
    BootBudget <- MCBootBudget
INVARIANTS
    NoForwardingLoop
    SilentNetworkPortBlocked
PROPERTIES
    HostsServed

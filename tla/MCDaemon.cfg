SPECIFICATION DaemonSpec
CONSTANTS
    NPorts = 3
    HelloTime = 1
    ClientTimeout = 5
    MANAGE_MSTPD = TRUE
    Jobs = {"j1", "j2"}
    MaxStall = 4
    MaxToggles = 3
    MaxCrashes = 1
INVARIANTS
    InfoLapsesOnlyUnread
    ModesAgree
PROPERTY
    RtnlReleased

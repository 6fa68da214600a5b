SPECIFICATION CfgSpec
CONSTANTS
    MAX_STANDARD_MSTIS = 3
    MAX_VID = 2
    MAX_FID = 1
    MAX_MSTID = 3
    MAX_IMPLEMENTATION_MSTIS = 2
    PortNumbers = {1, 2}
    Names = {"a", "b"}
    FirstName = "a"
    MaxArguments = 2
    MaxFailures = 1
    Arguments <- MCArguments
INVARIANTS
    CfgTypeOK
    DigestCurrent
    EveryFidHasTree
    Mesh
    MstiLimit
PROPERTY
    ImplementsVlanAssignment

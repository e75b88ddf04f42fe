\* Liveness and the refinement: no symmetry, no failures.
CONSTANTS
    Points = {p1}
    NoGateways = NoGateways
    RoutesMayChange = TRUE
    ReplyMayTimeOut = FALSE
    MaxRetry = 1
    FirewallMayFail = FALSE
    DnsMayFail = FALSE
    LanMayChange = FALSE
    BlockMayCome = FALSE

SPECIFICATION FairSpec

PROPERTIES
    ShutdownTerminates
    DisconnectCompletes
    OfflineLeftWhenNotified
    ImplementsLifecycle

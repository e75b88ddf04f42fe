\* ReconnectsOnceOnline is violated: the state machine misses that the host is back online.
CONSTANTS
    Points = {p1}
    NoGateways = NoGateways
    RoutesMayChange = TRUE
    ReplyMayTimeOut = FALSE
    MaxRetry = 1
    FirewallMayFail = FALSE
    DnsMayFail = FALSE
    LanMayChange = FALSE
    BlockMayCome = FALSE

SPECIFICATION FairSpec

PROPERTY ReconnectsOnceOnline

\* Firewall and DNS operations may fail, Block may come, and the state machine may
\* take longer than REPLY_TIMEOUT to answer.
CONSTANTS
    Points = {p1}
    NoGateways = NoGateways
    RoutesMayChange = TRUE
    ReplyMayTimeOut = TRUE
    MaxRetry = 1
    FirewallMayFail = TRUE
    DnsMayFail = TRUE
    LanMayChange = FALSE
    BlockMayCome = TRUE

SPECIFICATION Spec

INVARIANTS
    KillSwitch
    NoPanic
    ConnectedIsComplete
    NetworkingFollowsFirewall
    DnsOnlyWhenConnected

PROPERTIES
    NeverOpensUnasked

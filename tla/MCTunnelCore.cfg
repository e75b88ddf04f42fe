\* Two entry points, every attempt number up to saturation; clients change
\* allow_lan, which the firewall may fail to apply.
CONSTANTS
    Points = {p1, p2}
    NoGateways = NoGateways
    RoutesMayChange = TRUE
    ReplyMayTimeOut = FALSE
    MaxRetry = 3
    FirewallMayFail = TRUE
    DnsMayFail = FALSE
    LanMayChange = TRUE
    BlockMayCome = FALSE

SPECIFICATION Spec
SYMMETRY PointSymmetry

INVARIANTS
    TypeOK
    IntentRespected
    MonitorOwned
    FirewallBeforeDial
    LanFollowsSettings

PROPERTIES
    SelectionStaysFresh
    ProgressMonotone

\* Every command; any operation on the disk may fail, and the process may be killed
\* anywhere.
CONSTANTS
    a1 = a1
    a2 = a2
    d1 = d1
    NoAccount = NoAccount
    ApiAccounts = {a1, a2}
    DecentralisedAccounts = {d1}
    MaxAttempts = 1
    MaxStrays = 0
    Commands = {"Store", "Forget", "ResetDevice", "Refresh", "Firewall", "DisableUpgradeMode"}
    Faults = {"credentials", "pending", "wireguard", "files", "account", "keys", "store", "expiry"}
    MayCrash = TRUE
    RoutesMayChange = TRUE

SPECIFICATION Spec

INVARIANTS TypeOK SummaryOfAccount StalledOnlyByFirewall
PROPERTIES ReadyIsEarned

\* The controller comes to rest, whatever the API answers, with a fetch left alone.
CONSTANTS
    a1 = a1
    a2 = a2
    d1 = d1
    NoAccount = NoAccount
    ApiAccounts = {a1}
    DecentralisedAccounts = {d1}
    MaxAttempts = 2
    MaxStrays = 1
    Commands = {"Store", "Forget", "Firewall", "DisableUpgradeMode"}
    Faults = {"files"}
    MayCrash = FALSE
    RoutesMayChange = TRUE

SPECIFICATION FairSpec

INVARIANT MemoryMatchesDisk
PROPERTY WorkSettles

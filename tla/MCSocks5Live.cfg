\* One connection after the other, at most one at a time.
CONSTANTS
    Connections = {c1}
    MaxRetries = 1
    Nobody = Nobody

SPECIFICATION FairSpec

PROPERTIES UnusedIsStopped

CHECK_DEADLOCK FALSE

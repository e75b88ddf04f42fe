\* The proportions of TimingConfig::two_hop: a longer timeout when monitoring, and
\* a periodicity longer than both.
CONSTANTS
    InitialTimeout = 2
    InitialRetries = 3
    MonitoringTimeout = 3
    MonitoringRetries = 2
    Periodicity = 4
    NoTimer = NoTimer
    Lateness = 1
    MaxTime = 22
    MaxEvents = 3

SPECIFICATION FairSpec

INVARIANTS TypeOK DeadIsDetected
PROPERTIES FailedIsEarned ProbesArePaced OutcomeIsAnnounced

CHECK_DEADLOCK FALSE

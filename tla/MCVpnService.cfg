\* Two messages under way let a command and an event, or two commands, cross; a change of
\* settings is always let in.
CONSTANTS
    MaxConfig = 2
    MaxInFlight = 2

SPECIFICATION FairSpec

INVARIANTS TypeOK DecisionsAreCurrent
PROPERTIES SettingsArrive ShutdownIsTold

CHECK_DEADLOCK FALSE

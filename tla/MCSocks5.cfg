\* Two connections race for the mutex and with the monitors; a second attempt
\* shows what a failed one leaves behind.
CONSTANTS
    Connections = {c1, c2}
    MaxRetries = 2
    Nobody = Nobody

SPECIFICATION Spec

INVARIANTS TypeOK OneBackend
SYMMETRY ConnectionsAlike

CHECK_DEADLOCK FALSE

\* Two fetches at a time, aborted anywhere, over an unreliable API.
CONSTANTS
    Types = {t1}
    Ids = {i1, i2}
    NoId = NoId
    Fetches = {f1, f2}
    Faults = {"answer", "refusal", "issuance", "keys", "closed", "polling", "timeout"}
    MayAbort = TRUE

SPECIFICATION Spec
SYMMETRY Symmetry

INVARIANTS TypeOK ConfirmedIsImported ReportedIsStored
PROPERTY KeptUntilConfirmed

\* A ticketbook that the database could not store is confirmed.
CONSTANTS
    Types = {t1}
    Ids = {i1}
    NoId = NoId
    Fetches = {f1}
    Faults = {"write"}
    MayAbort = FALSE

SPECIFICATION Spec

INVARIANT ConfirmedIsImported

SPECIFICATION RegistrySpec
CONSTANTS
    Codes = {psp}
    Versions = {v1, v2}
    Tasks = {t1, t2, t3}
    MaxRevision = 2
    None = None
INVARIANTS
    SingleFlight
PROPERTIES
    ImplementsFreshReads
    CallsEnd

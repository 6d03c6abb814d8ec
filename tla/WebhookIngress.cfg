SPECIFICATION Spec
CONSTANTS
    Deliveries = {d1, d2}
    Instances <- MCInstances
    Versions = {"a", "b"}
    Events <- MCEvents
    Unparsable = {"garbage"}
    SchemeOf <- MCSchemeOf
    Named = {"a", "b"}
    IdOf <- MCIdOf
    Requests <- MCRequests
    MaxTime = 1
    MaxSecrets <- MCMaxSecrets
    None = None
    NotANumber = NotANumber
    NotAscii = NotAscii
INVARIANTS
    RowsBelongToTheirSigner
    DuplicatesHaveACause
    AcknowledgedIsStored
PROPERTIES
    ImplementsInbox
    RequestsAnswered

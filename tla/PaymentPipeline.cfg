SPECIFICATION PipelineSpec
CONSTANTS
    Calls <- MCCalls
    MaxAttempts = 1
    RetryOn = {"timeout"}
    DoNotRetryOn = {}
    KeySent = TRUE
    None = None
    KeyOf <- MCKeyOf
    ProviderStatuses <- OneStatus
    StatusMap <- OneStatusMap
    SuccessStatuses <- OneStatus
    Paid <- OneStatus
    FirstId <- MCFirstId
    Relays = {w1}
    Batch = 2
    Poison = {2}
    MaxErrors <- MCMaxErrors
    MaxRollbacks <- MCMaxRollbacks
PROPERTIES
    KeepsPromises
    RequestsEnd
    PaymentsAreAnnounced

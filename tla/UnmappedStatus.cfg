SPECIFICATION Spec
CONSTANTS
    Calls = {r1, r2}
    Alone = {r2}
    MaxAttempts = 2
    RetryOn = {"timeout", "network_error", "http_5xx", "http_429"}
    DoNotRetryOn = {"http_402"}
    KeySent = TRUE
    None = None
    KeyOf <- MCKeyOf
    ProviderStatuses <- AllStatuses
    StatusMap <- AllStatusMap
    SuccessStatuses <- AllSuccess
    Paid <- AllPaid
INVARIANTS
    UnmappedStatusParks

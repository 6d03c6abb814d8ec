SPECIFICATION RegisterSpec
CONSTANTS
    Registrations = {r1, r2, r3}
    Accounts = {main}
    Versions = {"v1", "v2"}
    Names = {"api_key", "webhook_secret"}
    Needs <- MCNeeds
    StoreMerges = TRUE
    None = None
INVARIANTS
    InstancesHaveSecrets
PROPERTIES
    CommitsItsOwnSecrets
    RegistrationsEnd
CHECK_DEADLOCK FALSE

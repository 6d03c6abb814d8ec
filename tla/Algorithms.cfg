SPECIFICATION AlgorithmsSpec
CONSTANTS
    MaxConditions = 4
    MaxAmount = 2005
    Bases <- MCBases
    Caps <- MCCaps
    Manifests <- MCManifests
    Supplies <- MCSupplies
    Charges <- MCCharges
    None = None
INVARIANTS
    SuccessMeansWhatItSays
    AmountsReadBack
    SleepsAreBounded
    FailsOnlyUnrehearsed
CHECK_DEADLOCK FALSE

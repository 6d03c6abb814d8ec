SPECIFICATION Spec
CONSTANTS
    Rows <- MCRows
    PaymentOf <- MCPaymentOf
    Relays = {w1, w2}
    Batch = 2
    Poison = {2}
    MaxErrors <- Once
    MaxRollbacks <- Once
INVARIANTS
    CopiesNeedFailures
    FailuresAreVisible
PROPERTIES
    OvertakenForAReason
    ImplementsEventDelivery
    HealthyRowsGoOut

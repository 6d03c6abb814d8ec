SPECIFICATION Spec
CONSTANTS
    Rows <- MCRows
    PaymentOf <- MCPaymentOf
    Relays = {w1}
    Batch = 2
    Poison = {1, 2}
    MaxErrors <- Once
    MaxRollbacks <- Once
PROPERTIES
    DeadLettersStepAside

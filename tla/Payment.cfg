SPECIFICATION Spec
CONSTANTS
    Amount = 3
    PaymentCurrency = EUR
    Currencies = {EUR, USD}
    ProviderIds = {p1, p2}
    NoProviderId = none
    MaxEvents = 7
INVARIANTS
    TypeOK
    RefundLedger
    EventsReplayPayment
    ClosingEventIsLast
PROPERTIES
    RaiseLeavesPaymentAlone
    ImplementsMoneyFlow

CONSTANTS
    Sessions = {s1, s2}
    MaxPayments = 2
    AsyncMethods = FALSE
    NoRef = NoRef
    Orgs = {o1}
    Plans = {a, b}
    Handlers = {h1, h2}
SYMMETRY Symmetry
SPECIFICATION Spec
INVARIANTS
    TypeOK
    InvoiceMatchesPayment
    MoneyMoved
    InvoiceNumbersUnique
    ActivePlanIsPaid
PROPERTIES
    ImplementsLedger
    PaymentNeverReverts
    CancelledOnlyByRefund

CONSTANTS
    Sessions = {s1}
    MaxPayments = 1
    AsyncMethods = TRUE
    NoRef = NoRef
    Orgs = {o1}
    Plans = {a, b}
    Handlers = {h1}
    Clients = {c1, c2}
SYMMETRY Symmetry
SPECIFICATION BillingSpec
INVARIANTS
    BillingTypeOK
    ActiveWasPaidFor

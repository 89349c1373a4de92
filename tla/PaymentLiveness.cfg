CONSTANTS
    Sessions = {s1, s2}
    MaxPayments = 1
    AsyncMethods = FALSE
    NoRef = NoRef
    Orgs = {o1}
    Plans = {a}
    Handlers = {h1, h2}
SPECIFICATION LiveSpec
PROPERTIES
    PaidSessionActivates
    RefundReachesRecord

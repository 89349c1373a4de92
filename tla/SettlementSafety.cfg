CONSTANTS
    Sales = {s1}
    Bills = {b1}
    Manual = {m1}
    Requests = {r1, r2}
    Totals = {3, 6}
    Amounts = {3}
    MaxPayments = 3
    Rounding = 1
    Followed = {s1}
    Idle = Idle
SPECIFICATION Spec
SYMMETRY Symmetry
INVARIANTS
    TypeOK
    SettledToRounding
    LedgerAgrees
    InvoiceNeverOverstates
PROPERTIES
    ImplementsOpenItems

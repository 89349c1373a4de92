CONSTANTS
    Entries = {e1, e2, e3}
    Bookkeepers = {k1, k2}
    Lines <- LineLists
    Cent = 2
    Origin = Origin
    NoRef = NoRef
    Waiting = Waiting
    Payrolls = {p1}
    Officers = {o1}
    Salaries <- NetSalaries
SPECIFICATION Spec
SYMMETRY Symmetry
INVARIANT
    ReversedOnce
CHECK_DEADLOCK FALSE

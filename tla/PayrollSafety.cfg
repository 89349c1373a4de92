CONSTANTS
    Entries = {e1, e2}
    Bookkeepers = {k1, k2}
    Lines <- LineLists
    Cent = 2
    Origin = Origin
    NoRef = NoRef
    Waiting = Waiting
    Payrolls = {p1}
    Officers = {o1, o2}
    Salaries <- NetSalaries
SPECIFICATION Spec
SYMMETRY Symmetry
INVARIANTS
    TypeOK
    PostedNearlyBalances
    BookedOnce
PROPERTIES
    DecidedStays
CHECK_DEADLOCK FALSE

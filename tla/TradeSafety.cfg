CONSTANTS
    product = product
    Products <- OneProduct
    Rows = {i1, i2}
    NoProduct = NoProduct
    NoRow = NoRow
    Clerks = {c1}
    Amounts = {1}
    Imports <- ImportedQuantities
    MaxStock = 2
    Sales = {s1}
    Purchases = {b1}
    Requests = {r1, r2}
    Lists <- OneEach
    Edited = {s1}
    Author = Author
SPECIFICATION Spec
SYMMETRY Symmetry
INVARIANTS
    TypeOK
    NeverOversold
    HistoryExplainsStock
    BooksFollowStatus
PROPERTIES
    ImplementsFulfilment

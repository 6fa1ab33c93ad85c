SPECIFICATION Spec
CONSTANTS
    None = None
    Workers = {w1, w2}
    Products = {p1}
    Orders = {o1}
    StockIds = {s1}
    ItemIds = {i1, i2, i3}
    Quantities = {0, 1, 2}
    MaxQuantity = 2
    Levels = {1, 3}
    Reassign = {}
SYMMETRY Symmetry
INVARIANTS
    TypeOK
    OversellBounded
    RequestsConsistent
    PotentialBounded
    SomeClaimFits

SPECIFICATION Spec
CONSTANTS
    None = None
    Workers = {w1, w2}
    Products = {p1}
    Orders = {o1}
    StockIds = {s1}
    ItemIds = {i1, i2}
    Quantities = {1, 2}
    MaxQuantity = 2
    Levels = {2}
    Reassign = {}
SYMMETRY Symmetry
INVARIANTS
    NoOversell

SPECIFICATION Spec
CONSTANTS
    None = None
    Workers = {w1, w2}
    Users = {u1, u2}
    Stores = {s1, s2}
    ProductIds = {p1, p2, p3}
    ProductsLimit = 1
    ForeignStores = FALSE
    PutActive = {FALSE}
    PutStores = {}
    Killable = {w1, w2}
SYMMETRY
    Symmetry
INVARIANTS
    TypeOK
    OwnStoreComplete
    ProductsBounded
PROPERTIES
    ImplementsAdmission

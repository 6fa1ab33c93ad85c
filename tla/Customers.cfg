SPECIFICATION Spec
CONSTANTS
    None = None
    Workers = {w1, w2}
    Stores = {s1, s2}
    CustomerIds = {c1, c2, c3}
    Addresses = {a1, a2, blank}
    Blanks = {blank}
    Phones = {n1, none}
    NoPhone = none
    PutStores = {}
SYMMETRY
    Symmetry
INVARIANTS
    TypeOK
    EmailsBounded
PROPERTIES
    ImplementsAdmission

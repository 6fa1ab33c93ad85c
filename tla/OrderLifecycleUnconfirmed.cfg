SPECIFICATION Spec
CONSTANTS
    None = None
    Workers = {w1, w2}
    Killable = {}
    OrderIds = {o1}
    PaymentIds = {p1}
    Codes = {c1}
    Amounts = {1}
    Totals = {1}
    Days = {d1}
    PutConfirmed = {}
    PutPaidOn = {}
    Calls = {"place", "confirm", "items", "pay"}
    LateItems = FALSE
SYMMETRY Symmetry
INVARIANTS
    ConfirmableUnlessShared
CHECK_DEADLOCK FALSE

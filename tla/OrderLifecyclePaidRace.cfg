SPECIFICATION Spec
CONSTANTS
    None = None
    Workers = {w1, w2}
    Killable = {}
    OrderIds = {o1}
    PaymentIds = {p1, p2}
    Codes = {}
    Amounts = {1}
    Totals = {2}
    Days = {d1}
    PutConfirmed = {}
    PutPaidOn = {}
    Calls = {"create", "items", "pay"}
    LateItems = FALSE
SYMMETRY Symmetry
INVARIANTS
    StatusMatchesBalance
CHECK_DEADLOCK FALSE

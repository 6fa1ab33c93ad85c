SPECIFICATION Spec
CONSTANTS
    None = None
    Workers = {w1}
    Killable = {}
    OrderIds = {o1, o2}
    PaymentIds = {p1, p2}
    Codes = {c1}
    Amounts = {0, 1}
    Totals = {1, 2}
    Days = {d1}
    PutConfirmed = {TRUE, FALSE}
    PutPaidOn = {d1}
    Calls = {"create", "place", "confirm", "edit", "delete", "items", "pay", "editPayment"}
    LateItems = FALSE
SYMMETRY Symmetry
INVARIANTS
    StatusMatchesBalance
CHECK_DEADLOCK FALSE

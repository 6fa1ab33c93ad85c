SPECIFICATION Spec
CONSTANTS
    None = None
    Workers = {w1, w2}
    Killable = {w1, w2}
    OrderIds = {o1}
    PaymentIds = {p1, p2}
    Codes = {c1}
    Amounts = {1}
    Totals = {1, 2}
    Days = {d1}
    PutConfirmed = {TRUE, FALSE}
    PutPaidOn = {d1}
    Calls = {"create", "place", "confirm", "edit", "delete", "items", "pay", "editPayment", "movePayment"}
    LateItems = TRUE
SYMMETRY Symmetry
INVARIANTS
    TypeOK
    PaidHasDate
CHECK_DEADLOCK FALSE

SPECIFICATION FairSpec
CONSTANTS
    None = None
    Workers = {w1, w2}
    Killable = {}
    OrderIds = {o1, o2}
    PaymentIds = {}
    Codes = {c1, c2}
    Amounts = {}
    Totals = {1}
    Days = {d1}
    PutConfirmed = {}
    PutPaidOn = {}
    Calls = {"place", "confirm", "delete", "items"}
    LateItems = TRUE
INVARIANTS
    ConfirmableUnlessShared
PROPERTIES
    ConfirmationEnds
CHECK_DEADLOCK FALSE

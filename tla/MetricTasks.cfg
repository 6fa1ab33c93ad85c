SPECIFICATION MCSpec
CONSTANTS
    None = None
    s1 = s1
    Workers = {w1, w2}
    Stores = {s1, s2}
    Kinds = {"profit"}
    OrderIds = {o1}
    LastDay = 2
    MaxFaults = 1
    Moments <- EdgeMoments
    Nothing = Nothing
INVARIANTS
    TypeOK
    MetricsAreTrue
    QueuedOnce
    ReportHalvesAgree
PROPERTIES
    MetricsSettle
    SomeStoreIsServed

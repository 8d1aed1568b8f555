SPECIFICATION Spec
CONSTANTS
    Interval = {1, 2}
    DefaultInterval = 2
    Retention = {1, 2}
    DefaultRetention = 2
    SweepEvery = 2
    MinActivity = 5
    Timer = {h1, h2}
    MaxPending = 2
    MaxAge = 6
    None = None
SYMMETRY Interchangeable
INVARIANTS
    OneCollector
    SweptInTime
PROPERTIES
    HistoryKept

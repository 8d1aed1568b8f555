SPECIFICATION ViewsFairSpec
CONSTANTS
    Range = {r1, r2}
    Custom = {w1}
    Proc = {p1}
    HistoryTicks = 2
    MaxFlight = 2
    Nothing = Nothing
INVARIANTS
    ViewsTypeOK
    NothingPilesUp
PROPERTIES
    ShownCatchesUp

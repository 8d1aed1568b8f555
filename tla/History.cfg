SPECIFICATION Spec
CONSTANTS
    TargetPoints = 2
    RangeMs = {2, 4}
    DefaultRange = 4
    MinuteMs = 2
    MinZoom = 1
    MinDrag = 1
    PlotW = 3
    PadL = 1
    PadR = 0
    MaxTime = 5
    None = None
INVARIANTS
    SeriesCoversWindow
    HoverIsNearest
PROPERTIES
    ZoomNeverCoarser

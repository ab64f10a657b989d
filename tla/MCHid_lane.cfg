CONSTANTS
    HidDepth = 2
    Tabs = {1, 2}
    MaxReports = 4
SPECIFICATION HidSpec
INVARIANT MovesOnlyMove
CHECK_DEADLOCK FALSE

SPECIFICATION MonitorSpec
CONSTANTS
    Positions = {1}
    Qty = 1
    MaxPerDay = 1
    MaxErrors = 0
INVARIANT ExitsAreChecked
CHECK_DEADLOCK FALSE

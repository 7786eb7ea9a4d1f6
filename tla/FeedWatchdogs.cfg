SPECIFICATION FeedSpec
CONSTANTS
    MaxTickers = 2
    StormMax = 2
    GuardMax = 2
INVARIANT OneWatchdog
CHECK_DEADLOCK FALSE

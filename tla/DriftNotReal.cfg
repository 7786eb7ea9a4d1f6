SPECIFICATION TruthSpec
CONSTANTS
    Symbols = {"a"}
    Trades = {1}
    SymbolOf <- OneSymbol
    Carried <- OneCarried
    Other = Other
    MaxStrange = 0
    MaxFlats = 0
    MaxFailures = 0
INVARIANT DriftIsReal
CHECK_DEADLOCK FALSE

SPECIFICATION Spec
CONSTANTS
    Kinds = {"c", "w", "n"}
    MaxPartial = 3
    MaxLines = 2
    MaxWrites = 3
    MaxTrunc = 0
    MaxCrash = 1
PROPERTIES CrashNeverSkips
CHECK_DEADLOCK FALSE

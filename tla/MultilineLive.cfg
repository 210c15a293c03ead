SPECIFICATION FairSpec
CONSTANTS
    Kinds = {"S", "c", "w", "n"}
    MaxBytes = 2
    MaxPartial = 3
    MaxLines = 1
    MaxWrites = 3
    MaxTrunc = 0
    MaxCrash = 1
PROPERTIES EventuallyShipped
CHECK_DEADLOCK FALSE

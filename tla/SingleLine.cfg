SPECIFICATION Spec
CONSTANTS
    Kinds = {"c", "w", "n"}
    MaxPartial = 2
    MaxLines = 2
    MaxWrites = 4
    MaxTrunc = 1
    MaxCrash = 1
INVARIANTS NoSkip CheckpointNoSkip PartialIsOneLine NoDuplicates
 
CHECK_DEADLOCK FALSE

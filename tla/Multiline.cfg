SPECIFICATION Spec
CONSTANTS
    Kinds = {"S", "c", "w", "n"}
    MaxBytes = 2
    MaxPartial = 3
    MaxLines = 2
    MaxWrites = 4
    MaxTrunc = 1
    MaxCrash = 1
INVARIANTS TypeOK ReadAheadExact NoSkip CheckpointNoSkip HeldInMemory  NoDuplicates
 
CHECK_DEADLOCK FALSE

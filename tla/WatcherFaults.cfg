SPECIFICATION Spec
CONSTANTS
    File = {"f1", "f2"}
    NoFile = NoFile
    FileId <- Distinct
    First = "f1"
    Globbed = {"app"}
    Utf16 = {}
    MaxCap = 1
    Stale = 1
    Faults = {"open", "save", "full", "old"}
    MaxLines = 2
    MaxStops = 1
    MaxCrash = 1
INVARIANTS  CheckpointBehind

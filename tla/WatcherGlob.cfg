SPECIFICATION Spec
CONSTANTS
    File = {"f1", "f2", "f3"}
    NoFile = NoFile
    FileId <- Recycled
    First = "f1"
    Globbed = {"app", "rot"}
    Utf16 = {"f2"}
    MaxCap = 1
    Stale = 1
    Faults = {}
    MaxLines = 2
    MaxStops = 0
    MaxCrash = 1
INVARIANTS IndexExact 

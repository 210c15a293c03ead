SPECIFICATION FairSpec
CONSTANTS
    File = {"f1", "f2", "f3"}
    NoFile = NoFile
    FileId <- Distinct
    First = "f1"
    Globbed = {"app"}
    Utf16 = {}
    MaxCap = 1
    Stale = 1
    Faults = {}
    MaxLines = 2
    MaxStops = 1
    MaxCrash = 0
INVARIANTS OnlyCrashRepeats
PROPERTY EventuallySettled

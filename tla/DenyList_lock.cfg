SPECIFICATION SpecDeny
CONSTANTS
    Threads = {t1, t2}
    Packages = {"a", "isolated"}
    Procs = {"x"}
    Isolated = "isolated"
    Ids = {1}
    ZygiskEnabled = FALSE
    DbMayFail = FALSE
    ScanAlone = FALSE
    MaxRequests = 3
    MaxInstalls = 0
INVARIANT DataLocked
SYMMETRY ThreadSymmetry
CHECK_DEADLOCK FALSE

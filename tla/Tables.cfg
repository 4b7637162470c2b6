SPECIFICATION SpecParts
CONSTANTS
    Uids <- AskingUids
    SuUsers = {0, 1}
    ManagerApp = 10002
    Rows <- AppRows
    Configs <- AllConfigs
    DirUids = {10000, 19999, 110000, 101000}
    RowUids = {2000, 10000, 19999, 20000, 110000}
    Users = {"u0", "u10"}
    Pkgs = {"a", "b"}
    Certs = {"other"}
    MaxChanges = 4
    Threads = {t1, t2}
    Packages = {"a", "isolated"}
    Procs = {"x", "y"}
    Isolated = "isolated"
    Ids = {1}
    ZygiskEnabled = FALSE
    DbMayFail = TRUE
    ScanAlone = TRUE
    MaxRequests = 2
    MaxInstalls = 1
SYMMETRY ThreadSymmetry
INVARIANTS  ListExact SwitchInForce
PROPERTIES   AnswerFollowsDatabase CertificatePinned

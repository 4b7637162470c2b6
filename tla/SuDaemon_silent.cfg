SPECIFICATION FairSpecRequests
CONSTANTS
    Requests = {r1, r2}
    None = None
    Uids = {10001}
    SuUsers = {0}
    ManagerApp = 10002
    Rows <- LiveRows
    Configs <- OpenConfig
CHECK_DEADLOCK FALSE
PROPERTIES
    EveryRequestReplied

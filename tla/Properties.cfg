SPECIFICATION SpecParts
CONSTANTS
    Original <- OwnBridge
    Clients = {"c1", "c2"}
    MaxDeaths = 1
    MaxPending = 2
    Stops = TRUE
    PropCommands <- MCCommands
    PropNames = {"persist.a", "persist.b", "persist.c", "ro.x"}
    RoProps = {"ro.x"}
    PersistProps = {"persist.a", "persist.b", "persist.c"}
    PropValues = {"v1", "v2", "long"}
    LongValues = {"long"}
    Stores <- MCStores
    Unset = {"persist.c"}
INVARIANTS LoaderInHand
PROPERTIES   PersistIntact WaitEnds

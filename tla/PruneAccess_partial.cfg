SPECIFICATION SpecPrune
CONSTANTS
    DirUids = {10000, 10001}
    RowUids = {10000, 10001}
PROPERTIES
    OnlyUninstalledPruned

SPECIFICATION SpecParts
CONSTANTS
    Devices <- MCDevices
    ModuleLists <- MCModuleLists
    PathEnvs <- MCPathEnvs
    NameOrder <- MCNameOrder
    MountTables <- MCTables
    Crypto <- MCCrypto
    RomMounts <- MCRomMounts
    Targets <- MCTargets
    PathOrder <- MCPathOrder
    MaxMounts = 3
    ByteOrder <- MCByteOrder
    Stocks <- MCStocks
    Files <- MCFiles
    Edited <- MCEdited
    Keep = {}
    MaxEdits = 2
    MaxSaves = 3
    Permissions <- MCPermissions
    Policies <- MCPolicies
    OptionSets <- MCOptions
    Probes = {}
    Trees <- MCTrees
    Calls <- MCCalls
    Contents <- AnyLength
    BLOCK_SIZE = 2
    COPY_SIZE = 3
    LZ4_MAGIC = 5
    WORD = 6
    LogThreads = {t1, t2}
    Zygotes = {z1}
    PipeRecords = 3
    MaxSent = 2
INVARIANTS  NothingLost  ChoiceAsDocumented RevertExact RestoreUndoes OnlyMagiskLoadsPolicy  DataKept
PROPERTY LogImplementsSpec

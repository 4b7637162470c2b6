SPECIFICATION SpecParts
CONSTANTS
    BootDevices <- MCDevices
    Strategies = {"LdPreload", "SelinuxFs", "Legacy"}
    Overlays = {"f"}
    PromptInit = TRUE
    Modules = {"a", "b"}
    ZygiskModules = {"a"}
    BadModules = {"a"}
    Preinstalled = {"a"}
    Failing = {"db", "disable", "upgrade", "collect"}
    MaxCrashes = 1
    MaxEdits = 1
    ScriptCalls <- MCScriptCalls
    MaxForkFails = 2
INVARIANTS   BootsCounted SafeModeHolds ScriptsInTurn
PROPERTIES  DisabledStaysOff RecoversFromBootloop BootNotHeldUp

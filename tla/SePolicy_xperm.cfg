SPECIFICATION SpecSepol
CONSTANTS
    Permissions <- MCPermissions
    Policies <- MCPolicies
    OptionSets <- ExampleOptions
    Probes = {8910, 35088}
CHECK_DEADLOCK FALSE
PROPERTY XpermsAsDocumented

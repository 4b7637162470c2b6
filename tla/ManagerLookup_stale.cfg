SPECIFICATION Spec
CONSTANTS
    Users = {"u0", "u10"}
    Pkgs = {"a"}
    Certs = {"other"}
    MaxChanges = 4
PROPERTY UidOfPackage

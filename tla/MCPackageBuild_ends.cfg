SPECIFICATION FairSpec
CONSTANTS
    lib = lib
    app = app
    Pkgs <- MCPkgs
    HostPkgs <- OnlyLib
    Deps <- MCDeps
    DownloadDeps <- NoDeps
    ExtractDeps <- NoDeps
    PatchDeps <- NoDeps
    Override <- OnlyApp
    Staging <- NoPkg
    Images <- NoPkg
    Target <- OnlyApp
    NumPatches <- MCPatches
    PerPackage = TRUE
    HasWait = FALSE
    Commands = {"make", "rebuild all", "dirclean"}
    MaxEdits = 0
    MaxFaults = 1
PROPERTY RunEnds
CHECK_DEADLOCK FALSE

SPECIFICATION Spec
CONSTANTS
    lib = lib
    app = app
    Pkgs <- MCPkgs
    HostPkgs <- NoPkg
    Deps <- MCDeps
    DownloadDeps <- NoDeps
    ExtractDeps <- NoDeps
    PatchDeps <- NoDeps
    Override <- OnlyApp
    Staging <- OnlyLib
    Images <- NoPkg
    Target <- MCPkgs
    NumPatches <- MCPatches
    PerPackage = TRUE
    HasWait = TRUE
    Commands = {"make", "package", "reinstall", "rebuild", "reconfigure"}
    MaxEdits = 1
    MaxFaults = 1
INVARIANT DepsInstalled
INVARIANT SuccessMeansInstalled
INVARIANT RebuildPicksUpEdits
PROPERTY OthersUntouched
CHECK_DEADLOCK FALSE

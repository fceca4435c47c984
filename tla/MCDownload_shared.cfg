SPECIFICATION Spec
CONSTANTS
    b1 = b1
    b2 = b2
    Builds = {b1, b2}
    NoBuild = NoBuild
    Files = {"tar", "patch"}
    Order <- MCOrder
    Contents <- MCContents
    Truncated <- Part
    NoFile <- None
    NumUris = 2
    Serves <- MCServes
    Failure <- Error
    HashFiles <- MCCovered
    NoCheckFor <- MCNoCheck
    PostProcessed = {"tar"}
    OldDlDir <- MCLegacy
    DiskFaults = TRUE
    MaxKills = 1
    MaxRuns = 2
INVARIANTS ExtractsCheckedFile OutputIsChecked
PROPERTY ImplementsStore
CHECK_DEADLOCK FALSE

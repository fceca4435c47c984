SPECIFICATION FairSpec
CONSTANTS
    b1 = b1
    b2 = b2
    Builds = {b1, b2}
    NoBuild = NoBuild
    Files = {"tar", "patch"}
    Order <- MCOrder
    Contents <- MCContents
    Truncated <- Part
    NoFile <- None
    NumUris = 2
    Serves <- MCReliable
    Failure <- Error
    HashFiles <- MCTwoTrees
    NoCheckFor <- MCNoCheck
    PostProcessed = {"patch"}
    OldDlDir <- MCLegacy
    DiskFaults = FALSE
    MaxKills = 1
    MaxRuns = 1
PROPERTIES RunEnds RunSucceeds
CHECK_DEADLOCK FALSE

SPECIFICATION Spec
CONSTANTS
    Dirs <- MCDirs
    Calls <- MCCalls
    Listing <- MCListing
    Series <- MCSeries
    NoSeries = "none"
    Files <- MCFiles
    Nested <- MCNested
    TypeOf <- MCTypeOf
    Depth = 2
    MaxKills = 3
    MaxShort = 2
INVARIANT Patched
CHECK_DEADLOCK FALSE

SPECIFICATION Spec
CONSTANTS
    c1 = c1
    c2 = c2
    c3 = c3
    s1 = s1
    s2 = s2
    Names = {"v1", "v2"}
    Commits <- MCCommits
    None = None
    FastForward <- MCForward
    Subs <- MCSubs
    Mixed = Mixed
    Remote0 <- MCRemote
    Fails = {}
    KillPoints = {}
    MovePoints = {"idle", "done", "failed", "dead"}
    MaxKills = 0
    MaxMoves = 1
    MaxRuns = 2
INVARIANT ArchivesTheTag
CHECK_DEADLOCK FALSE

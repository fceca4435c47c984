SPECIFICATION FairSpec
CONSTANTS
    c1 = c1
    c2 = c2
    c3 = c3
    s1 = s1
    s2 = s2
    Names = {"v1", "v2"}
    Commits <- MCCommits
    None = None
    FastForward <- MCForward
    Subs <- MCSubs
    Mixed = Mixed
    Remote0 <- MCMissing
    Fails = {"fetch", "special", "clean", "submodules", "archive"}
    KillPoints = {"init", "fetch", "special", "verify", "deregister", "checkout", "clean", "submodules", "subst", "archive", "wipe"}
    MovePoints = {"idle", "init", "fetch", "special", "verify", "deregister", "checkout", "clean", "submodules", "subst", "archive", "wipe", "done", "failed", "dead"}
    MaxKills = 2
    MaxMoves = 1
    MaxRuns = 3
INVARIANT ArchiveIsReproducible
PROPERTIES RunEnds RunHeals
CHECK_DEADLOCK FALSE

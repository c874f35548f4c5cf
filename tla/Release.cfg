SPECIFICATION FairSpec
CONSTANTS
    Builds = {b1, b2}
    LastCommit = 3
    ReleaseTypes = {"patch", "minor"}
    None = None
    MaxKills = 2
    MaxRetags = 1
CHECK_DEADLOCK FALSE
INVARIANTS
    VersionsFollowMain
PROPERTIES
    NothingStaleGoesOut
    PushedIsReleased

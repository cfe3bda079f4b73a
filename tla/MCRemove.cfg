SPECIFICATION FairSpec
CONSTANTS
    Packages = {p}
    LocalPackages = {}
    SelfUpdating = {}
    Revisions = {1, 2}
    Versions = {1, 2}
    NoRevision = NoRevision
    UpdateDelay = 0
    MaxTime = 0
    MaxAdds = 1
    MaxRemovals = 1
    MaxFaults = 1
    MaxPushes = 1
    CommitTime <- MCCommitTime
    FileVersion <- MCFileVersion
    Successors <- MCSuccessors
INVARIANTS
    PendingIsNewest
    VersionsAndJobsPaired
    PublishedIsRecorded
PROPERTIES
    RemoveEnds
    ImplementsQueue

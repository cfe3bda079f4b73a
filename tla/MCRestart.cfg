SPECIFICATION FairSpec
CONSTANTS
    Packages = {p}
    LocalPackages = {}
    SelfUpdating = {}
    Revisions = {1, 2}
    Versions = {1, 2}
    NoRevision = NoRevision
    UpdateDelay = 1
    MaxTime = 1
    MaxAdds = 1
    MaxRemovals = 0
    MaxFaults = 2
    MaxPushes = 1
    CommitTime <- MCCommitTime
    FileVersion <- MCFileVersion
    Successors <- MCSuccessors
PROPERTIES
    PendingIsClaimed
    BuiltIsPublished

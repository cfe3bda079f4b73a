SPECIFICATION FairIntake
CONSTANTS
    Packages = {a, l}
    LocalPackages = {l}
    SelfUpdating = {l}
    Revisions = {1, 2}
    Versions = {1, 2}
    NoRevision = NoRevision
    UpdateDelay = 3
    MaxTime = 0
    MaxAdds = 2
    MaxRemovals = 0
    MaxFaults = 1
    MaxPushes = 1
    CommitTime <- MCCommitTime
    FileVersion <- MCFileVersion
    Successors <- MCSuccessors
PROPERTIES
    UpstreamIsRecorded

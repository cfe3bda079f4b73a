SPECIFICATION Spec
CONSTANTS
    Packages = {p}
    LocalPackages = {}
    SelfUpdating = {}
    Revisions = {1, 2, 3}
    Versions = {1, 2}
    NoRevision = NoRevision
    UpdateDelay = 1
    MaxTime = 1
    MaxAdds = 1
    MaxRemovals = 0
    MaxFaults = 2
    MaxPushes = 2
    CommitTime <- MCCommitTime
    FileVersion <- MCFileVersion
    Successors <- MCSuccessors
INVARIANTS
    TypeOK
    BuildHoldsItsJob
    RunningIsOwned
    PublishedIsServed
    MismatchIsUnpublished
PROPERTIES
    FinishedStaysFinished
    RepoNeverRollsBack

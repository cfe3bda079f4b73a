SPECIFICATION FunctionsSpec
CONSTANTS
    Names <- MCNames
    Graphs <- MCGraphs
    Null = Null
    Entities = {"Artifact", "AuditEvent", "Dependency", "Job", "ManagedPackage", "PackageVersion"}
    Packages <- MCPackages
    MountPaths <- MCMountPaths
    MountLists <- MCMountLists
    HostRoots <- MCHostRoots
    ImportRoot <- MCImportRoot
    GivenPaths <- MCGivenPaths
    Uids = {0, 1000}
    Accounts <- MCAccounts
    Directories <- MCDirectories
    Percentages = {0, 4, 5, 10, 333, 1000, 1001}
    CpuCounts = {0, 1, 3, 16}
    ArgumentLists <- MCArgumentLists
    Replies = {"", "y", "no", "end of input"}
    Founds <- MCFounds
    EntryNames <- MCEntryNames
INVARIANTS
    GraphIsAdded
    ParsersAgree
    HostRootIsSeen
    ImportsStayBelow
    UpdaterIsNotRoot
    CapLimits
    CommandIsConfirmed
    EntriesAreRemoved
    SaveIsExact
    StoredIsValid
    QueriesAgree
PROPERTIES
    WalkEnds
CHECK_DEADLOCK FALSE

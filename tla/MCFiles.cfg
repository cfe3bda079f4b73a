SPECIFICATION FilesSpec
CONSTANTS
    FileNames <- MCFileNames
    GitName = ".git"
    PackageNames = {"demo-1-1-any.pkg.tar.zst"}
    Trees <- MCTrees
    Importers = {"cli", "scheduler"}
    MaxAdds = 2
    MaxEdits = 1
    MaxFaults = 2
    Parts = {"demo", "demo-cli"}
    Version <- MCVersion
INVARIANTS
    FilesTypeOK
    SnapshotMatchesDigest
    PublishedIsComplete
    GivenUpIsNotServed
    
CHECK_DEADLOCK FALSE

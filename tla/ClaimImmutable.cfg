SPECIFICATION FilesSpec
CONSTANTS
    FileNames <- MCFileNames
    GitName = ".git"
    PackageNames = {}
    Trees <- MCTrees
    Importers = {"cli", "scheduler"}
    MaxAdds = 2
    MaxEdits = 1
    MaxFaults = 0
    Parts = {"demo"}
    Version <- MCVersion
PROPERTIES
    SnapshotIsImmutable

SPECIFICATION RecordsSpec
CONSTANTS
    Null = Null
    Names = {"demo"}
    Revisions = {"r1", "r2"}
    Files = {"demo", "demo-cli"}
    MaxCalls = 5
    MaxFaults = 1
    Deps <- MCDeps
    Delay <- MCDelay
INVARIANTS
    RowsFit
    NothingDangles
    JobColumnsAgree
    NoClientError
PROPERTIES
    TimesAreKept
CHECK_DEADLOCK FALSE

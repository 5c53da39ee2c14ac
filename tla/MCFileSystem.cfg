SPECIFICATION Spec
CONSTANTS
    LastCluster = 8
    ClusterSize = 2
    DirSize = 3
    Names <- MCNames
    EightThree <- MCEightThree
    MaxFileSize = 3
    Paths <- MCPaths
    Fds = {3}
    InstallSteps <- MCInstallSteps
    Calls <- MCCalls
    MaxCalls = 3
    MaxLosses = 2
INVARIANTS
    ChainsSound
    ContentIntact
    NothingLeaks
    OpenFilesIntact
    SignedDiskHasGpt
PROPERTIES
    BackupFollows
CHECK_DEADLOCK FALSE

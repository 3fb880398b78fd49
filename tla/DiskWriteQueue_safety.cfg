SPECIFICATION FairSpec
CONSTANTS
    Paths = {core, identity}
    MaxQueuedJobs = 3
    MaxSaves = 3
    MaxGeneration = 2
    MaxFaults = 2
    MaxSlowCommits = 1
INVARIANTS
    TypeOK
    NothingLost
    CurrentWorkIsPending
    CommitExclusion
    ReadsAreFresh
    TwoVersionsPerFile
PROPERTIES
    ImplementsDurableFiles
    EventuallyOnDisk

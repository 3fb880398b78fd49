SPECIFICATION FairSpec
CONSTANTS
    Paths = {core}
    MaxQueuedJobs = 2
    MaxSaves = 2
    MaxGeneration = 2
    MaxFaults = 0
    MaxSlowCommits = 1
PROPERTIES
    TimedOutWritesAreRecovered

\* A run in the API process or a worker, a reader, a cancel, a delete, and a broken
\* connection or a restart.
SPECIFICATION FairSpec
CONSTANTS
    Viewers = {v1}
    Modes = {"sync", "queued"}
    Steps = 1
    RecentLimit = 2
    ReplayLimit = 9
    MaxFaults = 1
CHECK_DEADLOCK FALSE
INVARIANTS
    PublisherOrder
    NobodyStranded
    EndIsReplayed
PROPERTIES
    ReadersLearnTheEnd

\* A queued run: its messages are in the worker's memory and in the store, its reader asks
\* the API process.
SPECIFICATION Spec
CONSTANTS
    Viewers = {v1}
    Modes = {"queued"}
    Steps = 1
    RecentLimit = 2
    ReplayLimit = 9
    MaxFaults = 0
CHECK_DEADLOCK FALSE
INVARIANTS
    OverIsReplayed

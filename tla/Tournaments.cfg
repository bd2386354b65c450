\* Two workers, one crash anywhere, one request of a client anywhere.
SPECIFICATION FairSpec
CONSTANTS
    Workers = {w1, w2}
    Configs <- MCConfigs
    Runs <- MCRuns
    Metrics <- MCMetrics
    Spelling <- MCSpelling
    MaxCrashes = 1
    MaxRequests = 1
    Client = client
    NoRun = NoRun
INVARIANTS
    EveryChildLinked
    SettledIsReported
    QuietReportCurrent
    DroppedIsFinal
PROPERTIES
    TournamentSettles

SPECIFICATION FairSpec
CONSTANTS
  Runs = {r1}
  Workers = {w1, w2}
  Priority <- BenchmarkFirst
  r1 = r1
  NoWorker = NoWorker
  NoRun = NoRun
  Benchmarks = {r1}
  Cancelable = {}
  Deletable = {r1}
  Drainable = {w1}
  MaxCrashes = 1
  Overruns = TRUE
INVARIANTS
  RunTypeOK
  CompletedHasResult
  StopsClaiming
PROPERTIES
  ShutdownStops

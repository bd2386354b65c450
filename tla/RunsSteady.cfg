SPECIFICATION FairSpec
CONSTANTS
  Runs = {r1, r2}
  Workers = {w1, w2}
  Priority <- BenchmarkFirst
  r1 = r1
  NoWorker = NoWorker
  NoRun = NoRun
  Benchmarks = {r1}
  Cancelable = {r1}
  Deletable = {}
  Drainable = {}
  MaxCrashes = 1
  Overruns = FALSE
INVARIANTS
  OwnerExecutes
  LeaseIsLock
  OutcomesAgree
PROPERTIES
  BoardSpec
  EveryRunSettles

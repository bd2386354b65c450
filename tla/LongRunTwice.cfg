SPECIFICATION Spec
CONSTANTS
  Runs = {r1}
  Workers = {w1, w2}
  Priority <- BenchmarkFirst
  r1 = r1
  NoWorker = NoWorker
  NoRun = NoRun
  Benchmarks = {}
  Cancelable = {}
  Deletable = {}
  Drainable = {}
  MaxCrashes = 0
  Overruns = TRUE
INVARIANTS
  SingleExecutor

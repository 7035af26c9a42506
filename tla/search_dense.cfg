SPECIFICATION Spec
CONSTANTS
  Layers = 64
  GpuAvailable = TRUE
  MoeCapable = FALSE
  ModelSize = 30
  AvailableVram = 20
  AvailableRam = 16
  Headroom = 2
  PhysicalCores = 2
  LogicalThreads = 4
  Gens = {10, 20, 30}
  Prompts = {100, 200}
  Healthy <- HealthyRuns
  Overflow <- OomOrSpill
  Buffers <- OneLayerPerStep
  Worlds <- AllWorlds
  Possible <- Benchmark
INVARIANTS BestIsTop VerdictMatchesOutcome ConvergesToCeiling BestFits
PROPERTIES KeepsPromise BracketOnlyShrinks

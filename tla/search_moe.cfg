SPECIFICATION Spec
CONSTANTS
  Layers = 16
  GpuAvailable = TRUE
  MoeCapable = TRUE
  ModelSize = 30
  AvailableVram = 20
  AvailableRam = 16
  Headroom = 2
  PhysicalCores = 2
  LogicalThreads = 4
  Gens = {10, 20, 30}
  Prompts = {100, 200}
  Healthy <- HealthyRuns
  Overflow <- AnyOverflow
  Buffers <- OneLayerPerStep
  Worlds <- AllWorlds
  Possible <- Benchmark
INVARIANTS TypeOK BracketOrdered PlacementCoherent ConvergesToCeiling
PROPERTIES BracketOnlyShrinks MoeStageKeepsMargin

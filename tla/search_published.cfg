SPECIFICATION Spec
CONSTANTS
  Layers = 4
  GpuAvailable = TRUE
  MoeCapable = FALSE
  ModelSize = 10
  AvailableVram = 8
  AvailableRam = 8
  Headroom = 2
  PhysicalCores = 2
  LogicalThreads = 4
  Gens = {10, 20, 30}
  Prompts = {100, 200}
  Healthy <- HealthyRuns
  Overflow <- OomOrSpill
  Buffers <- OneLayerPerStep
  Worlds <- NoisyWorld
  Possible <- Benchmark
INVARIANTS PublishesTheTop

--------------------------- MODULE ParameterSpace ---------------------------
(***************************************************************************)
(* The candidate generators of the staged search                           *)
(* (src/src/tuner/parameter_space.cpp) and the scoring and VRAM guards it   *)
(* applies to a measured run (src/src/tuner/scoring.cpp).                   *)
(*                                                                         *)
(* Memory is counted in units of 512 MiB, so that every threshold of the    *)
(* code (0.5, 1, 1.5, 4, 8 and 16 GiB) is a whole number.  Throughputs are  *)
(* whole tokens per second and scores are hundredths of the code's score.  *)
(***************************************************************************)
EXTENDS Integers

CONSTANTS
  Layers,         \* real_layer_count from the GGUF metadata, 0 when unknown
  GpuAvailable,   \* hardware.gpu.available
  MoeCapable,     \* expert_count > 1, MoE tuning on, --n-cpu-moe supported
  ModelSize,      \* model_size_bytes
  AvailableVram,  \* hardware.gpu.available_vram_bytes
  AvailableRam,   \* hardware.memory.available_bytes, 0 when unknown
  Headroom,       \* VRAM headroom in force (option or platform default)
  PhysicalCores,  \* hardware.cpu.physical_cores
  LogicalThreads  \* hardware.cpu.logical_threads

ASSUME ParameterAssumption ==
  /\ Layers \in Nat
  /\ GpuAvailable \in BOOLEAN
  /\ MoeCapable \in BOOLEAN
  /\ ModelSize \in Nat
  /\ AvailableVram \in Nat
  /\ AvailableRam \in Nat
  /\ Headroom \in Nat \ {0}
  /\ PhysicalCores \in Nat
  /\ LogicalThreads \in Nat

-----------------------------------------------------------------------------
(* Configurations (TuneConfig).                                            *)

\* The unset value of TuneConfig's optional n_cpu_moe: the flag is not passed.
Unset == -1

\* The (batch, ubatch) pairs (128,64), (256,128), (512,256), (2048,512), by
\* their place in that list.
Pairs == 1..4

\* max(1, physical_cores), and the logical count that is never below it.
Physical == IF PhysicalCores > 1 THEN PhysicalCores ELSE 1
Logical  == IF LogicalThreads > Physical THEN LogicalThreads ELSE Physical

\* thread_candidates: physical, logical and their midpoint.
ThreadCandidates == {Physical, Logical, Physical + (Logical - Physical) \div 2}

Config == [threads : ThreadCandidates, gpu_layers : 0..Layers, batch : Pairs,
           n_cpu_moe : (0..Layers) \cup {Unset}]

\* The CPU-only first measurement: batch 256, ubatch 128.
BaselineConfig ==
  [threads |-> Physical, gpu_layers |-> 0, batch |-> 2, n_cpu_moe |-> Unset]

-----------------------------------------------------------------------------
(* Candidates of each stage, as sets: every stage walks its set in         *)
(* ascending order, except the expert-placement one, which descends.       *)

Clamp(v) == IF v < 0 THEN 0 ELSE IF v > Layers THEN Layers ELSE v

\* llround(total_layers * pct / 100): halves round up.
Percentile(pct) == Clamp((Layers * pct + 50) \div 100)

Percentiles == {Percentile(pct) : pct \in {0, 25, 50, 75, 100}}

\* The seed at which the weights are expected to fit, when there is one.
FittingSeed ==
  IF ModelSize > 0 /\ AvailableVram > Headroom
    THEN {Clamp(((AvailableVram - Headroom) * Layers) \div ModelSize)}
    ELSE {}

DenseTunable == GpuAvailable /\ Layers > 0

DenseConfig(n) == [BaselineConfig EXCEPT !.gpu_layers = n]

GpuLayersCandidates ==
  IF DenseTunable THEN Percentiles \cup {0, Layers} \cup FittingSeed ELSE {}

MoeTunable == GpuAvailable /\ MoeCapable /\ Layers > 0

NCpuMoeCandidates ==
  IF MoeTunable THEN Percentiles \cup {0, Layers} ELSE {}

\* A MoE candidate sends everything but the experts to the GPU.
MoeConfig(n) == [DenseConfig(Layers) EXCEPT !.n_cpu_moe = n]

\* The pairs a machine with this much RAM tries: below 4, 8 and 16 GiB the
\* larger ones are dropped; 0 means unknown and drops none.
AffordablePairs ==
  {p \in Pairs : \/ AvailableRam = 0
                 \/ p = 1
                 \/ p = 2 /\ AvailableRam >= 8
                 \/ p = 3 /\ AvailableRam >= 16
                 \/ p = 4 /\ AvailableRam >= 32}

BatchCandidates(cfg) == AffordablePairs \ {cfg.batch}

-----------------------------------------------------------------------------
(* Measured runs (BenchmarkResult) and their score.                        *)
(*                                                                         *)
(* status: "ok" is usable(); "oom" is a recognised out-of-memory; "failed" *)
(* is every other unusable run (not started, timed out, crashed, invalid   *)
(* output), which the search does not tell apart.                          *)
(* tight: a valid VRAM sample was taken and left less than Headroom free.  *)

Outcome == [status : {"ok", "oom", "failed"}, gen : Nat, prompt : Nat,
            tight : BOOLEAN]

Result == [cfg : Config, run : Outcome]

Usable(r) == r.run.status = "ok"

\* llama-bench reports no memory use: weights by layer share plus 0.5 GiB.
GpuShare(cfg) ==
  IF Layers > 0 THEN (cfg.gpu_layers * ModelSize) \div Layers ELSE 0

EstimatedVram(cfg) == IF cfg.gpu_layers > 0 THEN GpuShare(cfg) + 1 ELSE 0
EstimatedRam(cfg)  == (ModelSize - GpuShare(cfg)) + 1

\* Weighted pressure penalty: 0 up to 90% of the budget, then quadratic up to
\* 150%, where it is 100 * 0.3 points.
Pressure(estimated, available) ==
  IF available = 0 \/ 10 * estimated <= 9 * available
    THEN 0
    ELSE LET capped == IF 10 * estimated < 15 * available
                         THEN 10 * estimated ELSE 15 * available
             over   == capped - 9 * available
         IN (3000 * over * over) \div (36 * available * available)

\* first_token_latency_ms is 1000 / prompt throughput; its weight is 0.01.
LatencyCost(prompt) == IF prompt > 0 THEN 1000 \div prompt ELSE 0

UnusableScore == -100000

Score(r) ==
  IF ~Usable(r) THEN UnusableScore
  ELSE 200 * r.run.gen + 10 * r.run.prompt - LatencyCost(r.run.prompt)
         - Pressure(EstimatedRam(r.cfg), AvailableRam)
         - Pressure(EstimatedVram(r.cfg), AvailableVram)

\* Mutant: asks for both throughputs to have collapsed.
LooksLikeSpillBoth(candidate, reference) ==
  /\ Usable(candidate) /\ Usable(reference)
  /\ candidate.run.tight
  /\ 10 * candidate.run.gen < 6 * reference.run.gen
  /\ 10 * candidate.run.prompt < 6 * reference.run.prompt

\* looks_like_vram_spill: the card was full and throughput fell below 60% of
\* the reference.  A reference throughput of 0 can never be undercut.
LooksLikeSpill(candidate, reference) ==
  /\ Usable(candidate) /\ Usable(reference)
  /\ candidate.run.tight
  /\ \/ 10 * candidate.run.gen < 6 * reference.run.gen
     \/ 10 * candidate.run.prompt < 6 * reference.run.prompt

ExceedsHeadroom(r) == r.run.tight
=============================================================================

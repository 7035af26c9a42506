------------------------ MODULE MCStagedSearch_proofs ------------------------
(***************************************************************************)
(* The search on a machine whose VRAM has a ceiling and whose spills are    *)
(* recognisable, proved for every ceiling, model and hardware, and any      *)
(* speeds: it never settles for a configuration past the ceiling, and,      *)
(* where four probes reach, finds the ceiling exactly.                      *)
(***************************************************************************)
EXTENDS MCStagedSearch, StagedSearch_proofs

-----------------------------------------------------------------------------
(* The machines with a ceiling.                                            *)

\* A run that fits, and one past the ceiling: it fails, or, on a machine whose
\* spills are recognisable, is slower than all that fit.
Fits(r) ==
  /\ Usable(r) /\ ~r.run.tight
  /\ r.run \in Healthy
  /\ Demand(r.cfg) <= world
Overflows(r) ==
  Usable(r) => /\ r.run.tight
               /\ \A healthy \in Healthy :
                    \/ 10 * r.run.gen < 6 * healthy.gen
                    \/ 10 * r.run.prompt < 6 * healthy.prompt

\* Nothing past the ceiling is ever promoted: whatever a run is judged against
\* fits, from the first value of each sweep on, which asks for no VRAM.
FitInv ==
  /\ Demand(best.cfg) <= world /\ Demand(outcome.best.cfg) <= world
  /\ pc \notin {"baseline", "done"} => Fits(best)
  /\ lastGood >= 0 => Fits(lastGoodResult)
  /\ pc = "dense" => /\ 0 \in todo \/ lastGood >= 0
                     /\ bad >= 0 => world < bad
  /\ pc = "baseline" => lastGood = -1 /\ bad = -1

-----------------------------------------------------------------------------
\* Overflows that show as failures which say nothing of memory.
Inconclusive == \E o \in Overflow : o.status = "failed"

\* What four probes reach: a sweep leaves at most 16 values between its ends if
\* failures that say nothing of memory do not keep it from finding one, or if
\* there are no more values.
WithinReach ==
  /\ DenseTunable
  /\ IF MoeTunable THEN Layers <= 16 \/ (Layers <= 64 /\ ~Inconclusive)
                   ELSE Layers <= 64 /\ ~Inconclusive

\* The gap left after a number of probes.
Gap(k) == IF k = 0 THEN 16 ELSE IF k = 1 THEN 8 ELSE IF k = 2 THEN 4 ELSE IF k = 3 THEN 2 ELSE 1

\* The least value of n_cpu_moe that fits.
Floor == Layers - world

\* The dense sweep has its ends next to the ceiling, as far as it has come, and
\* the bisection halves what lies between them.
DenseInv ==
  pc = "dense" =>
    /\ ~MoeTunable
    /\ lastGood <= world
    /\ \A c \in GpuLayersCandidates \ todo :
         /\ c <= world => c <= lastGood
         /\ c > world => bad >= 0 /\ bad <= c
    /\ probes > 0 => todo = {} /\ bad - lastGood <= Gap(probes)

\* So does the sweep over the experts; failures that say nothing of memory are
\* remembered, and give the lower end if there is no other.
MoeInv ==
  /\ pc = "moe" =>
       /\ MoeTunable
       /\ lastGood >= 0 => Floor <= lastGood
       /\ bad < Floor \/ bad = -1
       /\ lowestFailed < Floor \/ lowestFailed = -1
       /\ ~Inconclusive => lowestFailed = -1
       /\ \A c \in NCpuMoeCandidates \ todo :
            /\ c >= Floor => lastGood >= 0 /\ lastGood <= c
            /\ c < Floor => \/ bad >= 0 /\ c <= bad
                            \/ lowestFailed >= 0
       /\ probes = 0
  /\ pc = "moeRefine" =>
       /\ MoeTunable
       /\ lastGood >= 0 /\ Floor <= lastGood
       /\ bad < Floor \/ bad = -1
       /\ IF Floor = 0 THEN lastGood = 0 ELSE bad >= 0
       /\ bad >= 0 => lastGood - bad <= Gap(probes)

ReachInv ==
  /\ pc = "baseline" => lastGood = -1 /\ bad = -1 /\ lowestFailed = -1 /\ probes = 0
  /\ DenseInv
  /\ MoeInv
  /\ pc = "offloaded" => lastGood = IF MoeTunable THEN Floor ELSE world

-----------------------------------------------------------------------------
LEMMA Ceiling ==
  ASSUME world \in Worlds, world # Noise
  PROVE  world \in 0..Layers /\ Layers \in Nat
BY MachineAssumption, ParameterAssumption DEF AllWorlds

\* A demand is a number.
LEMMA DemandIsNumber ==
  ASSUME NEW cfg \in Config
  PROVE  Demand(cfg) \in Int
<1>1. Buffers[cfg.batch] \in Int
  BY MachineAssumption DEF Config
<1> QED  BY <1>1, ParameterAssumption DEF Demand, Config, Unset

\* What the search may see of a configuration.
LEMMA RunsOnCeiling ==
  ASSUME Recognisable, world \in Worlds, world # Noise, NEW cfg \in Config, NEW r \in Runs(cfg)
  PROVE  /\ r \in Result /\ r.cfg = cfg
         /\ Demand(cfg) <= world => Fits(r)
         /\ ~(Demand(cfg) <= world) =>
              /\ Overflows(r)
              /\ r.run.status = "failed" => Inconclusive
<1>1. r \in Result /\ r.cfg = cfg
  BY RunsAreResults
<1>2. r.run \in CeilingPossible(world, cfg)
  BY MachineAssumption DEF Runs, Benchmark
<1>3. ASSUME Demand(cfg) <= world PROVE Fits(r)
  <2>1. r.run \in Healthy
    BY <1>2, <1>3 DEF CeilingPossible
  <2>2. r.run.status = "ok" /\ ~r.run.tight
    BY <2>1, MachineAssumption
  <2> QED  BY <1>1, <1>3, <2>1, <2>2 DEF Fits, Usable
<1>4. ASSUME ~(Demand(cfg) <= world)
      PROVE  Overflows(r) /\ (r.run.status = "failed" => Inconclusive)
  <2>1. r.run \in Overflow
    BY <1>2, <1>4 DEF CeilingPossible
  <2>2. Overflows(r)
    BY <2>1 DEF Recognisable, Overflows, Usable
  <2> QED  BY <2>1, <2>2 DEF Inconclusive
<1> QED  BY <1>1, <1>3, <1>4

\* A spill is told from a run that fits by its speed and the full card.
LEMMA SpillsAreSeen ==
  ASSUME NEW reference, Fits(reference), NEW r, Overflows(r), Usable(r)
  PROVE  LooksLikeSpill(r, reference) /\ ExceedsHeadroom(r)
BY DEF Fits, Overflows, LooksLikeSpill, ExceedsHeadroom

LEMMA FitsIsNoSpill ==
  ASSUME NEW r, Fits(r)
  PROVE  /\ Usable(r) /\ r.run.status = "ok" /\ ~ExceedsHeadroom(r)
         /\ \A reference : ~LooksLikeSpill(r, reference)
BY DEF Fits, LooksLikeSpill, ExceedsHeadroom, Usable

\* How much VRAM each stage's configurations ask for.
LEMMA Demands ==
  /\ Demand(BaselineConfig) = 0
  /\ \A n \in 0..Layers : Demand(DenseConfig(n)) = n /\ Demand(MoeConfig(n)) = Layers - n
<1>1. Demand(BaselineConfig) = 0
  BY MachineAssumption DEF Demand, BaselineConfig, Unset
<1>2. ASSUME NEW n \in 0..Layers
      PROVE  Demand(DenseConfig(n)) = n /\ Demand(MoeConfig(n)) = Layers - n
  <2>1. DenseConfig(n) = [threads |-> Physical, gpu_layers |-> n, batch |-> 2,
                          n_cpu_moe |-> Unset]
    BY DEF DenseConfig, BaselineConfig
  <2>2. MoeConfig(n).n_cpu_moe = n /\ MoeConfig(n).batch = 2
    BY DEF MoeConfig, DenseConfig, BaselineConfig
  <2>3. Buffers[2] = 0
    BY MachineAssumption DEF BaselineConfig
  <2>4. Layers - n \in Int
    BY ParameterAssumption
  <2> QED  BY <2>1, <2>2, <2>3, <2>4 DEF Demand, Unset
<1> QED  BY <1>1, <1>2

-----------------------------------------------------------------------------
LEMMA WorldStays == [Next]_vars => world' = world
BY DEF Next, vars, Unreadable, Baseline, DenseProbe, DenseSkip, DenseRefine, DenseDone, MoeProbe,
       MoeSkip, MoeSwept, MoeRefine, MoeDone, BatchStart, BatchProbe, ThreadStart, ThreadProbe,
       ThreadSkip, Publish, Recheck, Finish, Returned

LEMMA FitInitial == Init /\ world # Noise => FitInv
BY Demands, MachineAssumption, ParameterAssumption, NoResultOK
   DEF Init, FitInv, NoResult, AllWorlds, Noise

\* What the steps of the two sweeps and their refinements have in common: a
\* value that fits may be promoted, one that does not is never.
Sweeps(r) ==
  /\ \/ Fits(r) /\ best' \in {best, r} /\ lastGoodResult' = r
     \/ UNCHANGED <<best, lastGood, lastGoodResult>>
  /\ UNCHANGED <<base, outcome>>
  /\ pc \notin {"baseline", "done"} /\ pc' = pc

LEMMA SweepsFit ==
  ASSUME FitInv, world' = world, NEW r, Sweeps(r),
         pc = "dense" => /\ 0 \in todo' \/ lastGood' >= 0
                         /\ bad' >= 0 => world < bad'
  PROVE  FitInv'
<1>1. pc \notin {"batch", "threads"} => pc' \notin {"batch", "threads"}
  BY DEF Sweeps
<1>2. CASE Fits(r) /\ best' \in {best, r} /\ lastGoodResult' = r
  BY <1>2 DEF Sweeps, FitInv, Fits
<1>3. CASE UNCHANGED <<best, lastGood, lastGoodResult>>
  BY <1>3 DEF Sweeps, FitInv, Fits
<1> QED  BY <1>2, <1>3 DEF Sweeps

\* The first value of the dense sweep is 0.
LEMMA DenseProbeFits ==
  ASSUME TypeOK, FitInv, Recognisable, world # Noise, NEW n \in todo, DenseProbe(n)
  PROVE  /\ \E r \in Runs(DenseConfig(n)) :
              /\ Sweeps(r)
              /\ n <= world => Promote(n, r)
              /\ n > world => \/ Boundary(n)
                              \/ Inconclusive /\ UNCHANGED <<bracket, best, kept>>
         /\ 0 \in todo' \/ lastGood' >= 0
<1>1. /\ pc = "dense" /\ n \in 0..Layers /\ \A x \in todo : n <= x
      /\ todo' = todo \ {n} /\ world \in 0..Layers
  BY Ceiling DEF DenseProbe, Least, TypeOK, AxisOf
<1>2. PICK r \in Runs(DenseConfig(n)) :
        \/ DenseRejects(r) /\ Boundary(n)
        \/ Usable(r) /\ ~DenseRejects(r) /\ Promote(n, r)
        \/ r.run.status = "failed" /\ UNCHANGED <<bracket, best, kept>>
  BY DEF DenseProbe
<1>3. /\ DenseConfig(n) \in Config /\ Demand(DenseConfig(n)) = n
      /\ world \in Worlds
  BY <1>1, ConfigsWellFormed, Demands DEF TypeOK
<1>4. CASE n <= world
  <2>1. Fits(r)
    BY <1>3, <1>4, RunsOnCeiling
  <2>2. Promote(n, r)
    BY <1>2, <2>1, FitsIsNoSpill DEF DenseRejects
  <2>3. Sweeps(r) /\ lastGood' = n
    BY <1>1, <2>1, <2>2 DEF Sweeps, Promote, Better, DenseProbe
  <2> QED  BY <1>1, <1>4, <2>2, <2>3
<1>5. CASE n > world
  <2>1. Overflows(r) /\ (r.run.status = "failed" => Inconclusive)
    BY <1>1, <1>3, <1>5, RunsOnCeiling
  <2>2. n # 0 /\ (lastGood >= 0 \/ 0 \in todo)
    BY <1>1, <1>5 DEF FitInv
  <2>3. lastGood >= 0
    BY <1>1, <2>2
  <2>4. ~(Usable(r) /\ ~DenseRejects(r))
    BY <2>1, <2>3, SpillsAreSeen DEF FitInv, DenseRejects
  <2>5. Boundary(n) \/ (Inconclusive /\ UNCHANGED <<bracket, best, kept>>)
    BY <1>2, <2>1, <2>4
  <2>6. UNCHANGED <<best, lastGood, lastGoodResult>>
    BY <2>5 DEF Boundary, bracket
  <2>7. Sweeps(r)
    BY <1>1, <2>6 DEF Sweeps, DenseProbe
  <2> QED  BY <1>1, <1>5, <2>3, <2>5, <2>6, <2>7
<1> QED  BY <1>1, <1>4, <1>5

LEMMA DenseRefineFits ==
  ASSUME TypeOK, FitInv, Recognisable, world # Noise, DenseRefine
  PROVE  \E r \in Runs(DenseConfig(DenseMidpoint)) :
           /\ Sweeps(r)
           /\ DenseMidpoint <= world => Promote(DenseMidpoint, r)
           /\ DenseMidpoint > world => Boundary(DenseMidpoint)
<1> DEFINE n == DenseMidpoint
<1>1. /\ pc = "dense" /\ n \in 0..Layers /\ lastGood >= 0 /\ world \in 0..Layers
      /\ world \in Worlds
  BY Ceiling, MidpointsInRange DEF DenseRefine, DenseRefinable, TypeOK
<1> HIDE DEF n
<1>2. PICK r \in Runs(DenseConfig(n)) :
        \/ DenseRejects(r) /\ Boundary(n)
        \/ Usable(r) /\ ~DenseRejects(r) /\ Promote(n, r)
        \/ r.run.status = "failed" /\ Boundary(n)
  BY DEF DenseRefine, n
<1>3. DenseConfig(n) \in Config /\ Demand(DenseConfig(n)) = n
  BY <1>1, ConfigsWellFormed, Demands
<1>4. CASE n <= world
  <2>1. Fits(r)
    BY <1>1, <1>3, <1>4, RunsOnCeiling
  <2>2. Promote(n, r)
    BY <1>2, <2>1, FitsIsNoSpill DEF DenseRejects
  <2>3. Sweeps(r)
    BY <1>1, <2>1, <2>2 DEF Sweeps, Promote, Better, DenseRefine
  <2> QED  BY <1>1, <1>4, <2>2, <2>3 DEF n
<1>5. CASE n > world
  <2>1. Overflows(r)
    BY <1>1, <1>3, <1>5, RunsOnCeiling
  <2>2. ~(Usable(r) /\ ~DenseRejects(r))
    BY <1>1, <2>1, SpillsAreSeen DEF FitInv, DenseRejects
  <2>3. Boundary(n)
    BY <1>2, <2>2
  <2>4. Sweeps(r)
    BY <1>1, <2>3 DEF Sweeps, Boundary, DenseRefine
  <2> QED  BY <1>1, <1>5, <2>3, <2>4 DEF n
<1> QED  BY <1>1, <1>4, <1>5

LEMMA MoeProbeFits ==
  ASSUME TypeOK, FitInv, Recognisable, world # Noise, NEW n \in todo, MoeProbe(n)
  PROVE  \E r \in Runs(MoeConfig(n)) :
           /\ Sweeps(r)
           /\ Floor <= n => Promote(n, r)
           /\ n < Floor => Boundary(n) \/ (Inconclusive /\ Remember(n))
<1>1. /\ pc = "moe" /\ n \in 0..Layers /\ world \in 0..Layers /\ world \in Worlds
      /\ Layers \in Nat
  BY Ceiling DEF MoeProbe, TypeOK, AxisOf
<1>2. PICK r \in Runs(MoeConfig(n)) :
        \/ (r.run.status = "oom" \/ MoeRejects(r)) /\ Boundary(n)
        \/ Usable(r) /\ ~MoeRejects(r) /\ Promote(n, r)
        \/ r.run.status = "failed" /\ Remember(n)
  BY DEF MoeProbe
<1>3. MoeConfig(n) \in Config /\ Demand(MoeConfig(n)) = Layers - n
  BY <1>1, ConfigsWellFormed, Demands
<1>4. CASE Floor <= n
  <2>1. Fits(r)
    BY <1>1, <1>3, <1>4, RunsOnCeiling DEF Floor
  <2>2. Promote(n, r)
    BY <1>2, <2>1, FitsIsNoSpill DEF MoeRejects, LacksMargin
  <2>3. Sweeps(r)
    BY <1>1, <2>1, <2>2 DEF Sweeps, Promote, Better, MoeProbe
  <2> QED  BY <1>1, <1>4, <2>2, <2>3 DEF Floor
<1>5. CASE n < Floor
  <2>1. Overflows(r) /\ (r.run.status = "failed" => Inconclusive)
    BY <1>1, <1>3, <1>5, RunsOnCeiling DEF Floor
  <2>2. Fits(best)
    BY <1>1 DEF FitInv
  <2>3. ~(Usable(r) /\ ~MoeRejects(r))
    BY <2>1, <2>2, SpillsAreSeen, FitsIsNoSpill DEF MoeRejects, LacksMargin
  <2>4. Boundary(n) \/ (Inconclusive /\ Remember(n))
    BY <1>2, <2>1, <2>3
  <2>5. Sweeps(r)
    BY <1>1, <2>4 DEF Sweeps, Boundary, Remember, MoeProbe
  <2> QED  BY <1>1, <1>5, <2>4, <2>5 DEF Floor
<1> QED  BY <1>1, <1>4, <1>5 DEF Floor

LEMMA MoeRefineFits ==
  ASSUME TypeOK, FitInv, Recognisable, world # Noise, MoeRefine
  PROVE  \E r \in Runs(MoeConfig(MoeMidpoint)) :
           /\ Sweeps(r)
           /\ Floor <= MoeMidpoint => Promote(MoeMidpoint, r)
           /\ MoeMidpoint < Floor => Boundary(MoeMidpoint)
<1> DEFINE n == MoeMidpoint
<1>1. /\ pc = "moeRefine" /\ n \in 0..Layers /\ world \in 0..Layers /\ world \in Worlds
      /\ Layers \in Nat
  BY Ceiling, MidpointsInRange DEF MoeRefine, TypeOK
<1> HIDE DEF n
<1>2. PICK r \in Runs(MoeConfig(n)) :
        \/ (~Usable(r) \/ MoeRejects(r)) /\ Boundary(n)
        \/ Usable(r) /\ ~MoeRejects(r) /\ Promote(n, r)
  BY DEF MoeRefine, n
<1>3. MoeConfig(n) \in Config /\ Demand(MoeConfig(n)) = Layers - n
  BY <1>1, ConfigsWellFormed, Demands
<1>4. CASE Floor <= n
  <2>1. Fits(r)
    BY <1>1, <1>3, <1>4, RunsOnCeiling DEF Floor
  <2>2. Promote(n, r)
    BY <1>2, <2>1, FitsIsNoSpill DEF MoeRejects, LacksMargin
  <2>3. Sweeps(r)
    BY <1>1, <2>1, <2>2 DEF Sweeps, Promote, Better, MoeRefine
  <2> QED  BY <1>1, <1>4, <2>2, <2>3 DEF n, Floor
<1>5. CASE n < Floor
  <2>1. Overflows(r)
    BY <1>1, <1>3, <1>5, RunsOnCeiling DEF Floor
  <2>2. Fits(best)
    BY <1>1 DEF FitInv
  <2>3. ~(Usable(r) /\ ~MoeRejects(r))
    BY <2>1, <2>2, SpillsAreSeen, FitsIsNoSpill DEF MoeRejects, LacksMargin
  <2>4. Boundary(n)
    BY <1>2, <2>3
  <2>5. Sweeps(r)
    BY <1>1, <2>4 DEF Sweeps, Boundary, MoeRefine
  <2> QED  BY <1>1, <1>5, <2>4, <2>5 DEF n, Floor
<1> QED  BY <1>1, <1>4, <1>5 DEF Floor

\* A trial is promoted only if it fits.
LEMMA TrialFits ==
  ASSUME TypeOK, Recognisable, world # Noise, Fits(best), NEW cfg \in Config, Trial(cfg)
  PROVE  best' = best \/ \E r : Fits(r) /\ best' = r
<1>1. PICK r \in Runs(cfg) :
        \/ LooksLikeSpill(r, best) /\ best' = best
        \/ ~LooksLikeSpill(r, best) /\ best' = Better(r)
  BY DEF Trial
<1>2. world \in Worlds
  BY DEF TypeOK
<1>3. CASE Demand(cfg) <= world
  <2>1. Fits(r)
    BY <1>2, <1>3, RunsOnCeiling
  <2> QED  BY <1>1, <2>1 DEF Better
<1>4. CASE ~(Demand(cfg) <= world)
  <2>1. Overflows(r)
    BY <1>2, <1>4, RunsOnCeiling
  <2>2. CASE Usable(r)
    BY <1>1, <2>1, <2>2, SpillsAreSeen
  <2>3. CASE ~Usable(r)
    <3>1. r \in Result /\ best \in Result
      BY <1>2, RunsOnCeiling DEF TypeOK
    <3>2. Score(r) = UnusableScore /\ Score(best) > UnusableScore
      BY <2>3, <3>1, ScoreBound DEF Fits
    <3>3. Score(best) \in Int
      BY <3>1, ScoreBound
    <3>4. Better(r) = best
      BY <3>2, <3>3 DEF Better, UnusableScore
    <3> QED  BY <1>1, <3>4
  <2> QED  BY <2>2, <2>3
<1> QED  BY <1>3, <1>4

LEMMA FitNext ==
  ASSUME TypeOK, FitInv, Recognisable, world # Noise, [Next]_vars
  PROVE  FitInv'
<1>1. world' = world /\ world \in Worlds /\ world \in 0..Layers /\ Layers \in Nat
  BY WorldStays, Ceiling DEF TypeOK
<1>2. CASE Baseline
  <2>1. PICK r \in Runs(BaselineConfig) : best' = r
    BY <1>2 DEF Baseline
  <2>2. Fits(r)
    BY <1>1, ConfigsWellFormed, Demands, RunsOnCeiling
  <2>3. /\ pc' \in {"moe", "dense", "offloaded"} /\ (pc' = "dense" => todo' = GpuLayersCandidates)
        /\ pc' = "dense" => DenseTunable
        /\ lastGood' = -1 /\ bad' = bad /\ outcome' = outcome
    BY <1>2 DEF Baseline, bracket, FitInv
  <2>4. pc' = "dense" => 0 \in todo' /\ bad' = -1
    BY <1>2, <2>3 DEF GpuLayersCandidates, FitInv, Baseline
  <2> QED  BY <1>1, <2>1, <2>2, <2>3, <2>4 DEF FitInv, Fits
<1>3. ASSUME NEW n \in todo, DenseProbe(n) PROVE FitInv'
  <2>1. PICK r \in Runs(DenseConfig(n)) :
          /\ Sweeps(r)
          /\ n <= world => Promote(n, r)
          /\ n > world => \/ Boundary(n)
                          \/ Inconclusive /\ UNCHANGED <<bracket, best, kept>>
    BY <1>3, DenseProbeFits
  <2>2. 0 \in todo' \/ lastGood' >= 0
    BY <1>3, DenseProbeFits
  <2>3. pc = "dense" /\ n \in 0..Layers
    BY <1>3 DEF DenseProbe, TypeOK, AxisOf
  <2>4. bad' >= 0 => world < bad'
    BY <1>1, <2>1, <2>3 DEF Promote, Boundary, bracket, FitInv
  <2> QED  BY <1>1, <2>1, <2>2, <2>3, <2>4, SweepsFit
<1>4. ASSUME NEW n \in todo, DenseSkip(n) PROVE FitInv'
  <2>1. n # 0
    BY <1>1, <1>4 DEF DenseSkip, BeyondOom, FitInv, TypeOK, Axis
  <2> QED  BY <1>1, <1>4, <2>1 DEF DenseSkip, bracket, FitInv, Fits
<1>5. CASE DenseRefine
  <2>1. PICK r \in Runs(DenseConfig(DenseMidpoint)) :
          /\ Sweeps(r)
          /\ DenseMidpoint <= world => Promote(DenseMidpoint, r)
          /\ DenseMidpoint > world => Boundary(DenseMidpoint)
    BY <1>5, DenseRefineFits
  <2>2. pc = "dense" /\ DenseMidpoint \in 0..Layers /\ lastGood >= 0
    BY <1>5, MidpointsInRange DEF DenseRefine, DenseRefinable
  <2>3. lastGood' >= 0 /\ (bad' >= 0 => world < bad')
    BY <1>1, <2>1, <2>2 DEF Promote, Boundary, FitInv
  <2> QED  BY <1>1, <2>1, <2>2, <2>3, SweepsFit
<1>6. ASSUME NEW n \in todo, MoeProbe(n) PROVE FitInv'
  <2>1. pc = "moe"
    BY <1>6 DEF MoeProbe
  <2> QED  BY <1>1, <1>6, <2>1, MoeProbeFits, SweepsFit
<1>7. CASE MoeRefine
  <2>1. pc = "moeRefine"
    BY <1>7 DEF MoeRefine
  <2> QED  BY <1>1, <1>7, <2>1, MoeRefineFits, SweepsFit
<1>8. ASSUME NEW n \in todo, MoeSkip(n) PROVE FitInv'
  BY <1>1, <1>8 DEF MoeSkip, bracket, FitInv, Fits
<1>9. CASE DenseDone \/ MoeSwept \/ MoeDone \/ Unreadable
  BY <1>1, <1>9 DEF DenseDone, MoeSwept, MoeDone, Unreadable, bracket, FitInv, Fits
<1>10. CASE BatchStart \/ ThreadStart
  BY <1>1, <1>10 DEF BatchStart, ThreadStart, LeaveOffload, bracket, FitInv, Fits
<1>11. ASSUME NEW cfg \in Config, Trial(cfg),
              UNCHANGED <<pc, base, bracket, outcome>>, pc \in {"batch", "threads"}
       PROVE  FitInv'
  <2>1. Fits(best)
    BY <1>11 DEF FitInv
  <2>2. best' = best \/ \E r : Fits(r) /\ best' = r
    BY <1>11, <2>1, TrialFits
  <2>3. Fits(best)'
    BY <1>1, <2>1, <2>2 DEF Fits
  <2> QED  BY <1>1, <1>11, <2>3 DEF bracket, FitInv, Fits
<1>12. ASSUME NEW p \in todo, BatchProbe(p) PROVE FitInv'
  <2>1. base \in Config /\ p \in Pairs /\ pc = "batch"
    BY <1>12 DEF BatchProbe, TypeOK, AxisOf
  <2>2. [base EXCEPT !.batch = p] \in Config
    BY <2>1 DEF Config
  <2> QED  BY <1>11, <1>12, <2>1, <2>2 DEF BatchProbe
<1>13. ASSUME NEW t \in todo, ThreadProbe(t) PROVE FitInv'
  <2>1. base \in Config /\ t \in ThreadCandidates /\ pc = "threads"
    BY <1>13 DEF ThreadProbe, TypeOK, AxisOf
  <2>2. [base EXCEPT !.threads = t] \in Config
    BY <2>1 DEF Config
  <2> QED  BY <1>11, <1>13, <2>1, <2>2 DEF ThreadProbe
<1>14. ASSUME NEW t \in todo, ThreadSkip(t) PROVE FitInv'
  BY <1>1, <1>14 DEF ThreadSkip, bracket, FitInv, Fits
<1>15. CASE Publish
  BY <1>1, <1>15 DEF Publish, bracket, FitInv, Fits, TypeOK
<1>16. ASSUME NEW v \in todo, Recheck(v) PROVE FitInv'
  <2>1. pc = "recheck" /\ v \in 0..Layers /\ UNCHANGED <<pc, base, bracket, outcome>>
    BY <1>16 DEF Recheck, TypeOK, AxisOf
  <2>2. Fits(best) /\ best.cfg \in Config
    BY <2>1 DEF FitInv, TypeOK, Result
  <2>3. RecheckConfig(v) \in Config
    BY <2>1, <2>2 DEF RecheckConfig, Config
  <2>4. PICK r \in Runs(RecheckConfig(v)) :
          \/ UNCHANGED best
          \/ ~RecheckRejects(r) /\ best' = IF Usable(r) THEN Better(r) ELSE best
    BY <1>16 DEF Recheck
  <2>5. best' = best \/ (Fits(r) /\ best' = r)
    <3>1. CASE Demand(RecheckConfig(v)) <= world
      <4>1. Fits(r)
        BY <1>1, <2>3, <3>1, RunsOnCeiling
      <4> QED  BY <2>4, <4>1 DEF Better
    <3>2. CASE ~(Demand(RecheckConfig(v)) <= world)
      <4>1. Overflows(r)
        BY <1>1, <2>3, <3>2, RunsOnCeiling
      <4>2. RecheckRejects(r) \/ ~Usable(r)
        BY <2>2, <4>1, SpillsAreSeen DEF RecheckRejects
      <4> QED  BY <2>4, <4>2
    <3> QED  BY <3>1, <3>2
  <2>6. CASE best' = best
    BY <1>1, <2>1, <2>6 DEF bracket, FitInv, Fits
  <2>7. CASE Fits(r) /\ best' = r
    BY <1>1, <2>1, <2>7 DEF bracket, FitInv, Fits
  <2> QED  BY <2>5, <2>6, <2>7
<1>17. CASE Finish
  BY <1>1, <1>17 DEF Finish, bracket, FitInv, Fits, TypeOK
<1>18. CASE UNCHANGED vars
  BY <1>18 DEF vars, FitInv, Fits
<1> QED
  BY <1>2, <1>3, <1>4, <1>5, <1>6, <1>7, <1>8, <1>9, <1>10, <1>12, <1>13, <1>14, <1>15, <1>16,
     <1>17, <1>18 DEF Next, Returned

\* On a machine whose VRAM has a ceiling and whose spills are recognisable, the
\* search never settles for a configuration past it and never publishes one,
\* whatever the speeds, a spill that scores higher than all that fits included,
\* at every stage and under any batch (tuner.cpp:312-325, 523-532 and 601-612).
\* Without the hypothesis it may: README.md:515-520.
THEOREM BestAlwaysFits ==
  ASSUME Recognisable
  PROVE  Spec => []BestFits
<1> DEFINE Fit == world # Noise => FitInv
<1>1. Init => Fit
  BY FitInitial
<1>2. TypeOK /\ Fit /\ [Next]_vars => Fit'
  <2> SUFFICES ASSUME TypeOK, Fit, [Next]_vars, world' # Noise PROVE FitInv'
    OBVIOUS
  <2> QED  BY WorldStays, FitNext
<1>3. Fit => BestFits
  BY DEF FitInv, BestFits
<1> HIDE DEF Fit
<1> QED  BY TypeCorrect, <1>1, <1>2, <1>3, PTL DEF Spec

-----------------------------------------------------------------------------
(* Where four probes reach, the offload stage finds the ceiling.           *)

\* The percentiles leave at most 16 values between two of them, on a model of
\* at most 64 layers.
LEMMA PercentilesAreDense ==
  ASSUME Layers <= 64, NEW x \in 0..(Layers - 1)
  PROVE  \E p, q \in Percentiles : p <= x /\ x < q /\ q - p <= 16
<1> DEFINE P(pct) == (Layers * pct + 50) \div 100
<1>1. Layers \in 1..64
  BY ParameterAssumption
<1>2. P(0) = 0 /\ P(100) = Layers
  <2>1. 50 \div 100 = 0 /\ (Layers * 100 + 50) \div 100 = Layers
    BY <1>1
  <2> QED  BY <1>1, <2>1
<1>3. /\ P(25) \in 0..Layers /\ P(50) \in 0..Layers /\ P(75) \in 0..Layers
      /\ P(25) <= 16 /\ P(50) - P(25) <= 16 /\ P(75) - P(50) <= 16 /\ Layers - P(75) <= 16
  BY <1>1
<1>4. \A pct \in {0, 25, 50, 75, 100} : Percentile(pct) = P(pct)
  BY <1>1, <1>2, <1>3 DEF Percentile, Clamp
<1>5. \A pct \in {0, 25, 50, 75, 100} : P(pct) \in Percentiles
  BY <1>4 DEF Percentiles
<1> HIDE DEF P
<1>6. CASE x < P(25)
  BY <1>1, <1>2, <1>3, <1>5, <1>6
<1>7. CASE P(25) <= x /\ x < P(50)
  BY <1>1, <1>3, <1>5, <1>7
<1>8. CASE P(50) <= x /\ x < P(75)
  BY <1>1, <1>3, <1>5, <1>8
<1>9. CASE P(75) <= x
  BY <1>1, <1>2, <1>3, <1>5, <1>9
<1> QED  BY <1>1, <1>3, <1>6, <1>7, <1>8, <1>9

\* A probe halves the gap, rounded up on the lower side.
LEMMA GapHalves ==
  ASSUME NEW k \in 0..3, NEW gap \in Nat, gap > 1, gap <= Gap(k)
  PROVE  gap \div 2 <= Gap(k + 1) /\ gap - gap \div 2 <= Gap(k + 1)
BY DEF Gap

LEMMA GapsAreNumbers ==
  \A k \in 0..4 : Gap(k) \in 1..16
BY DEF Gap

\* The midpoint splits the gap into its half and the rest.
LEMMA MidpointsHalve ==
  ASSUME TypeOK
  PROVE  /\ DenseRefinable => /\ DenseMidpoint - lastGood = (bad - lastGood) \div 2
                              /\ bad - DenseMidpoint = (bad - lastGood) - (bad - lastGood) \div 2
                              /\ bad - lastGood \in Nat /\ bad - lastGood > 1
         /\ MoeRefinable   => /\ MoeMidpoint - bad = (lastGood - bad) \div 2
                              /\ lastGood - MoeMidpoint = (lastGood - bad) - (lastGood - bad) \div 2
                              /\ lastGood - bad \in Nat /\ lastGood - bad > 1
BY ParameterAssumption
   DEF TypeOK, Axis, DenseRefinable, DenseMidpoint, MoeRefinable, MoeMidpoint

\* When the dense sweep has visited every candidate, its ends are next to the
\* ceiling.
LEMMA DenseSwept ==
  ASSUME TypeOK, FitInv, ReachInv, WithinReach, world # Noise, pc = "dense", todo = {}
  PROVE  /\ lastGood \in 0..world
         /\ bad < 0 => lastGood = world
         /\ bad >= 0 => world < bad /\ bad - lastGood <= Gap(probes)
<1>1. /\ world \in 0..Layers /\ Layers \in Nat /\ lastGood \in -1..Layers /\ bad \in -1..Layers
      /\ probes \in 0..4 /\ DenseTunable /\ Layers <= 64
  BY Ceiling DEF TypeOK, Axis, MaxRefinementProbes, WithinReach, ReachInv, DenseInv
<1>2. lastGood \in 0..world /\ (bad >= 0 => world < bad)
  BY <1>1 DEF FitInv, ReachInv, DenseInv
<1>3. \A c \in GpuLayersCandidates : /\ c <= world => c <= lastGood
                                     /\ c > world => bad >= 0 /\ bad <= c
  BY DEF ReachInv, DenseInv
<1>4. Percentiles \subseteq GpuLayersCandidates /\ Layers \in GpuLayersCandidates
  BY <1>1 DEF GpuLayersCandidates
<1>5. bad < 0 => lastGood = world
  BY <1>1, <1>2, <1>3, <1>4
<1>6. ASSUME bad >= 0 PROVE bad - lastGood <= Gap(probes)
  <2>1. CASE probes > 0
    BY <2>1 DEF ReachInv, DenseInv
  <2>2. CASE probes = 0
    <3>1. world \in 0..(Layers - 1)
      BY <1>1, <1>2, <1>6
    <3>2. PICK p, q \in Percentiles : p <= world /\ world < q /\ q - p <= 16
      BY <1>1, <3>1, PercentilesAreDense
    <3>3. p \in 0..Layers /\ q \in 0..Layers
      BY <1>4, CandidatesInRange
    <3>4. p <= lastGood /\ bad <= q
      BY <1>1, <1>3, <1>4, <3>2, <3>3
    <3> QED  BY <1>1, <1>2, <2>2, <3>2, <3>3, <3>4 DEF Gap
  <2> QED  BY <1>1, <2>1, <2>2
<1> QED  BY <1>2, <1>5, <1>6

LEMMA ReachDense ==
  ASSUME TypeOK, BracketInv, FitInv, ReachInv, WithinReach, Recognisable, world # Noise,
         NEW n \in todo, DenseProbe(n) \/ DenseSkip(n)
  PROVE  ReachInv'
<1>1. /\ pc = "dense" /\ pc' = "dense" /\ probes' = probes /\ todo' = todo \ {n} /\ world' = world
      /\ n \in 0..Layers /\ \A c \in todo : n <= c
      /\ world \in 0..Layers /\ lastGood \in -1..Layers /\ bad \in -1..Layers
      /\ probes \in 0..4 /\ Layers \in Nat
  BY Ceiling DEF DenseProbe, DenseSkip, Least, TypeOK, AxisOf, Axis, MaxRefinementProbes, bracket
<1>2. /\ ~MoeTunable /\ lastGood <= world /\ probes = 0 /\ lastGood < n
      /\ bad >= 0 => world < bad
      /\ \A c \in GpuLayersCandidates \ todo : /\ c <= world => c <= lastGood
                                               /\ c > world => bad >= 0 /\ bad <= c
  BY <1>1 DEF ReachInv, DenseInv, BracketInv, FitInv
<1>3. GpuLayersCandidates \subseteq 0..Layers
  BY CandidatesInRange
<1>4. ASSUME /\ lastGood' \in -1..Layers /\ lastGood' <= world
             /\ \A c \in GpuLayersCandidates \ todo' : /\ c <= world => c <= lastGood'
                                                       /\ c > world => bad' >= 0 /\ bad' <= c
      PROVE  ReachInv'
  BY <1>1, <1>2, <1>4 DEF ReachInv, DenseInv, MoeInv
<1>5. CASE DenseProbe(n) /\ n <= world
  <2>1. lastGood' = n /\ bad' = bad
    BY <1>5, DenseProbeFits DEF Promote
  <2> QED  BY <1>1, <1>2, <1>3, <1>4, <1>5, <2>1
<1>6. CASE DenseProbe(n) /\ n > world
  <2>1. ~Inconclusive
    BY <1>2 DEF WithinReach
  <2>2. lastGood' = lastGood /\ bad' = n /\ (bad < 0 \/ n < bad)
    BY <1>1, <1>6, <2>1, DenseProbeFits DEF Boundary, DenseProbe, BeyondOom
  <2> QED  BY <1>1, <1>2, <1>3, <1>4, <1>6, <2>2
<1>7. CASE DenseSkip(n)
  <2>1. lastGood' = lastGood /\ bad' = bad /\ bad >= 0 /\ n >= bad
    BY <1>7 DEF DenseSkip, BeyondOom, bracket
  <2> QED  BY <1>1, <1>2, <1>3, <1>4, <2>1
<1> QED  BY <1>1, <1>5, <1>6, <1>7

LEMMA ReachDenseRefine ==
  ASSUME TypeOK, FitInv, ReachInv, WithinReach, Recognisable, world # Noise, DenseRefine
  PROVE  ReachInv'
<1>1. /\ pc = "dense" /\ pc' = "dense" /\ todo = {} /\ todo' = {} /\ world' = world
      /\ probes' = probes + 1 /\ probes \in 0..3 /\ DenseRefinable
      /\ world \in 0..Layers /\ lastGood \in 0..Layers /\ bad \in 0..Layers /\ Layers \in Nat
  BY Ceiling DEF DenseRefine, DenseRefinable, TypeOK, Axis, MaxRefinementProbes
<1>2. ~MoeTunable /\ GpuLayersCandidates \subseteq 0..Layers
  BY <1>1, CandidatesInRange DEF ReachInv, DenseInv
<1>3. \A c \in GpuLayersCandidates : /\ c <= world => c <= lastGood
                                     /\ c > world => bad >= 0 /\ bad <= c
  BY <1>1 DEF ReachInv, DenseInv
<1>4. lastGood <= world /\ world < bad /\ bad - lastGood <= Gap(probes)
  BY <1>1, DenseSwept
<1>5. /\ DenseMidpoint \in 0..Layers /\ lastGood < DenseMidpoint /\ DenseMidpoint < bad
      /\ DenseMidpoint - lastGood <= Gap(probes + 1)
      /\ bad - DenseMidpoint <= Gap(probes + 1)
  BY <1>1, <1>4, MidpointsInRange, MidpointsHalve, GapHalves
<1> DEFINE n == DenseMidpoint
<1> HIDE DEF n
<1>6. CASE n <= world
  <2>1. lastGood' = n /\ bad' = bad
    BY <1>6, DenseRefineFits DEF Promote, n
  <2> QED  BY <1>1, <1>2, <1>3, <1>4, <1>5, <1>6, <2>1 DEF ReachInv, DenseInv, MoeInv, n
<1>7. CASE n > world
  <2>1. lastGood' = lastGood /\ bad' = n
    BY <1>7, DenseRefineFits DEF Boundary, n
  <2> QED  BY <1>1, <1>2, <1>3, <1>4, <1>5, <1>7, <2>1 DEF ReachInv, DenseInv, MoeInv, n
<1> QED  BY <1>1, <1>5, <1>6, <1>7 DEF n

LEMMA ReachDenseDone ==
  ASSUME TypeOK, FitInv, ReachInv, WithinReach, world # Noise, DenseDone
  PROVE  ReachInv'
<1>1. /\ pc = "dense" /\ pc' = "offloaded" /\ todo = {} /\ ~DenseRefinable
      /\ UNCHANGED <<world, lastGood>>
      /\ world \in 0..Layers /\ bad \in -1..Layers /\ probes \in 0..4 /\ ~MoeTunable
  BY Ceiling DEF DenseDone, bracket, TypeOK, Axis, MaxRefinementProbes, ReachInv, DenseInv
<1>2. /\ lastGood \in 0..world /\ (bad < 0 => lastGood = world)
      /\ bad >= 0 => world < bad /\ bad - lastGood <= Gap(probes)
  BY <1>1, DenseSwept
<1>3. lastGood = world
  <2>1. bad >= 0 => bad - lastGood <= 1
    BY <1>1, <1>2 DEF DenseRefinable, Gap, MaxRefinementProbes
  <2> QED  BY <1>1, <1>2, <2>1
<1> QED  BY <1>1, <1>3 DEF ReachInv, DenseInv, MoeInv

LEMMA ReachMoe ==
  ASSUME TypeOK, BracketInv, FitInv, ReachInv, WithinReach, Recognisable, world # Noise,
         NEW n \in todo, MoeProbe(n) \/ MoeSkip(n)
  PROVE  ReachInv'
<1>1. /\ pc = "moe" /\ pc' = "moe" /\ probes' = probes /\ todo' = todo \ {n} /\ world' = world
      /\ n \in 0..Layers /\ \A c \in todo : c <= n
      /\ world \in 0..Layers /\ lastGood \in -1..Layers /\ bad \in -1..Layers
      /\ lowestFailed \in -1..Layers /\ Layers \in Nat
      /\ Floor \in 0..Layers /\ Floor' = Floor
  BY Ceiling DEF MoeProbe, MoeSkip, Greatest, TypeOK, AxisOf, Axis, bracket, Floor
<1>2. /\ MoeTunable /\ probes = 0
      /\ lastGood >= 0 => Floor <= lastGood /\ n < lastGood
      /\ bad < Floor \/ bad = -1
      /\ lowestFailed < Floor \/ lowestFailed = -1
      /\ ~Inconclusive => lowestFailed = -1
      /\ \A c \in NCpuMoeCandidates \ todo :
           /\ c >= Floor => lastGood >= 0 /\ lastGood <= c
           /\ c < Floor => (bad >= 0 /\ c <= bad) \/ lowestFailed >= 0
  BY <1>1 DEF ReachInv, MoeInv, BracketInv
<1>3. NCpuMoeCandidates \subseteq 0..Layers
  BY CandidatesInRange
<1>4. ASSUME /\ lastGood' >= 0 => Floor <= lastGood'
             /\ bad' < Floor \/ bad' = -1
             /\ lowestFailed' < Floor \/ lowestFailed' = -1
             /\ ~Inconclusive => lowestFailed' = -1
             /\ \A c \in NCpuMoeCandidates \ todo' :
                  /\ c >= Floor => lastGood' >= 0 /\ lastGood' <= c
                  /\ c < Floor => (bad' >= 0 /\ c <= bad') \/ lowestFailed' >= 0
      PROVE  ReachInv'
  BY <1>1, <1>2, <1>4 DEF ReachInv, DenseInv, MoeInv
<1>5. CASE MoeProbe(n) /\ Floor <= n
  <2>1. lastGood' = n /\ bad' = bad /\ lowestFailed' = lowestFailed
    BY <1>5, MoeProbeFits DEF Promote
  <2> QED  BY <1>1, <1>2, <1>3, <1>4, <1>5, <2>1
<1>6. CASE MoeProbe(n) /\ n < Floor
  <2>1. Boundary(n) \/ (Inconclusive /\ Remember(n))
    BY <1>6, MoeProbeFits
  <2>2. bad < 0 \/ bad < n
    BY <1>1, <1>6 DEF MoeProbe, BeyondFailure
  <2>3. CASE Boundary(n)
    <3>1. lastGood' = lastGood /\ bad' = n /\ lowestFailed' = lowestFailed
      BY <2>3 DEF Boundary
    <3> QED  BY <1>1, <1>2, <1>3, <1>4, <1>6, <2>2, <3>1
  <2>4. CASE Inconclusive /\ Remember(n)
    <3>1. /\ lastGood' = lastGood /\ bad' = bad
          /\ lowestFailed' \in {n, lowestFailed} /\ lowestFailed' >= 0
      BY <1>1, <2>4 DEF Remember
    <3> QED  BY <1>1, <1>2, <1>3, <1>4, <1>6, <2>4, <3>1
  <2> QED  BY <2>1, <2>3, <2>4
<1>7. CASE MoeSkip(n)
  <2>1. UNCHANGED <<lastGood, bad, lowestFailed>> /\ bad >= 0 /\ n <= bad
    BY <1>7 DEF MoeSkip, BeyondFailure, bracket
  <2> QED  BY <1>1, <1>2, <1>3, <1>4, <2>1
<1> QED  BY <1>1, <1>5, <1>6, <1>7

LEMMA ReachMoeSwept ==
  ASSUME TypeOK, ReachInv, WithinReach, world # Noise, MoeSwept
  PROVE  ReachInv'
<1>1. /\ pc = "moe" /\ pc' = "moeRefine" /\ todo = {} /\ bad' = MoeFloor
      /\ UNCHANGED <<world, lastGood, lowestFailed, probes>>
      /\ world \in 0..Layers /\ lastGood \in -1..Layers /\ bad \in -1..Layers
      /\ lowestFailed \in -1..Layers /\ Layers \in Nat
      /\ Floor \in 0..Layers /\ Floor' = Floor
  BY Ceiling DEF MoeSwept, TypeOK, Axis, Floor
<1>2. /\ MoeTunable /\ probes = 0
      /\ lastGood >= 0 => Floor <= lastGood
      /\ bad < Floor \/ bad = -1
      /\ lowestFailed < Floor \/ lowestFailed = -1
      /\ ~Inconclusive => lowestFailed = -1
      /\ \A c \in NCpuMoeCandidates :
           /\ c >= Floor => lastGood >= 0 /\ lastGood <= c
           /\ c < Floor => (bad >= 0 /\ c <= bad) \/ lowestFailed >= 0
  BY <1>1 DEF ReachInv, MoeInv
<1>3. Percentiles \subseteq NCpuMoeCandidates /\ 0 \in NCpuMoeCandidates /\ Layers \in NCpuMoeCandidates
  BY <1>2 DEF NCpuMoeCandidates
<1>4. lastGood >= 0 /\ Floor <= lastGood
  BY <1>1, <1>2, <1>3
<1>5. bad' < Floor \/ bad' = -1
  BY <1>1, <1>2 DEF MoeFloor
<1>6. IF Floor = 0 THEN lastGood = 0 ELSE bad' >= 0
  BY <1>1, <1>2, <1>3, <1>4 DEF MoeFloor
<1>7. ASSUME bad' >= 0 PROVE lastGood - bad' <= 16
  <2>1. CASE Layers <= 16
    BY <1>1, <1>2, <1>7, <2>1 DEF MoeFloor
  <2>2. CASE Layers <= 64 /\ ~Inconclusive
    <3>1. bad' = bad /\ lowestFailed = -1
      BY <1>1, <1>2, <1>7, <2>2 DEF MoeFloor
    <3>2. Floor - 1 \in 0..(Layers - 1)
      BY <1>1, <1>5, <1>7, <3>1
    <3>3. PICK p, q \in Percentiles : p <= Floor - 1 /\ Floor - 1 < q /\ q - p <= 16
      BY <2>2, <3>2, PercentilesAreDense
    <3>4. p \in 0..Layers /\ q \in 0..Layers
      BY <1>3, CandidatesInRange
    <3>5. p <= bad /\ lastGood <= q
      BY <1>1, <1>2, <1>3, <3>1, <3>3, <3>4
    <3> QED  BY <1>1, <3>1, <3>3, <3>4, <3>5
  <2> QED  BY <1>2, <2>1, <2>2 DEF WithinReach
<1>8. Gap(probes') = 16
  BY <1>1, <1>2 DEF Gap
<1> QED  BY <1>1, <1>2, <1>4, <1>5, <1>6, <1>7, <1>8 DEF ReachInv, DenseInv, MoeInv

LEMMA ReachMoeRefine ==
  ASSUME TypeOK, FitInv, ReachInv, WithinReach, Recognisable, world # Noise, MoeRefine
  PROVE  ReachInv'
<1>1. /\ pc = "moeRefine" /\ pc' = "moeRefine" /\ world' = world
      /\ probes' = probes + 1 /\ probes \in 0..3 /\ MoeRefinable
      /\ world \in 0..Layers /\ lastGood \in 0..Layers /\ bad \in 0..Layers /\ Layers \in Nat
      /\ Floor \in 0..Layers /\ Floor' = Floor
  BY Ceiling DEF MoeRefine, MoeRefinable, TypeOK, Axis, MaxRefinementProbes, Floor
<1>2. /\ MoeTunable /\ Floor <= lastGood /\ bad < Floor /\ lastGood - bad <= Gap(probes)
  BY <1>1 DEF ReachInv, MoeInv
<1>3. /\ MoeMidpoint \in 0..Layers /\ bad < MoeMidpoint /\ MoeMidpoint < lastGood
      /\ MoeMidpoint - bad <= Gap(probes + 1)
      /\ lastGood - MoeMidpoint <= Gap(probes + 1)
  BY <1>1, <1>2, MidpointsInRange, MidpointsHalve, GapHalves
<1> DEFINE n == MoeMidpoint
<1> HIDE DEF n
<1>4. CASE Floor <= n
  <2>1. lastGood' = n /\ bad' = bad
    BY <1>4, MoeRefineFits DEF Promote, n
  <2> QED  BY <1>1, <1>2, <1>3, <1>4, <2>1 DEF ReachInv, DenseInv, MoeInv, n
<1>5. CASE n < Floor
  <2>1. lastGood' = lastGood /\ bad' = n
    BY <1>5, MoeRefineFits DEF Boundary, n
  <2> QED  BY <1>1, <1>2, <1>3, <1>5, <2>1 DEF ReachInv, DenseInv, MoeInv, n
<1> QED  BY <1>1, <1>3, <1>4, <1>5 DEF n

LEMMA ReachMoeDone ==
  ASSUME TypeOK, ReachInv, world # Noise, MoeDone
  PROVE  ReachInv'
<1>1. /\ pc = "moeRefine" /\ pc' = "offloaded" /\ ~MoeRefinable
      /\ UNCHANGED <<world, lastGood>>
      /\ bad \in -1..Layers /\ lastGood \in -1..Layers /\ probes \in 0..4
      /\ Floor \in 0..Layers /\ Floor' = Floor
  BY Ceiling DEF MoeDone, bracket, TypeOK, Axis, MaxRefinementProbes, Floor
<1>2. /\ MoeTunable /\ lastGood >= 0 /\ Floor <= lastGood
      /\ bad < Floor \/ bad = -1
      /\ IF Floor = 0 THEN lastGood = 0 ELSE bad >= 0
      /\ bad >= 0 => lastGood - bad <= Gap(probes)
  BY <1>1 DEF ReachInv, MoeInv
<1>3. bad >= 0 => lastGood - bad <= 1
  BY <1>1, <1>2 DEF MoeRefinable, Gap, MaxRefinementProbes
<1>4. lastGood = Floor
  BY <1>1, <1>2, <1>3
<1> QED  BY <1>1, <1>2, <1>4 DEF ReachInv, DenseInv, MoeInv

LEMMA ReachNext ==
  ASSUME TypeOK, BracketInv, FitInv, ReachInv, WithinReach, Recognisable, world # Noise, [Next]_vars
  PROVE  ReachInv'
<1>1. CASE Baseline
  <2>1. /\ pc = "baseline" /\ DenseTunable
        /\ pc' = IF MoeTunable THEN "moe" ELSE "dense"
        /\ todo' = IF MoeTunable THEN NCpuMoeCandidates ELSE GpuLayersCandidates
        /\ UNCHANGED <<world, lastGood, bad, lowestFailed, probes>>
    BY <1>1 DEF Baseline, WithinReach, bracket
  <2>2. lastGood = -1 /\ bad = -1 /\ lowestFailed = -1 /\ probes = 0
    BY <2>1 DEF ReachInv
  <2>3. world \in 0..Layers
    BY Ceiling DEF TypeOK
  <2> QED  BY <2>1, <2>2, <2>3 DEF ReachInv, DenseInv, MoeInv
<1>2. ASSUME NEW n \in todo, \/ DenseProbe(n) \/ DenseSkip(n) \/ MoeProbe(n) \/ MoeSkip(n)
      PROVE  ReachInv'
  BY <1>2, ReachDense, ReachMoe
<1>3. CASE DenseRefine \/ DenseDone \/ MoeSwept \/ MoeRefine \/ MoeDone
  BY <1>3, ReachDenseRefine, ReachDenseDone, ReachMoeSwept, ReachMoeRefine, ReachMoeDone
<1>4. ASSUME pc' \in {"batch", "threads", "recheck", "done"} PROVE ReachInv'
  BY <1>4 DEF ReachInv, DenseInv, MoeInv
<1>5. CASE Unreadable \/ BatchStart \/ ThreadStart \/ Publish \/ Finish
  BY <1>4, <1>5 DEF Unreadable, BatchStart, ThreadStart, Publish, Finish
<1>6. ASSUME NEW v \in todo, BatchProbe(v) \/ ThreadProbe(v) \/ ThreadSkip(v) \/ Recheck(v)
      PROVE  ReachInv'
  BY <1>4, <1>6 DEF BatchProbe, ThreadProbe, ThreadSkip, Recheck
<1>7. CASE UNCHANGED vars
  BY <1>7 DEF vars, ReachInv, DenseInv, MoeInv, Floor
<1> QED  BY <1>1, <1>2, <1>3, <1>5, <1>6, <1>7 DEF Next, Returned

\* On a machine whose spills are recognisable, and where four probes reach, the
\* offload stage ends with the ceiling itself: a model of at most 64 layers none
\* of whose overflows is inconclusive, or experts placed on a model of at most
\* 16 layers also if some are (README.md:235 and tuner.cpp:340-389 and 448-513).
THEOREM SearchConverges ==
  ASSUME Recognisable, WithinReach
  PROVE  Spec => []ConvergesToCeiling
<1> DEFINE Reach == world # Noise => FitInv /\ ReachInv
<1>1. Init => Reach
  BY FitInitial DEF Init, ReachInv, DenseInv, MoeInv
<1>2. TypeOK /\ BracketInv /\ Reach /\ [Next]_vars => Reach'
  <2> SUFFICES ASSUME TypeOK, BracketInv, Reach, [Next]_vars, world' # Noise
               PROVE  FitInv' /\ ReachInv'
    OBVIOUS
  <2> QED  BY WorldStays, FitNext, ReachNext
<1>3. TypeOK /\ Reach => ConvergesToCeiling
  BY DEF ReachInv, ConvergesToCeiling, Floor
<1>4. TypeOK /\ BracketInv /\ [Next]_vars => BracketInv'
  BY BracketInductive
<1> HIDE DEF Reach
<1> QED  BY TypeCorrect, BracketInitial, <1>1, <1>2, <1>3, <1>4, PTL DEF Spec
==============================================================================

---------------------------- MODULE StagedSearch ----------------------------
(***************************************************************************)
(* Tuner::run (src/src/tuner/tuner.cpp): the staged search for the best     *)
(* llama.cpp configuration of one model on one machine.                     *)
(*                                                                         *)
(*   baseline -> offload (dense or MoE sweep, then bisection) -> batch      *)
(*            -> threads -> publish -> recheck of the offload -> verdict    *)
(*                                                                         *)
(* The search is one thread that blocks on each llama-bench run, so one     *)
(* action is one iteration of one of its loops.  What a run measures is     *)
(* not the search's to choose: it is any member of Possible(world, cfg).    *)
(*                                                                         *)
(* The search never reads back outcome.all_results.  Of the runs it records *)
(* there, "kept" is what the properties need: the best score among those    *)
(* it did not reject, and whether one of them left VRAM headroom.           *)
(***************************************************************************)
EXTENDS ParameterSpace

CONSTANTS
  Worlds,          \* the machines, as hidden from the search
  Possible(_, _)   \* Possible(w, cfg): what benchmarking cfg on w may yield

ASSUME SearchAssumption ==
  \A w \in Worlds, cfg \in Config : Possible(w, cfg) \subseteq Outcome

VARIABLES
  world,            \* never changes
  pc,               \* the stage in progress
  todo,             \* values of the stage's axis not yet visited
  base,             \* the configuration the stage varies (stages 3 and 4)
  best,             \* the local variable best
  lastGood,         \* last_good_layers / last_good_ncmoe, -1 when none
  lastGoodResult,   \* last_good_result
  bad,              \* oom_layers / failed_ncmoe, -1 when none
  lowestFailed,     \* lowest_failed_ncmoe, -1 when none
  probes,           \* refinement probes spent
  kept,             \* summary of outcome.all_results
  outcome           \* outcome.best and outcome.success

vars == <<world, pc, todo, base, best, lastGood, lastGoodResult, bad,
          lowestFailed, probes, kept, outcome>>
bracket == <<lastGood, lastGoodResult, bad, lowestFailed, probes>>

\* A default-constructed BenchmarkResult: it did not run.
NoResult == [cfg |-> BaselineConfig,
             run |-> [status |-> "failed", gen |-> 0, prompt |-> 0,
                      tight |-> FALSE]]

\* Mutant: one probe short.
MaxRefinementProbesThree == 3

MaxRefinementProbes == 4

Init ==
  /\ world \in Worlds
  /\ pc = "baseline"
  /\ todo = {}
  /\ base = BaselineConfig
  /\ best = NoResult
  /\ lastGood = -1 /\ lastGoodResult = NoResult
  /\ bad = -1 /\ lowestFailed = -1
  /\ probes = 0
  /\ kept = [score |-> UnusableScore, margin |-> FALSE]
  /\ outcome = [best |-> NoResult, success |-> FALSE]

-----------------------------------------------------------------------------
(* What the search makes of one measured run.                              *)

Runs(cfg) == {[cfg |-> cfg, run |-> o] : o \in Possible(world, cfg)}

Least(v, S)    == v \in S /\ \A x \in S : v <= x
Greatest(v, S) == v \in S /\ \A x \in S : x <= v

\* Mutant: compares with the last good run of the stage instead of the best.
BetterThanLastGood(r) ==
  IF Score(r) > Score(lastGoodResult) THEN r ELSE best

Better(r) == IF Score(r) > Score(best) THEN r ELSE best

Keep(r) ==
  kept' = IF ~Usable(r) THEN kept
          ELSE [score  |-> IF Score(r) > kept.score THEN Score(r)
                                                    ELSE kept.score,
                margin |-> kept.margin \/ ~ExceedsHeadroom(r)]

\* v becomes the failing end of the bracket.
Boundary(v) ==
  /\ bad' = v
  /\ UNCHANGED <<lastGood, lastGoodResult, lowestFailed, best, kept>>

\* v becomes the usable end of the bracket, and its run may become the best.
Promote(v, r) ==
  /\ lastGood' = v
  /\ lastGoodResult' = r
  /\ best' = Better(r)
  /\ Keep(r)
  /\ UNCHANGED <<bad, lowestFailed>>

-----------------------------------------------------------------------------
(* Stage 1, once the size of the model file could be read.                 *)

\* ensure_initialized failed: the default-constructed outcome is returned.
Unreadable ==
  /\ pc = "baseline"
  /\ pc' = "done"
  /\ UNCHANGED <<world, todo, base, best, bracket, kept, outcome>>

Baseline ==
  /\ pc = "baseline"
  /\ \E r \in Runs(BaselineConfig) : best' = r /\ Keep(r)
  /\ pc' = IF MoeTunable THEN "moe" ELSE IF DenseTunable THEN "dense"
                                                         ELSE "offloaded"
  /\ todo' = IF MoeTunable THEN NCpuMoeCandidates ELSE GpuLayersCandidates
  /\ UNCHANGED <<world, base, bracket, outcome>>

-----------------------------------------------------------------------------
(* Stage 2, dense: gpu_layers climbs from 0 until a run fails for memory;  *)
(* then the interval between the last usable and the failing value is       *)
(* bisected.                                                               *)

\* A silent spill counts as an OOM: neither is looked beyond.
DenseRejects(r) ==
  r.run.status = "oom" \/ LooksLikeSpill(r, lastGoodResult)

BeyondOom(n) == bad >= 0 /\ n >= bad

DenseProbe(n) ==
  /\ pc = "dense" /\ Least(n, todo) /\ ~BeyondOom(n)
  /\ todo' = todo \ {n}
  /\ \E r \in Runs(DenseConfig(n)) :
       \/ DenseRejects(r) /\ Boundary(n)
       \/ Usable(r) /\ ~DenseRejects(r) /\ Promote(n, r)
       \/ r.run.status = "failed" /\ UNCHANGED <<bracket, best, kept>>
  /\ UNCHANGED <<world, pc, base, probes, outcome>>

DenseSkip(n) ==
  /\ pc = "dense" /\ Least(n, todo) /\ BeyondOom(n)
  /\ todo' = todo \ {n}
  /\ UNCHANGED <<world, pc, base, best, bracket, kept, outcome>>

DenseRefinable ==
  /\ bad >= 0 /\ lastGood >= 0
  /\ bad - lastGood > 1
  /\ probes < MaxRefinementProbes

\* Mutant: rounds the midpoint up past the middle.
DenseMidpointUp == lastGood + (bad - lastGood) \div 2 + 1

DenseMidpoint == lastGood + (bad - lastGood) \div 2

\* In the refinement an inconclusive failure narrows the interval too.
DenseRefine ==
  /\ pc = "dense" /\ todo = {} /\ DenseRefinable
  /\ probes' = probes + 1
  /\ \E r \in Runs(DenseConfig(DenseMidpoint)) :
       \/ DenseRejects(r) /\ Boundary(DenseMidpoint)
       \/ Usable(r) /\ ~DenseRejects(r) /\ Promote(DenseMidpoint, r)
       \/ r.run.status = "failed" /\ Boundary(DenseMidpoint)
  /\ UNCHANGED <<world, pc, todo, base, outcome>>

DenseDone ==
  /\ pc = "dense" /\ todo = {} /\ ~DenseRefinable
  /\ pc' = "offloaded"
  /\ UNCHANGED <<world, todo, base, best, bracket, kept, outcome>>

-----------------------------------------------------------------------------
(* Stage 2, MoE: n_cpu_moe descends from "every expert in RAM", so demand  *)
(* for VRAM rises; the usable end of the bracket is the higher value.       *)

\* Mutant: asks whether the stage, not the search, has a usable run yet.
LacksMarginInStage(r) ==
  Usable(r) /\ Usable(lastGoodResult) /\ ExceedsHeadroom(r)

LacksMargin(r) == Usable(r) /\ Usable(best) /\ ExceedsHeadroom(r)

MoeRejects(r) == LooksLikeSpill(r, lastGoodResult) \/ LacksMargin(r)

\* Mutant: the comparison of the dense stage.
BeyondFailureMirrored(n) == bad >= 0 /\ n >= bad

BeyondFailure(n) == bad >= 0 /\ n <= bad

\* An inconclusive failure does not stop the sweep but is remembered.
Remember(n) ==
  /\ lowestFailed' = IF lowestFailed < 0 \/ n < lowestFailed
                       THEN n ELSE lowestFailed
  /\ UNCHANGED <<lastGood, lastGoodResult, bad, best, kept>>

MoeProbe(n) ==
  /\ pc = "moe" /\ Greatest(n, todo) /\ ~BeyondFailure(n)
  /\ todo' = todo \ {n}
  /\ \E r \in Runs(MoeConfig(n)) :
       \/ (r.run.status = "oom" \/ MoeRejects(r)) /\ Boundary(n)
       \/ Usable(r) /\ ~MoeRejects(r) /\ Promote(n, r)
       \/ r.run.status = "failed" /\ Remember(n)
  /\ UNCHANGED <<world, pc, base, probes, outcome>>

MoeSkip(n) ==
  /\ pc = "moe" /\ Greatest(n, todo) /\ BeyondFailure(n)
  /\ todo' = todo \ {n}
  /\ UNCHANGED <<world, pc, base, best, bracket, kept, outcome>>

\* Mutant: inconclusive failures are forgotten when the sweep ends.
MoeFloorConfirmedOnly == bad

\* Without a confirmed boundary the lowest inconclusive failure is the floor.
MoeFloor == IF bad < 0 THEN lowestFailed ELSE bad

MoeSwept ==
  /\ pc = "moe" /\ todo = {}
  /\ pc' = "moeRefine"
  /\ bad' = MoeFloor
  /\ UNCHANGED <<world, todo, base, best, lastGood, lastGoodResult,
                 lowestFailed, probes, kept, outcome>>

MoeRefinable ==
  /\ bad >= 0 /\ lastGood >= 0
  /\ lastGood - bad > 1
  /\ probes < MaxRefinementProbes

\* Mutant: rounds the midpoint up past the middle.
MoeMidpointUp == bad + (lastGood - bad) \div 2 + 1

MoeMidpoint == bad + (lastGood - bad) \div 2

MoeRefine ==
  /\ pc = "moeRefine" /\ MoeRefinable
  /\ probes' = probes + 1
  /\ \E r \in Runs(MoeConfig(MoeMidpoint)) :
       \/ (~Usable(r) \/ MoeRejects(r)) /\ Boundary(MoeMidpoint)
       \/ Usable(r) /\ ~MoeRejects(r) /\ Promote(MoeMidpoint, r)
  /\ UNCHANGED <<world, pc, todo, base, outcome>>

MoeDone ==
  /\ pc = "moeRefine" /\ ~MoeRefinable
  /\ pc' = "offloaded"
  /\ UNCHANGED <<world, todo, base, best, bracket, kept, outcome>>

-----------------------------------------------------------------------------
(* Stages 3 and 4: the candidates of each are drawn up once, from the best *)
(* configuration at the start of the stage.                                *)

\* Stage 2's locals go out of scope.
LeaveOffload ==
  /\ lastGood' = -1 /\ lastGoodResult' = NoResult
  /\ bad' = -1 /\ lowestFailed' = -1 /\ probes' = 0

BatchStart ==
  /\ pc = "offloaded"
  /\ pc' = "batch"
  /\ todo' = BatchCandidates(best.cfg)
  /\ base' = best.cfg
  /\ LeaveOffload
  /\ UNCHANGED <<world, best, kept, outcome>>

\* A trial is judged against the best run so far, spill guard included.
Trial(cfg) ==
  \E r \in Runs(cfg) :
    \/ LooksLikeSpill(r, best) /\ UNCHANGED <<best, kept>>
    \/ ~LooksLikeSpill(r, best) /\ best' = Better(r) /\ Keep(r)

BatchProbe(p) ==
  /\ pc = "batch" /\ Least(p, todo)
  /\ todo' = todo \ {p}
  /\ Trial([base EXCEPT !.batch = p])
  /\ UNCHANGED <<world, pc, base, bracket, outcome>>

ThreadStart ==
  /\ pc = "batch" /\ todo = {}
  /\ pc' = "threads"
  /\ todo' = ThreadCandidates
  /\ base' = best.cfg
  /\ UNCHANGED <<world, best, bracket, kept, outcome>>

ThreadProbe(t) ==
  /\ pc = "threads" /\ Least(t, todo) /\ t # best.cfg.threads
  /\ todo' = todo \ {t}
  /\ Trial([base EXCEPT !.threads = t])
  /\ UNCHANGED <<world, pc, base, bracket, outcome>>

ThreadSkip(t) ==
  /\ pc = "threads" /\ Least(t, todo) /\ t = best.cfg.threads
  /\ todo' = todo \ {t}
  /\ UNCHANGED <<world, pc, base, best, bracket, kept, outcome>>

-----------------------------------------------------------------------------
(* outcome.best is assigned, and only then are the neighbours of the       *)
(* offload value tried again under the final batch and threads (stage 5).  *)

OnMoeAxis == best.cfg.n_cpu_moe # Unset

\* Mutant: no upper bound on the neighbour above.
NeighboursUnbounded ==
  LET current == IF OnMoeAxis THEN best.cfg.n_cpu_moe ELSE best.cfg.gpu_layers
  IN {current - 1, current + 1} \cap Nat

Neighbours ==
  LET current == IF OnMoeAxis THEN best.cfg.n_cpu_moe ELSE best.cfg.gpu_layers
  IN {current - 1, current + 1} \cap (0..Layers)

\* Mutant: rechecks even when no stage found a usable configuration.
RecheckableAlways == MoeTunable \/ DenseTunable

Recheckable == Usable(best) /\ (MoeTunable \/ DenseTunable)

Publish ==
  /\ pc = "threads" /\ todo = {}
  /\ pc' = "recheck"
  /\ outcome' = [outcome EXCEPT !.best = best]
  /\ todo' = IF Recheckable THEN Neighbours ELSE {}
  /\ UNCHANGED <<world, base, best, bracket, kept>>

\* Mutant: always moves gpu_layers.
RecheckConfigDenseOnly(v) == [best.cfg EXCEPT !.gpu_layers = v]

RecheckConfig(v) ==
  IF OnMoeAxis THEN [best.cfg EXCEPT !.n_cpu_moe = v]
               ELSE [best.cfg EXCEPT !.gpu_layers = v]

RecheckRejects(r) ==
  LooksLikeSpill(r, best) \/ (Usable(r) /\ ExceedsHeadroom(r))

Recheck(v) ==
  /\ pc = "recheck" /\ Least(v, todo)
  /\ todo' = todo \ {v}
  /\ \E r \in Runs(RecheckConfig(v)) :
       \/ RecheckRejects(r) /\ UNCHANGED <<best, kept>>
       \/ /\ ~RecheckRejects(r)
          /\ best' = IF Usable(r) THEN Better(r) ELSE best
          /\ Keep(r)
  /\ UNCHANGED <<world, pc, base, bracket, outcome>>

Finish ==
  /\ pc = "recheck" /\ todo = {}
  /\ pc' = "done"
  /\ outcome' = [outcome EXCEPT !.success = Usable(best)]
  /\ UNCHANGED <<world, todo, base, best, bracket, kept>>

\* The search has returned.
Returned == pc = "done" /\ UNCHANGED vars

Next ==
  \/ Unreadable \/ Baseline
  \/ \E v \in todo : \/ DenseProbe(v) \/ DenseSkip(v)
                     \/ MoeProbe(v) \/ MoeSkip(v)
                     \/ BatchProbe(v)
                     \/ ThreadProbe(v) \/ ThreadSkip(v)
                     \/ Recheck(v)
  \/ DenseRefine \/ DenseDone
  \/ MoeSwept \/ MoeRefine \/ MoeDone
  \/ BatchStart \/ ThreadStart
  \/ Publish \/ Finish \/ Returned

Spec == Init /\ [][Next]_vars
-----------------------------------------------------------------------------
(* Properties.                                                             *)

Stages == {"baseline", "dense", "moe", "moeRefine", "offloaded", "batch",
           "threads", "recheck", "done"}

\* The values a stage walks over.
AxisOf(stage) == IF stage = "batch" THEN Pairs
                 ELSE IF stage = "threads" THEN ThreadCandidates
                 ELSE 0..Layers

Axis == -1..Layers

TypeOK ==
  /\ world \in Worlds
  /\ pc \in Stages
  /\ todo \subseteq AxisOf(pc)
  /\ base \in Config
  /\ best \in Result
  /\ lastGood \in Axis /\ bad \in Axis /\ lowestFailed \in Axis
  /\ lastGoodResult \in Result
  /\ probes \in 0..MaxRefinementProbes
  /\ kept \in [score : Int, margin : BOOLEAN]
  /\ outcome \in [best : Result, success : BOOLEAN]

\* While an offload stage runs, the highest demand for VRAM known to be usable
\* stays strictly below the lowest demand known to fail, whatever the runs
\* yield (tuner.cpp:304-389 and 401-513).
BracketOrdered ==
  bad >= 0 /\ lastGood >= 0 =>
    /\ pc = "dense" => lastGood < bad
    /\ pc = "moe"   => bad < lastGood

\* "Once a value OOMs, no larger value is tried" (README.md:232): no step of
\* an offload stage moves the failing end outwards or promotes a value at or
\* past it, and every refinement probe strictly narrows the interval, so the
\* bisection never measures the same value twice.
BracketOnlyShrinks ==
  [][/\ pc = "dense" /\ bad >= 0 =>
          bad' <= bad /\ lastGood' < bad
     /\ pc = "moe" /\ pc' = "moe" /\ bad >= 0 =>
          bad' >= bad /\ lastGood' \in {lastGood} \cup {n \in Axis : n > bad}
     /\ probes' > probes =>
          \/ bad' - lastGood' \in 1..(bad - lastGood - 1)
          \/ lastGood' - bad' \in 1..(lastGood - bad - 1)]_vars

\* The local variable best is the highest-scoring run that the search did not
\* reject, through every stage, including the paths where a candidate becomes
\* a boundary first (tuner.cpp:291-618).
BestIsTop ==
  pc # "baseline" => /\ Score(best) = kept.score
                     /\ Usable(best) \/ kept.score = UnusableScore

\* Success is decided on the local best, after outcome.best was assigned
\* (tuner.cpp:561 and 620): a reported success carries a usable best, and a
\* failure is reported only when no accepted run of the whole search worked.
VerdictMatchesOutcome ==
  pc = "done" => IF outcome.success THEN Usable(outcome.best)
                                    ELSE kept.score = UnusableScore

\* "Keeping the last configuration with margin" (main.cpp:373): once a run
\* that leaves headroom has been accepted, the expert-placement stage never
\* makes one without headroom the best.
MoeStageKeepsMargin ==
  [][kept.margin /\ pc \in {"moe", "moeRefine"} =>
       best' = best \/ ~ExceedsHeadroom(best')]_vars

\* n_cpu_moe only means something when every layer is offloaded and the
\* machine and model can use it; no sequence of stages may combine it with
\* another gpu_layers value, in the running best or in what is published
\* (main.cpp:424-430 saves both fields).
Coherent(cfg) ==
  cfg.n_cpu_moe # Unset => MoeTunable /\ cfg.gpu_layers = Layers
PlacementCoherent == Coherent(best.cfg) /\ Coherent(outcome.best.cfg)

Phase == CASE pc = "done"    -> "done"
           [] pc = "recheck" -> "published"
           [] OTHER          -> "searching"

\* The search implements the promise of its interface: over all stages, the
\* score of best only rises, outcome.best is assigned once, and success means
\* that the search found a configuration that works (tuner.cpp:561 and
\* 614-627, and "It cannot make the result worse", tuner.cpp:574).
Promise == INSTANCE SearchPromise WITH
  Floor     <- UnusableScore,
  phase     <- Phase,
  score     <- Score(best),
  published <- Score(outcome.best),
  success   <- outcome.success
KeepsPromise == Promise!Spec

\* README.md:246: "The highest-scoring usable configuration [...] is saved".
PublishesTheTop ==
  pc = "done" /\ outcome.success => Score(outcome.best) = kept.score
=============================================================================

--------------------------- MODULE MCStagedSearch ---------------------------
(***************************************************************************)
(* StagedSearch on two kinds of machine.                                    *)
(*                                                                         *)
(* On the noisy one any configuration may run out of memory, fail, or       *)
(* succeed at any of the listed speeds, with or without VRAM left.          *)
(*                                                                         *)
(* The others have a ceiling: the most VRAM a configuration may demand and  *)
(* leave the headroom free.  It is different in every initial state and     *)
(* unknown to the search.  Up to it a run is one of Healthy, past it one of *)
(* Overflow, chosen afresh each time.                                       *)
(***************************************************************************)
EXTENDS StagedSearch

CONSTANTS
  Gens,      \* generation throughputs on the noisy machine
  Prompts,   \* prompt throughputs on the noisy machine
  Healthy,   \* what a run within the ceiling yields
  Overflow,  \* what a run past it yields
  Buffers    \* the VRAM each batch pair takes beyond that of the baseline's,
             \* in layers

Noise == -1
NoisyWorld == {Noise}
AllWorlds == {Noise} \cup 0..Layers

NoisyPossible ==
  [status : {"ok"}, gen : Gens, prompt : Prompts, tight : BOOLEAN]
    \cup [status : {"oom", "failed"}, gen : {0}, prompt : {0}, tight : {FALSE}]

\* Layers (dense) or layers' experts (MoE) the configuration puts in VRAM, and
\* the buffers of its batch.
Demand(cfg) ==
  Buffers[cfg.batch]
    + IF cfg.n_cpu_moe = Unset THEN cfg.gpu_layers ELSE Layers - cfg.n_cpu_moe

CeilingPossible(ceiling, cfg) ==
  IF Demand(cfg) <= ceiling THEN Healthy ELSE Overflow

Benchmark(w, cfg) ==
  IF w = Noise THEN NoisyPossible ELSE CeilingPossible(w, cfg)

\* What overflows is anything at all: a failure, or a success at any speed, the
\* VRAM full, not quite full, or never sampled.
ASSUME MachineAssumption ==
  /\ Worlds \subseteq AllWorlds
  /\ \A w \in Worlds, cfg \in Config : Possible(w, cfg) = Benchmark(w, cfg)
  /\ Healthy \subseteq [status : {"ok"}, gen : Nat, prompt : Nat,
                        tight : {FALSE}]
  /\ Overflow \subseteq Outcome
  /\ Buffers \in [Pairs -> Int] /\ Buffers[BaselineConfig.batch] = 0

\* What the search can know a spill by (README.md:515-520): a sample of the full
\* card, and at least 40% less throughput, in generation or in prompt
\* processing, than any run that fits.  Milder spills, and those of a machine
\* without NVML, pass for healthy runs, and the two properties below need not
\* hold of a machine that has them.
Recognisable ==
  \A spill \in {o \in Overflow : o.status = "ok"} :
    /\ spill.tight
    /\ \A healthy \in Healthy :
         \/ 10 * spill.gen < 6 * healthy.gen
         \/ 10 * spill.prompt < 6 * healthy.prompt

-----------------------------------------------------------------------------
(* Machines with a ceiling for TLC.                                        *)

HealthyRuns ==
  [status : {"ok"}, gen : {20, 30}, prompt : {100}, tight : {FALSE}]

Failure(s) == [status |-> s, gen |-> 0, prompt |-> 0, tight |-> FALSE]

\* Just slow enough in one of the two throughputs; by score the last two may
\* beat every run that fits.
Spills ==
  {[status |-> "ok", gen |-> speed[1], prompt |-> speed[2], tight |-> TRUE] :
     speed \in {<<11, 100>>, <<11, 500>>, <<40, 59>>}}

OomOrSpill == Spills \cup {Failure("oom")}
AnyOverflow == OomOrSpill \cup {Failure("failed")}

\* A step up in batch size takes the VRAM of one more layer.
OneLayerPerStep == [p \in Pairs |-> p - 2]

-----------------------------------------------------------------------------
(* Properties.                                                             *)

\* The offload stage ends with the ceiling found exactly: its last usable
\* value is the highest demand the machine satisfies ("converging much closer
\* to the true offload ceiling", README.md:235).  Of machines whose spills are
\* recognisable.
ConvergesToCeiling ==
  world # Noise /\ pc = "offloaded" =>
    lastGood = IF MoeTunable THEN Layers - world ELSE world

\* A configuration past the ceiling is never the best and never published,
\* even when it reports success and scores higher than every one that fits, in
\* the offload stage, under a larger batch or as a neighbour in the recheck
\* (tuner.cpp:312-325, 523-532 and 601-612).  Of machines whose spills are
\* recognisable: what is judged against a run that overflowed would no longer
\* be judged by what fits.
BestFits ==
  world # Noise =>
    Demand(best.cfg) <= world /\ Demand(outcome.best.cfg) <= world
=============================================================================

------------------------------ MODULE VramSampler ------------------------------
(***************************************************************************)
(* VramSampler (src/src/hardware/vram_sampler.cpp): a worker thread that   *)
(* probes the GPU again and again between start() and stop(), and keeps    *)
(* the highest use it saw.  Each access to a shared atomic is a step.      *)
(***************************************************************************)
EXTENDS Integers

CONSTANTS
  Levels,       \* amounts of VRAM in use, natural numbers
  Unavailable,  \* a probe that found no GPU, not a number
  NoSample      \* peak_used_bytes() without a sample, not a number

VARIABLES
  running,     \* impl->running
  haveSample,  \* impl->have_sample
  peak,        \* impl->peak_used_bytes
  worker,      \* where the worker is, "none" before it starts and once joined
  used,        \* the worker's local of that name
  gpu,         \* what a probe would find now
  probed       \* what the worker has found since start(), for the properties

shared == <<running, haveSample, peak>>
vars == <<running, haveSample, peak, worker, used, gpu, probed>>

Init ==
  /\ running = FALSE /\ haveSample = FALSE /\ peak = 0
  /\ worker = "none" /\ used = 0
  /\ gpu \in Levels \cup {Unavailable}
  /\ probed = {}

-----------------------------------------------------------------------------
(* The owner.  A start() while running and a stop() while not are no-ops.  *)

Start ==
  /\ ~running
  /\ running' = TRUE
  /\ haveSample' = FALSE /\ peak' = 0
  /\ worker' = "test"
  /\ probed' = {}
  /\ UNCHANGED <<used, gpu>>

\* Mutant: stop() leaves the worker running.
StopNothing == running /\ UNCHANGED vars

\* The first half of stop(): the exchange.
Stop ==
  /\ running
  /\ running' = FALSE
  /\ UNCHANGED <<haveSample, peak, worker, used, gpu, probed>>

\* Mutant: stop() does not wait for the worker.
JoinNot == ~running /\ UNCHANGED vars

\* The second half: the join.
Join ==
  /\ ~running /\ worker = "ended"
  /\ worker' = "none"
  /\ UNCHANGED <<shared, used, gpu, probed>>

\* Mutant: a peak of 0 when there is no sample.
PeakUsedBytesAlways == peak

PeakUsedBytes == IF haveSample THEN peak ELSE NoSample

-----------------------------------------------------------------------------
(* The worker.                                                             *)

Test ==
  /\ worker = "test"
  /\ worker' = IF running THEN "probe" ELSE "ended"
  /\ UNCHANGED <<shared, used, gpu, probed>>

Probe ==
  /\ worker = "probe"
  /\ IF gpu = Unavailable
       THEN worker' = "sleep" /\ UNCHANGED <<used, probed>>
       ELSE /\ worker' = "peak"
            /\ used' = gpu
            /\ probed' = probed \cup {gpu}
  /\ UNCHANGED <<shared, gpu>>

\* The compare-and-exchange loop has one writer, so it succeeds at once.
RaisePeak ==
  /\ worker = "peak"
  /\ peak' = IF used > peak THEN used ELSE peak
  /\ worker' = "publish"
  /\ UNCHANGED <<running, haveSample, used, gpu, probed>>

Publish ==
  /\ worker = "publish"
  /\ haveSample' = TRUE
  /\ worker' = "sleep"
  /\ UNCHANGED <<running, peak, used, gpu, probed>>

Wake ==
  /\ worker = "sleep"
  /\ worker' = "test"
  /\ UNCHANGED <<shared, used, gpu, probed>>

\* Somebody allocates or frees, or the driver stops answering.
GpuChanges ==
  /\ gpu' \in (Levels \cup {Unavailable}) \ {gpu}
  /\ UNCHANGED <<shared, worker, used, probed>>

Worker == Test \/ Probe \/ RaisePeak \/ Publish \/ Wake

Next == Start \/ Stop \/ Join \/ Worker \/ GpuChanges

Spec == Init /\ [][Next]_vars
-----------------------------------------------------------------------------
TypeOK ==
  /\ running \in BOOLEAN /\ haveSample \in BOOLEAN
  /\ peak \in Levels \cup {0} /\ used \in Levels \cup {0}
  /\ worker \in {"none", "test", "probe", "peak", "publish", "sleep", "ended"}
  /\ gpu \in Levels \cup {Unavailable}
  /\ probed \subseteq Levels

Highest(S) == CHOOSE x \in S : \A y \in S : y <= x

\* Once stop() has returned, the peak is the highest of all the worker found
\* since start(): no sample is lost between the probe and the atomics, and none
\* of an earlier measurement is left (vram_sampler.cpp:26-54).
PeakIsHighestProbe ==
  ~running /\ worker = "none" =>
    PeakUsedBytes = IF probed = {} THEN NoSample ELSE Highest(probed)
=============================================================================

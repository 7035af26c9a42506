----------------------------- MODULE BenchmarkRun -----------------------------
(***************************************************************************)
(* One benchmark run: Tuner::run_one (src/src/tuner/tuner.cpp) starts the  *)
(* sampler, runs llama-bench through run_llama_binary, stops the sampler,  *)
(* and turns what came back into the BenchmarkResult the search decides    *)
(* on.                                                                     *)
(*                                                                         *)
(* The composition of two threads and a child: VramSampler is the worker;  *)
(* BoundedRun stands for run_captured, which RunCaptured and               *)
(* RunCapturedWin implement; BenchmarkParser reads the captured text.      *)
(***************************************************************************)
EXTENDS Integers, Sequences, BenchmarkParser

CONSTANTS
  Scripts,      \* what llama-bench prints if nothing stops it
  ExitCodes,    \* how it may end
  Levels, Unavailable, NoSample  \* see VramSampler

ASSUME BenchmarkAssumption ==
  /\ \A s \in Scripts : DOMAIN s = {"stdout", "stderr"}
  /\ ExitCodes \subseteq Nat
  /\ Levels \subseteq Nat /\ {Unavailable, NoSample} \cap Nat = {}

\* llama-bench is external: it is asked for the two tests (tuner.cpp:47-48) and
\* reports an entry for each in the array it prints, unless it prints an empty
\* one; and one output is a JSON array or a table, not both.
ASSUME OutputAssumption ==
  /\ \E longest \in Scripts : \A s \in Scripts : Len(s.stdout) <= Len(longest.stdout)
  /\ \A s \in Scripts :
       /\ s.stdout \in Seq(Pieces) /\ s.stderr \in Seq(Pieces)
       /\ Places(s.stdout, {"open"}) = {} \/ Places(s.stdout, {"header"}) = {}
       /\ \A i \in Places(s.stdout, {"open"}), j \in Places(s.stdout, {"close"}) :
            LET entries == (i + 1)..(j - 1)
            IN entries # {} /\ entries \subseteq Places(s.stdout, {"entry"}) =>
                 \A t \in {"pp", "tg"} : \E k \in entries : s.stdout[k] = Entry(t)

VARIABLES
  pc,        \* where run_one is
  script,    \* what this llama-bench prints to stdout and to stderr
  bench,     \* the BenchmarkResult
  \* run_captured:
  limited, stage, child, produced, captured, expired, faulty, result,
  \* the sampler:
  running, haveSample, peak, worker, used, gpu, probed

run == <<limited, stage, child, produced, captured, expired, faulty, result>>
sampler == <<running, haveSample, peak, worker, used, gpu, probed>>
vars == <<pc, script, bench, run, sampler>>

Streams == {"stdout", "stderr"}

Longest ==
  CHOOSE n \in {Len(s.stdout) : s \in Scripts} :
    \A s \in Scripts : Len(s.stdout) <= n

Runner  == INSTANCE BoundedRun WITH MaxOutput <- Longest, Codes <- ExitCodes
Sampler == INSTANCE VramSampler

NotRun == [ran |-> FALSE, timedOut |-> FALSE, crashed |-> FALSE, oom |-> FALSE,
           parsed |-> Invalid, peak |-> NoSample]

\* run_llama_binary always sets a total limit.
Init ==
  /\ pc = "start"
  /\ script \in Scripts
  /\ bench = NotRun
  /\ Runner!Init /\ limited
  /\ Sampler!Init

Goto(from, to) == pc = from /\ pc' = to

StartSampler ==
  /\ Goto("start", "run")
  /\ Sampler!Start
  /\ UNCHANGED <<script, bench, run>>

\* A step of run_captured or of its child, which prints its script and no more.
Run ==
  /\ pc = "run" /\ stage # "returned"
  /\ Runner!Next
  /\ \A s \in Streams : produced'[s] <= Len(script[s])
  /\ UNCHANGED <<pc, script, bench, sampler>>

StopSampler ==
  /\ stage = "returned"
  /\ Goto("run", "join")
  /\ Sampler!Stop
  /\ UNCHANGED <<script, bench, run>>

JoinSampler ==
  /\ Goto("join", "classify")
  /\ Sampler!Join
  /\ UNCHANGED <<script, bench, run>>

Text(s) == SubSeq(script[s], 1, captured[s])
Mentions(s, piece) == \E i \in DOMAIN Text(s) : Text(s)[i] = piece

IsCrash(code) == code \in 128..191

Exited == result.outcome = "Exited"

\* Mutant: looks for OOM messages in stdout only.
LikelyOomStdout == Exited /\ Mentions("stdout", OomText)

LikelyOom == Exited /\ \E s \in Streams : Mentions(s, OomText)
Crashed == Exited /\ ~LikelyOom /\ IsCrash(result.code)

\* Only a run that ended by itself, without a crash or signs of an OOM, is
\* parsed.
ParsedOutput ==
  IF Exited /\ ~LikelyOom /\ ~Crashed THEN Parse(Text("stdout")) ELSE Invalid

Classify ==
  /\ Goto("classify", "done")
  /\ bench' = [ran      |-> result.outcome # "FailedToStart",
               timedOut |-> result.outcome = "TimedOut",
               crashed  |-> Crashed,
               oom      |-> LikelyOom,
               parsed   |-> ParsedOutput,
               peak     |-> Sampler!PeakUsedBytes]
  /\ UNCHANGED <<script, run, sampler>>

Usable ==
  /\ bench.ran /\ ~bench.timedOut /\ ~bench.crashed /\ ~bench.oom
  /\ bench.parsed.valid

Sample == Sampler!Worker /\ UNCHANGED <<pc, script, bench, run>>

OthersUseGpu ==
  /\ pc # "done"
  /\ Sampler!GpuChanges /\ UNCHANGED <<pc, script, bench, run>>

Over == pc = "done" /\ UNCHANGED vars

Main == StartSampler \/ StopSampler \/ JoinSampler \/ Classify

Next == Main \/ Run \/ Sample \/ OthersUseGpu \/ Over

Spec == Init /\ [][Next]_vars

\* run_one and the worker are scheduled, and a probe of the GPU answers.  Nothing
\* is assumed of run_captured and its child: they may hang at any point.
FairSpec == Spec /\ WF_vars(Main) /\ WF_vars(Sample)
-----------------------------------------------------------------------------
(* Properties.                                                             *)

TypeOK ==
  /\ pc \in {"start", "run", "join", "classify", "done"}
  /\ script \in Scripts
  /\ bench \in [ran : BOOLEAN, timedOut : BOOLEAN, crashed : BOOLEAN,
                oom : BOOLEAN,
                parsed : [valid : BOOLEAN, prompt : 0..Longest,
                          generation : 0..Longest],
                peak : Levels \cup {NoSample}]
  /\ Sampler!TypeOK
  /\ \A s \in Streams : /\ captured[s] \in 0..produced[s]
                        /\ produced[s] \in 0..Len(script[s])

\* VramSampler!PeakIsHighestProbe as the search sees it: the peak of the result
\* is that of this run, complete, though the worker may have been anywhere in
\* its loop when run_captured returned (tuner.cpp:155-160).
ResultHasThePeak ==
  pc = "done" =>
    bench.peak = IF probed = {} THEN NoSample ELSE Sampler!Highest(probed)

\* A usable result is a measurement.  The run was neither killed nor cut short
\* by an out-of-memory error it printed; and when llama-bench reports JSON, the
\* array was complete, with both figures taken from entries of their own test,
\* whatever exit code, log line or truncation came with it (tuner.cpp:172-189,
\* benchmark_parser.cpp:75-134).
UsableWasMeasured ==
  pc = "done" /\ Usable =>
    /\ ~expired
    /\ faulty \/ \A t \in Streams : \A i \in 1..produced[t] :
                   script[t][i] # OomText
    /\ Open \in {script.stdout[i] : i \in DOMAIN script.stdout} =>
         /\ bench.parsed.prompt # None /\ bench.parsed.generation # None
         /\ script.stdout[bench.parsed.prompt] = Entry("pp")
         /\ script.stdout[bench.parsed.generation] = Entry("tg")

\* While run_captured is at work.
InRunCaptured == pc = "run" /\ stage # "returned"

\* Only run_captured can keep run_one from returning: when it does not hang,
\* run_one returns, wherever the sampler is when it is told to stop, since the
\* join waits for the worker to finish what it is at (tuner.cpp:155-159,
\* vram_sampler.cpp:26-54).  That run_captured may hang, and run_one with it,
\* is the matter of RunCaptured!LimitedRunReturns, which excepts a child that
\* closed both streams (process_runner_posix.cpp:310), and of
\* RunCapturedWin!LimitedRunReturns, which needs the processes that hold the
\* pipes to end (process_runner_win.cpp:342).
RunOneReturns == []<>~InRunCaptured => <>(pc = "done")
=============================================================================

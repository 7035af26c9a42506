# FluxInfer: a verification project

FluxInfer finds the fastest llama.cpp configuration for one model on one
machine, saves it as a profile, and launches llama.cpp with it. These TLA+
modules model its core logic: the search, the processes it runs, the signals it
handles, and the profiles it keeps. Paths are relative to the repository's root;
module names refer to this directory.

## 1. The system

| Component | State it keeps | Operations | Interacts with | Modelled by |
|---|---|---|---|---|
| staged search, `src/tuner/tuner.cpp` | `best`, the bracket (`last_good_*`, `oom_layers` / `failed_ncmoe`, `lowest_failed_ncmoe`), `outcome` | `run`: baseline, dense or MoE offload sweep and bisection, batch, threads, recheck, verdict | one blocking benchmark run per candidate; its caller `cmd_tune` | `StagedSearch`, `SearchPromise` |
| candidate generators, `parameter_space.cpp` | none | percentiles, fitting seed, batch pairs, threads | called by each stage | `ParameterSpace` |
| scoring and VRAM guards, `scoring.cpp` | none | score, spill signature, headroom check | called on every run | `ParameterSpace` |
| one run, `Tuner::run_one` | the result under construction | timeouts, sampler, classification, estimates | process runner, sampler thread, parser | `BenchmarkRun`; estimates and score in `ParameterSpace` |
| captured child, `process_runner_posix.cpp` `run_captured` | capture buffers, limits | start, poll loop, kill, reap | the child through two pipes and its exit status | `RunCaptured`, `BoundedRun` |
| captured child, `process_runner_win.cpp` `run_captured` | capture buffers, the activity counter | start, wait in slices, terminate, join two readers | the child through two pipes and its exit status | `RunCapturedWin`, `BoundedRun` |
| interactive child, `process_runner_posix.cpp` and `main.cpp` | `exited_`, `exit_code_`, `g_active_process` | launch, `wait`, `is_running`, `terminate`, signal handlers | the child through signals and its exit status | `InteractiveChild` |
| line splitting, `process_runner.cpp` | the pending partial line | `feed_lines`, `flush_pending_line` | called from both process runners; no caller sets a callback | not modelled |
| VRAM sampler | `running`, `have_sample`, the peak | `start`, `stop`, `peak_used_bytes` | a worker thread probing the GPU during a run | `VramSampler` |
| hardware probes | none | CPU, memory and GPU queries | the operating system, NVML | not modelled: I/O; their results are constants |
| output parser, `benchmark_parser.cpp` | none | JSON, then markdown | called by `run_one` | `BenchmarkParser` |
| command lines, `llama_runner.cpp`, `main.cpp`, `tuner.cpp` | none | building, merging with the user's arguments, flag and version detection | process runner; the tuner and the commands | `LaunchCommand`; detection in `Profiles` and `Session` |
| GGUF reader, `gguf_metadata.cpp` | position in the file, scalars | walk over the key-value section | `cmd_tune` | `GgufReader` |
| locator, feasibility, comparison | none | pure functions | called by the commands | not modelled |
| profiles and their store | one JSON file per model | identify, check, save, load, validate | `cmd_tune` writes, `run` and `serve` read | `Profiles` |
| menu, `menu.cpp` | the dialogue | choose, plan a tune, plan a server | stdin; main dispatches what it returns | `Menu` |
| commands, `main.cpp` | the command in progress | tune, run, serve, benchmark, inspect, list | all of the above | `Session`, `Profiles`, `InteractiveChild`; printing commands not modelled |
| installer, build files, tests, vendored libraries | | | | not modelled |

What makes each part correct, and what is hard about it:

* **Search.** The loops share one idea in two mirrored forms, keep their state
  in several locals, and reject a run on three grounds with different
  consequences. What has to hold is a relation between those locals over a
  whole search: the bracket never inverts, never re-measures, converges; the
  best is the best; a run that must not win does not; what is published is what
  was found.
* **Captured child.** Two pipes, two limits and an exit status arrive in any
  order. The output must be complete when the run is reported complete, neither
  side may wait for the other forever, and the limits must fire for the right
  reason.
* **Interactive child.** Signal handlers run on top of `wait()` and on top of
  each other and share two variables with it. The child must be gone when the
  command ends, and the exit code must be the child's.
* **One benchmark run.** A thread samples the GPU while a child runs under limits
  and its output is read; everything the search believes about a configuration is
  decided from what these three leave behind. A result that counts as usable must
  be a measurement, and the measured peak must be this run's.
* **Model files.** Nothing in a GGUF file says where an entry ends; a single wrong
  width makes the reader find its next key in the middle of something else.
* **Command lines.** What is launched has to be what was measured, although the two
  command lines are built by different code for different programs, and the user may
  override any part in any spelling.
* **Menu.** stdin may end at any question.
* **Profiles.** A crash or a full disk during a save, and a machine that
  changed since, must not make a wrong profile look right.

PROJECT.json lists every hazard at its line, with the property that covers it
or the reason why none does yet.

## 2. The modules

```
ParameterSpace <- StagedSearch <- MCStagedSearch   (machines for TLC)
                       |       <- StagedSearch_proofs <- MCStagedSearch_proofs
                       +-> SearchPromise            (abstract specification)
InteractiveChild <- InteractiveChild_proofs

BoundedRun  (abstract specification of run_captured)
   ^   ^  ^
   |   |  +-- RunCaptured    <- MCRunCaptured       (the limits for TLC)
   |   |                     <- RunCaptured_proofs
   |   +----- RunCapturedWin <- MCRunCapturedWin
   |                         <- RunCapturedWin_proofs
   |
BenchmarkRun --> VramSampler                        (INSTANCE)
   ^   +------> BenchmarkParser                     (EXTENDS)
   |
MCBenchmarkRun                                      (outputs of llama-bench)
BenchmarkRun_proofs

Menu  GgufReader                                    (INSTANCE)
   ^   ^
   |   |
  Session --> LaunchCommand                         (EXTENDS)
   ^
   |
MCSession                                           (models, files, arguments)
Session_proofs

Profiles <- Profiles_proofs
```

`MCStagedSearch_proofs` extends `MCStagedSearch` too, whose machines its theorems are about.

### ParameterSpace

The configuration space, every candidate generator, the outcome of a run as the
search sees it, its score and the two VRAM guards.

* Memory is in units of 512 MiB, so all thresholds of the code are whole.
  Throughputs are whole tokens per second; scores are hundredths of the code's.
  Integer division stands for the code's floating point where the code truncates
  or rounds, and for the weights of the score.
* `status` has three values because the search tells only these apart: usable,
  recognised OOM, and any other failure. `tight` stands for the measured peak:
  a valid sample that left less than the headroom free.
* A batch pair is its place in the list of four; `n_cpu_moe` has the extra value
  `Unset`.
* A generator that returns a vector is a set here; the stage that walks it takes
  the least (or, for expert placement, the greatest) element first.

### StagedSearch

`Tuner::run`, one action per iteration of a loop. `pc` is the stage, `todo` the
part of its axis not yet visited. `best`, `lastGood`, `lastGoodResult`, `bad`
(`oom_layers` / `failed_ncmoe`), `lowestFailed` and `probes` are the code's locals,
`outcome` is what the caller gets. `kept` is the only history variable: of the
runs recorded in `outcome.all_results`, the best score of those not rejected, and
whether one of them left headroom.

| Code (`tuner.cpp`) | Action |
|---|---|
| 263-267 | `Unreadable` |
| 269-292 | `Baseline` |
| 307-350, 352-390 | `DenseProbe`, `DenseSkip`, `DenseRefine`, `DenseDone` |
| 405-459, 463-465, 471-514 | `MoeProbe`, `MoeSkip`, `MoeSwept`, `MoeRefine`, `MoeDone` |
| 523-537 | `BatchStart`, `BatchProbe` |
| 540-559 | `ThreadStart`, `ThreadProbe`, `ThreadSkip` |
| 561-618 | `Publish`, `Recheck` |
| 620-627 | `Finish` |

The benchmark is the operator constant `Possible(world, cfg)`: the set of outcomes a
run of `cfg` may have. The proofs say nothing about it but its type. `MCStagedSearch`
gives it two kinds of machine, told apart by `world`: a noisy one, where everything is
possible at every run, and one for every ceiling of VRAM. There a configuration demands the
layers it offloads and the buffers of its batch (`Buffers`, any function); up to the ceiling
a run is one of `Healthy`, past it one of `Overflow`. Both are constants: healthy runs have
any speed and leave the headroom free, an overflow is anything at all, a failure or a success with or without a full card.

What the code can do about a success past the ceiling depends on what it looks like, and
README.md:515-520 says where that ends: a spill that costs less than about 40 % of the
throughput is not flagged, nor is any without NVML samples. `Recognisable` is that condition
on `Healthy` and `Overflow`: every successful overflow was sampled with a full card and is
below 60 % of every healthy run, in generation or in prompt processing. It is a property of
the machine, stated without the guard `LooksLikeSpill`. `BestFits` and `ConvergesToCeiling`
are claimed, checked and proved of machines with it; of others nothing is claimed, and a
mild or unsampled spill that scores well refutes them. It does not make them immediate: the code judges a run not against what fits but
against its last good run or its best run, so that both must be shown to fit at every stage.

### SearchPromise

What a caller of `Tuner::run` may rely on, without stages: a best score that only
improves, a result assigned once, success exactly when something worked.
`StagedSearch!KeepsPromise` is the refinement; the mapping takes `phase` from `pc` and
the scores from `best` and `outcome.best`.

The abstract specification deliberately lets `score` rise after `published` is
assigned, because the code does; the run `search_published` shows what that costs.

### InteractiveChild

FluxInfer has one thread, so the state of the program is a stack of frames:
`cmd_run` at the bottom, above it one call of `terminate()` per signal being handled.
An action is one system call or one assignment of the top frame; a signal may be
delivered between any two. A frame's `status` is the local of `wait()` or
`is_running()`; the assignments of `exited_` and `exit_code_`, adjacent and not
separated by a system call, are one action.

* Signals are installed with `std::signal`, which on the supported systems blocks a
  signal during its own handler and restarts the interrupted `waitpid`.
* `Grace` polls stand for 50; nothing depends on the number.
* `child.stubborn` is a child that ignores SIGTERM and SIGINT. `reaper`
  (history) is the call whose `waitpid` obtained the status.
* SIGINT reaches the child too, as it does from a terminal; SIGTERM reaches
  FluxInfer only.
* `cmd_serve` differs from `cmd_run` only in the program and arguments it launches.

### RunCaptured

One call of `run_captured` against a child that writes, closes a stream, blocks on a
full pipe, exits or hangs whenever it likes. A pipe is the difference between
`written` and `got`. `PollReady` records which descriptors had events, and the two
reads that follow act on that record, as the code does on `revents`, while the child
goes on. `limit` joins `timed_out` and `idle_timed_out`.

* The limits are the variable `options`, any combination of the listed ones, so one run
  covers calls with and without each.
* `clock` advances only while FluxInfer is blocked in `poll` or `waitpid`. Properties
  about time therefore show what the code does at best; `HardBound` fails even so.
* `Faults` selects what may go wrong: a failing `pipe`, `fork`, `exec` or `poll`, an
  interrupted `poll` (`signal`), and a child that closes a stream before it ends
  (`close`). A signal interrupts `poll` only when it has nothing to report.
* Not modelled: descriptors, the text of the output, `read` errors, descendants of
  the child that keep its pipes open.

`RunCaptured!KeepsPromise` maps the run to `BoundedRun`: `expired` is a limit that has
fired, `faulty` a `poll` that failed.

### BoundedRun

What `process_runner.hpp` promises the callers of `run_captured`, without pipes, polls
or threads: a child is started at most once, what it writes is captured in order, and a
run is `Exited` only when no limit expired, the child ended, and all it wrote was
captured. `RunCaptured` and `RunCapturedWin` both implement it; `BenchmarkRun` is built
on it, so that what is shown there holds on both platforms.

### RunCapturedWin

The Windows `run_captured`: the main thread waits for the process, two `ReaderThread`s
drain the pipes and bump a shared counter, and the main thread looks at the counter
between slices of its wait. A chunk is appended in one step and counted in the next, as
in the code. `BeginWait` is the moment at which `last_seen` is loaded, which may be after
the readers have counted something.

* `TerminateProcess` only asks: a child is `dying` until `Dies`, which need not happen.
* With `"descendant"` in `Faults` the end of the child does not close the pipes; the join
  then waits for `DescendantEnds`, which the premise of `LimitedRunReturns` demands.
* As in `RunCaptured`, `clock` advances only while all three threads are blocked.
* Not modelled: the quoting of the command line, the environment block, handles.

### VramSampler

The worker thread and its three atomics, each access a step. The owner's `stop` is two
steps, the exchange (`Stop`) and the join (`Join`). `probed` (history) is what the worker
found since `start`. The ABA of two `start`s is covered by `Start` resetting what the
previous measurement left.

### BenchmarkParser

`parse_llama_bench_output` over the pieces of text it tells apart: brackets and entries of
a JSON array, header, separator and rows of a markdown table, an OOM message, in any order
and cut anywhere. A figure is the place it was read from, which is what
`UsableWasMeasured` is about. Entries are well formed: a field of the wrong type would
throw (benchmark_parser.cpp:102), which is not modelled.

### BenchmarkRun

`Tuner::run_one` and `run_llama_binary`, composed of `BoundedRun` (the child prints one of
`Scripts` and may be stopped anywhere in it), `VramSampler` and `BenchmarkParser`. `pc` is
the place in `run_one`, `bench` the `BenchmarkResult`.

| Code | Action |
|---|---|
| tuner.cpp:155-156 | `StartSampler` |
| llama_runner.cpp:203 | `Run` (a step of `BoundedRun`) |
| tuner.cpp:159 | `StopSampler`, `JoinSampler` |
| tuner.cpp:160-189, llama_runner.cpp:205-228 | `Classify` |

The lengths of the limits are not modelled, only that a total one is always set;
`BoundedRun!Expire` may happen at any time. Crash codes are those of POSIX.

### LaunchCommand

Operators for the command line llama-bench is measured with, the one llama-cli and
llama-server are started with, and the merge with the user's arguments. An argument is
a flag, possibly with a value after `=`, or a value. `Spellings`, `Settings` and `Stray`
say what a command line means to llama.cpp and belong to the property `ServedAsMeasured`.
`At`, the elements of a sequence at some of its positions, is both what the merge keeps and
what an option is given: one operator, and the lemmas about it serve both sides of the proof.

### GgufReader

`parse_gguf_metadata`, one entry per step. A file is a list of entries as a writer laid
them out, each with the number of bytes it takes, and a size at which the file is cut. The
reader sees neither: it computes the next position from the types, lengths and counts, and
an entry is read only where one starts. At a position where none starts it is taken to
fail; the code could also take what it finds there for an entry, which would make a wrong
width no less wrong. Ceilings are constants, small ones for TLC. `IsFile` says what the
format allows: it is external, repeats the widths the reader has in `FixedSize`, and leaves an
entry of unknown type any length.

### Menu

`run_menu`, `choose_model`, `plan_tune` and `plan_serve`, one question per step. `Reads`
is `read_line`; the questions with a default take the end of stdin for an empty line, as
the code does. The models in the list are a constant. `HasProfileFor` compares file names,
and `NamedAfter` says which begin like which.

### Session

`main` from the dispatch on: the menu, `tune`, `run` and `serve`, in any order and number,
one at a time. `tune` reads the model file with `GgufReader`, takes an outcome the search may
have for the metadata, and saves a profile; `run` and `serve` load one, build the command line
with `LaunchCommand` and start the tool.

* The search is abstract here (`Winners`: the baseline and both ends of each axis the metadata
  open); `StagedSearch` has the rest. That a profile may be refused at any time stands for
  all of `Profiles`.
* `profiles[m].measured` is the command line of llama-bench the winner was measured with.
* `Stoul` throws on what is not a number; nothing catches it, and the command ends.
* Not modelled: the comparison after a tune, numbers that do not fit, `benchmark`, `inspect`,
  `hardware`, `doctor` and the list of profiles, which print and change nothing.

### Profiles

Commands of two kinds on one profiles directory. A tune probes the directory,
identifies the model, the hardware and the flags, searches (one step here,
`StagedSearch` there), asks for the version, and saves. A run makes the same
look-ups and decides on the file it finds. Every look-up and every file operation is
a step of its own, and between any two of them the other command may act, either may
be killed, and the machine, the disk or the directory may change.

* `Casts` says which commands take part together: a tune and a run, or two tunes. The
  machine, the disk and the directory change only where a run takes part, which keeps
  the state space of two tunes small; their saves overlap all the same.
* Names refer to inodes, so that a file renamed or truncated by one tune is still the
  file another has open. `Files` frees what neither a name nor a descriptor holds.
* A document is one whole profile or `Torn`: a prefix of a JSON object is not JSON, and
  neither is one with a tail, so nothing else can be told apart by `load_valid`.
* The write of a long document fails where `save` looks (profile_store.cpp:71); that of a
  short one fails in the destructor, where nobody looks. Which one a profile is depends
  on the library and on how many flags the build has, so `WriteTmp` may do either.
* `past` (in each profile: the machines in place since the model was identified, and
  since the search began) and `hurt` are history variables. `hurt` holds the models whose
  stored profile the code does not protect: two saves of one model overlapped, the disk
  was full when a buffered document was closed, or `rename` failed and the fallback
  copied over the stored file. For every other model `OnlySuccessReplaces` holds through
  kills, full disks and failing saves.
* A machine once replaced does not come back: `Replace` installs something new. With a
  model file or a build that is swapped out and back during the search,
  `MeasuredWhatItNames` would not hold; FluxInfer cannot notice that.
* The version is left out of `MeasuredWhatItNames`, because it is looked up after the
  search (main.cpp:423): a build replaced during the search by one with the same flags
  is recorded under the new version.
* Not modelled: a power failure (nothing is synced, so a renamed file may be empty
  afterwards), a model file that changes while it is hashed, several model files of one
  name and fingerprint.

## 3. Runs

| Run | Bounds | Shows |
|---|---|---|
| `search_dense` | 64 layers, the noisy machine and 65 ceilings (OOM or recognisable spills), six speeds there, three batch pairs, three thread counts | `BracketOnlyShrinks`, `BestIsTop`, `VerdictMatchesOutcome`, `KeepsPromise`, `ConvergesToCeiling`, `BestFits` |
| `search_moe` | 16 layers, the noisy machine and 17 ceilings (OOM, failure or recognisable spills) | `TypeOK`, `BracketOrdered`, `BracketOnlyShrinks`, `ConvergesToCeiling`, `PlacementCoherent`, `MoeStageKeepsMargin` |
| `interactive` | 3 signals, 2 polls | `TypeOK`, `ExitedMeansReaped`, `OwnStatusSurvives`, `TerminateEndsTheChild`, `SignalEndsTheCommand` |
| `captured` | total limit 3 or none, idle limit 2 or none, time to 3; pipes of 2, reads of 2, up to 3 bytes per stream; every fault | `TypeOK`, `ExitedIsComplete`, `IdleMeansSilent`, `LimitedRunReturns`, `DrainedRunReturns`, `KeepsPromise` |
| `captured_win` | total limit 4 or none, idle limit 3 or none; slices of 2, a grace of 1, time to 7; pipes of 1, reads of 2, up to 2 bytes per stream; every fault | `TypeOK`, `LimitsArePunctual`, `IdleMeansSilent`, `LimitedRunReturns`, `KeepsPromise` |
| `profiles` | one tune beside one run with one change of the machine, the disk or the directory; two tunes; a flag probe that may fail | `TypeOK`, `MeasuredWhatItNames`, `RefusedForAReason`, `OnlySuccessReplaces` |
| `benchmark_run` | six outputs, three exit codes, two levels of VRAM | `TypeOK`, `ResultHasThePeak`, `UsableWasMeasured`, `RunOneReturns` |
| `session` | three models, one profile at a time, 19 model files (5 whole, 8 cut, 6 damaged), 57 lists of user arguments, two sets of flags of llama-bench and three of the tools | `TypeOK`, `MetadataIsTheFiles`, `ServedAsMeasured`, `EndOfInputEnds` |

Why the bounds are enough. In the search every decision compares two values, so
the noise needs speeds on both sides of the collapse ratio and of each other (10,
20, 30), and the bracket needs a gap in which several midpoints fit. The spills of the
machines with a ceiling are just under the collapse ratio in one of the two throughputs (11
against 20, 59 against 100) and as good or better in the other, so that two of the three may
beat every healthy run by score; a larger batch takes one more layer's VRAM, so that the trials
of the batch stage overflow too. For
convergence the number of layers is the point: gaps between percentiles of 64
layers are 16 wide, the most that four probes can halve down to one.
**Beyond 64 layers four probes may leave a wider gap**; and when an excess shows
only as timeouts, the dense sweep has no boundary and never refines. The
MoE sweep does, from its lowest failure, but then the gap it starts from spans
more than one percentile and four probes suffice only up to 16 layers.
In `RunCaptured` a pipe smaller than what the child writes makes it block and makes
draining take several rounds, and both limits lie inside `MaxTime`. In `InteractiveChild` three signals give both nestings of the two
handlers and a signal pending behind its own handler. In `Profiles` commands start
over without a limit, so a second tune meets what a killed one left behind; one change
is what each property needs to be wrong (a machine that differs before and after, a disk
that fills between two steps), and the disk and the directory start in any state. Two
changes of which one undoes the other on the disk are not covered.
In `RunCapturedWin` the idle limit is longer than a slice and shorter than the time left,
so that a window starts late and ends late; one byte per pipe makes the child block.
In `BenchmarkRun` each output is there for one way in which a part of it could pass for
the whole, and two levels make a peak that is lost different from one that is kept.
In `Session` the cuts fall inside every kind of field (a length, a key, a type, a value) and
just before the end, the damage reaches every refusal of the reader, and two user arguments
are enough to name one option twice, in two spellings or in a wrong order. Typed figures
are the default, one number and one that is none.

The search needs no fairness: no property of it is a liveness property. It cannot
run forever, because every step removes a value from `todo`, spends a probe or
moves on a stage, and it cannot get stuck, because deadlock is checked and only
`Returned`, `Over` and `Ended` may stutter.

Runs expected to find a violation, each of one sentence of the documentation:

| Run | Sentence | What the code does |
|---|---|---|
| `search_published` | README.md:246, the highest-scoring usable configuration is saved | the recheck's winner is not: `outcome.best` was assigned before (tuner.cpp:561) |
| `interactive_code` | process_runner.hpp:83, `wait` returns the exit code | 0 when a handler reaped the child (process_runner_posix.cpp:133) |
| `profiles_bench` | README.md:525-527, without llama-bench the validation of version and flags is skipped | the empty snapshot is compared all the same, and every profile is refused (main.cpp:523, profile.cpp:205) |
| `captured_bound` | process_runner.hpp:32, hard upper bound on total run time | not once both streams are closed (process_runner_posix.cpp:310) |

Other places where the code and a sentence about it differ, which the models show but
no run is spent on:

* benchmark_result.hpp:61, a run without headroom is not promoted while a configuration
  with margin exists: the batch and thread stages check only for a spill (tuner.cpp:525, 547).
* README.md:364, SIGTERM is forwarded: not between the launch and the installation of the
  handlers (main.cpp:628-634).
* menu.cpp:47-49, every caller treats the end of input as "quit": at "Continue?" it is a yes
  and starts a tune, at the questions about the server it starts the server (menu.cpp:60-82).
* llama_runner.cpp:35-36, either spelling of an override suppresses the profile's: not
  `-ncmoe`, which no group lists. llama.cpp takes the user's value, which comes last.
* gguf_metadata.hpp:16-19, a field is set only by a correctly typed entry: a bool sets it to 1
  or 0 (gguf_metadata.cpp:90).

### Fairness

* `InteractiveChild!FairSpec`: FluxInfer's thread runs (`WF(Program)`), pending signals
  are delivered, and the kernel carries out a kill. The child is not assumed to exit
  or to obey; signals are finitely many, as `MaxSignals` says.
* `RunCaptured!FairSpec`: FluxInfer's thread runs (`WF(Runner)`), and time passes. The
  latter is strong fairness, because a signal that keeps interrupting `poll` makes it
  blocked again and again rather than for good; it does not stop the clock. Failures
  and interruptions (`Mishap`) are never forced to happen, and nothing is assumed of the
  child. `DrainedRunReturns` alone adds, as its own premise, a child that keeps
  running, which is what "returns when the child ends" needs.

* `RunCapturedWin!FairSpec`: the main thread and both readers run (`WF`) and time passes.
  Nothing is assumed of the child, its descendants or the driver that holds it;
  `LimitedRunReturns` names what it needs of them as its premise.
* `BenchmarkRun!FairSpec`: `run_one` and the worker run, and a probe of the GPU answers.
  Nothing is assumed of `run_captured`, which may hang at any point; `RunOneReturns` says that
  nothing else can keep `run_one` from returning. Whether `run_captured` hangs is
  `LimitedRunReturns` of the two runners, with its exceptions: on POSIX a child that closed both
  streams and runs on is waited for without a limit (process_runner_posix.cpp:310, the run
  `captured_bound`), and on Windows the join waits for whoever holds the pipes
  (process_runner_win.cpp:342). In these cases `run_one`, and the search, hang too.
* `Session!FairSpec`: the program's own steps happen, and reading a closed stdin returns.
  Neither a user who types nor a child that ends is assumed.

## 4. Proofs

`StagedSearch_proofs` proves, for every number of layers, every machine and every
behaviour of the benchmark (assumptions `ParameterAssumption` and
`SearchAssumption`: the constants have their types, and the headroom in force is
positive, which the default guarantees):

| Theorem | States | Along |
|---|---|---|
| `TypeCorrect` | `[]TypeOK` | lemmas on the generators: every candidate is a `Config`, every midpoint lies in the axis |
| `BracketStaysOrdered` | `[]BracketOrdered` | `BracketInv`, which adds that both ends are unset before the sweep and that what is left of `todo` lies on the unvisited side of `lastGood` |
| `BracketShrinks` | `BracketOnlyShrinks` | the same invariant: without it a midpoint could lie outside the bracket |
| `BestStaysOnTop` | `[]BestIsTop` | `SearchInv`: `Fresh /\ Top /\ Verdict` |
| `VerdictIsRight` | `[]VerdictMatchesOutcome` | `SearchInv`: after `Publish` the score of `outcome.best` is no worse than usable whenever `best` is usable, because an unusable best is not rechecked |
| `MoeStageMargin` | `MoeStageKeepsMargin` | `SearchInv`: a kept run with margin means the best is usable, so the guard of the MoE stage applies |
| `PlacementStaysCoherent` | `[]PlacementCoherent` | `Placed`, coherence of `base` besides that of `best` and `outcome.best` |
| `SearchKeepsPromise` | `KeepsPromise` | step by step: every action of the search is `Improve`, `Publish`, `Conclude`, `GiveUp` or a stutter |

`BracketOrdered` is not inductive: a sweep keeps it only because it visits values in
order, which `BracketInv` records as a relation between `todo` and `lastGood`.

`MCStagedSearch_proofs` proves what the search promises on a machine with a ceiling of VRAM,
for every ceiling, every model, every cost of a batch and every set of healthy and overflowing
runs (`MachineAssumption`: a world does what `Benchmark` says), under the hypothesis
`Recognisable`, the limit that README.md:515-520 gives for the guard:

| Theorem | States | Along |
|---|---|---|
| `BestAlwaysFits` | `Recognisable` gives `[]BestFits` | `FitInv`: whatever a run is judged against fits, from the first value of each sweep on, which asks for no VRAM; so that a run past the ceiling, if it succeeds, is compared with one that shows it for a spill. One spill accepted, as a milder one would be, lowers the reference for all that follow |
| `SearchConverges` | `Recognisable` and `WithinReach` give `[]ConvergesToCeiling` | `ReachInv`: the sweep has its ends next to the ceiling, as far as it has come; they are at most 16 apart when it is over, and four probes halve 16 to 1. `WithinReach`: up to 64 layers where no overflow is an inconclusive failure, up to 16 layers of experts also if some are |

Without their hypotheses neither holds: see `StagedSearch` in section 2 and the bounds in
section 3.

The other proofs, each along an inductive invariant over places and what must hold there:

| Theorem | States | Along |
|---|---|---|
| `InteractiveChild_proofs!ReapedBeforeExited` | `[]ExitedMeansReaped` | `ReapedInv`: every frame of the stack that holds a status to record belongs to a reaped child |
| `InteractiveChild_proofs!StatusSurvives` | `[]OwnStatusSurvives` | `OwnInv`: a status `cmd_run` obtained waits in its own frame, which is below every handler's |
| `InteractiveChild_proofs!TerminateIsFinal` | `TerminateEndsTheChild` | `ReapedInv`, at the only two places a call returns from |
| `InteractiveChild_proofs!TypeCorrect` | `[]TypeOK` | `SignalInv`: no handler has two frames and no signal is pending before its handler is installed, so the stack cannot outgrow the kinds of signal |
| `RunCaptured_proofs!RunKeepsPromise` | `KeepsPromise` | `StreamInv`: what poll reported stays readable until it is read, so an empty read is the end; a stream at its end has been captured |
| `RunCaptured_proofs!RunIsComplete` | `[]ExitedIsComplete` | `StreamInv` |
| `RunCaptured_proofs!IdleIsSilence` | `[]IdleMeansSilent` | `TimeInv`: a write is no later than the activity the runner noted last, or it came just now and waits in a pipe that is polled |
| `RunCaptured_proofs!TypeCorrect` | `[]TypeOK` | `BoundsInv`: a pipe never holds more than its capacity, and a poll gives up at a moment or never |
| `RunCapturedWin_proofs!RunKeepsPromise` | `KeepsPromise` | `ReaderInv`: a reader is done only when its stream is closed and captured; `MainInv`: the main thread joins without a limit only after the process ended |
| `RunCapturedWin_proofs!IdleIsSilence` | `[]IdleMeansSilent` | `TimeInv`: a write is no later than the activity noted last, or the counter has changed since, or it came just now and is still to be counted |
| `RunCapturedWin_proofs!LimitsHold` | `[]LimitsArePunctual` | `WaitInv`, `SliceInv`: a slice follows the write it counts from by as much as the limit and the slice before it allow, so that the window may start one slice late and end another late |
| `RunCapturedWin_proofs!TypeCorrect` | `[]TypeOK` | `BoundsInv` |
| `BenchmarkRun_proofs!PeakOfTheRun` | `[]ResultHasThePeak` | `PeakInv`, the peak and the flag at each place of the worker; `OwnerInv`, no worker before `StartSampler` and after the join |
| `BenchmarkRun_proofs!UsableIsMeasured` | `[]UsableWasMeasured` | `RunInv`: what was captured is a prefix of what the child prints, and of an array only the whole is JSON |
| `BenchmarkRun_proofs!TypeCorrect` | `[]TypeOK` | `RunInv`, `BenchInv` |
| `Profiles_proofs!AcceptedWasMeasured` | `[]MeasuredWhatItNames` | `DocumentInv`: every whole document is vouched for. What a tune found out was true of a machine it met, and is no newer than any machine its search ran on, which are no newer than the one in place |
| `Profiles_proofs!RefusedWithReason` | `[]RefusedForAReason` | the same, with `CommandInv`: what each place of a command has looked up |
| `Profiles_proofs!StoredProfileSurvives` | `OnlySuccessReplaces` | `NameInv`: no inode has two names, and no tune writes to a file that bears another model's; `AloneInv`: the tune of a model not in `hurt` is alone with its temporary file |
| `Profiles_proofs!TypeCorrect` | `[]TypeOK` | `FileInv`, and the count of inodes: a fresh one is always left |
| `Session_proofs!LaunchedAsMeasured` | `[]ServedAsMeasured` | `SInv`: a stored profile holds the command line of its own configuration, a job names what its command needs, the menu's action can be dispatched. What is launched then follows from the operators alone: `CommandLine` |
| `Session_proofs!MetadataIsRight` | `[]MetadataIsTheFiles` | `ReadingInv`: the reader stands where an entry begins that follows legal ones, or it has failed on a section that is not whole; `KeptInv`: the scalars kept are the first under their keys, and every key is kept |
| `Session_proofs!TypeCorrect` | `[]TypeOK` | `TypeInv` with the other two |

`CommandLine` puts the operators of `LaunchCommand` together: a builder yields a list of
[flag, value] pairs in which no flag occurs twice (`Part`), an override filters such a list
without parting a value from its flag (`Filters`), and the settings of a concatenation are
those of its halves (`SettingsTogether`). The two exceptions of `ServedAsMeasured` come out
where the cases of the proof do: a context of 0, and `-ncmoe`, which no alias group lists.

`ReadsEntry` says that an entry is passed exactly if it is legal and there, whatever it
holds, and `OffsetsGrow` that no two entries begin at the same place. Their operators are
recursive functions over `0..n`; `Recursion` proves once that such a function exists, by
induction over a set of numbers.

They hold for any limits, sizes, counts, files and faults that the named assumptions allow
(`CaptureAssumption`, `InteractiveAssumption`, `BenchmarkAssumption`, `ProfilesAssumption`,
`SessionAssumption`): numbers are natural or unset, pipes and buffers are not empty. None needs
a bound on output or time. Four assumptions say more than a type. `OutputAssumption`:
llama-bench is asked for two tests and prints an entry for each or none, and an array or a
table. `ProfilesAssumption`: there are inodes enough for every name and descriptor.
`SessionAssumption`: a model file is one the format allows, cut or damaged as it may be; what
is found in a tool's help are long flags; and the user does not hand llama.cpp the depth flags
of llama-bench.

What an invariant adds is where the difficulty was. In `InteractiveChild`,
`ExitedMeansReaped` alone is not inductive: the assignment of `exited_` is a step after the
`waitpid` that justifies it, with handlers in between. In `RunCaptured`, the read that ends a
stream relies on what a poll two steps earlier saw. In `Profiles`, that a stored profile
survives rests on who else has its temporary file open. In `Session`, a key that occurs twice
makes the scalars kept depend on all entries before.

Only model-checked is liveness (`SignalEndsTheCommand`, `LimitedRunReturns`,
`DrainedRunReturns`, `RunOneReturns`, `EndOfInputEnds`), which is out of the prover's reach,
and the four disagreements of section 3, each a counterexample. Every invariant and every
action property that a run checks is a theorem.

## 5. Not modelled

* **Line splitting** (`process_runner.cpp`, `line_buffer.hpp`): a pure function of the chunks
  read, feeding callbacks that no caller in the program sets.
* **Locator**: the first file that exists in a list; its outcome is a choice in `Profiles`
  and `Session`.
* **Feasibility**: an estimate printed before the search, which decides nothing.
* **Comparison**: floating-point statistics and a report, written after the profile is
  saved; nothing reads them back.
* **Hardware probes**: queries of the operating system and of NVML, without state.
* **Windows beyond `run_captured`**: quoting, the environment block, and an interactive
  process that keeps no state and is driven by one console handler.
* **Text**: help output searched with regular expressions, JSON and markdown formatting,
  labels, messages.
* **Installer, build files, tests, vendored libraries**.

## 6. Plan

1. *Done*: `ParameterSpace`, `StagedSearch`, `SearchPromise` and their proofs;
   `InteractiveChild`; `RunCaptured` and `RunCapturedWin` with `BoundedRun`; `VramSampler`,
   `BenchmarkParser` and `BenchmarkRun`; `LaunchCommand`, `GgufReader`, `Menu` and `Session`;
   `Profiles`.
2. *Done*: every invariant and every action property of the runs as a theorem, both runners as
   implementations of `BoundedRun`, and the search as one of `SearchPromise`. Left: the
   termination of the search as a measure that every step lowers, and the actions of `Session`
   as an implementation of a specification of one command.
3. Pure parts against reference definitions, should a caller come to depend on them:
   `LineBuffer`, `Comparison`, `Feasibility`, `LlamaLocator`.

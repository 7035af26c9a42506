-------------------------------- MODULE Session --------------------------------
(***************************************************************************)
(* One command after the other, as src/src/main.cpp carries them out: the  *)
(* menu and its dispatch, `tune`, which reads the model's metadata,        *)
(* searches and saves a profile, and `run` and `serve`, which load it and  *)
(* start llama-cli or llama-server with it.                                *)
(*                                                                         *)
(* The composition of Menu, GgufReader and LaunchCommand.  The search is   *)
(* any outcome StagedSearch may have for the metadata; whether a profile   *)
(* that exists still applies is the subject of Profiles, here it may be    *)
(* refused at any time; a child that was started is InteractiveChild's.    *)
(***************************************************************************)
EXTENDS Integers, LaunchCommand

CONSTANTS
  Models, Listed, NamedAfter, Figures,  \* see Menu
  Files, MaxKeyBytes, MaxStringBytes, MaxKvCount, MaxArrayElements,  \* see GgufReader
  UserArguments,  \* what may follow `--`
  BenchFlags,     \* the sets of flags llama-bench may turn out to support
  LaunchFlags,    \* the same for llama-cli and llama-server
  MaxProfiles     \* bound: models that have a profile at once

VARIABLES
  pc,        \* where the command is
  job,       \* what it was asked to do
  profiles,  \* the profile stored for each model, and how it was measured
  command,   \* what was launched
  at, closed, action, purpose,         \* see Menu
  file, pos, walked, scalars, gguf     \* see GgufReader

menu == <<at, closed, action, purpose>>
reader == <<file, pos, walked, scalars, gguf>>
vars == <<pc, job, profiles, command, menu, reader>>

M == INSTANCE Menu
G == INSTANCE GgufReader WITH Absent <- NoValue

ASSUME SessionAssumption ==
  /\ Listed \in Seq(Models)
  /\ NamedAfter \subseteq Models \X Models
  /\ MaxProfiles \in Nat
  /\ {} \in BenchFlags /\ {} \in LaunchFlags  \* --help failed
  /\ {MaxKeyBytes, MaxStringBytes, MaxKvCount, MaxArrayElements} \subseteq Nat
  /\ \A f \in Files : G!IsFile(f)
  \* What is found in the tool's help is long flags (llama_runner.cpp:73), and
  \* not one of llama-bench alone.
  /\ \A flags \in LaunchFlags : flags \cap (ShortFlags \cup Depth) = {}
  \* The user means a flag the tool has.
  /\ \A user \in UserArguments :
       /\ user \in Seq(Range(user))
       /\ \A a \in Range(user) : IsFlag(a) => a.flag \notin Depth

Tools == {"llama-cli", "llama-server"}

NoJob == [kind |-> "none"]
Tuning(m, c) == [kind |-> "tune", model |-> m, context |-> c, bench |-> {}, best |-> NoValue]
Launching(tool, m, user) == [kind |-> tool, model |-> m, user |-> user]

Init ==
  /\ pc = "idle" /\ job = NoJob
  /\ profiles = [m \in Models |-> NoValue]
  /\ command = NoValue
  /\ M!Off /\ G!Unread

Tuned == {m \in Models : profiles[m] # NoValue}

End == pc' = "idle" /\ job' = NoJob

-----------------------------------------------------------------------------
(* main: the commands, and the dispatch of the menu's actions.             *)

BeginMenu ==
  /\ pc = "idle" /\ pc' = "menu"
  /\ M!Start
  /\ UNCHANGED <<job, profiles, command, reader>>

\* What std::stoul makes of a line; nothing, where it throws.
Stoul(line) == CASE line = "4096" -> 4096 [] line = "8192" -> 8192 [] line = "0" -> 0
                 [] OTHER -> NoValue

\* CLI11 refuses what is not a number.
BeginTune(m, line) ==
  /\ pc = "idle" /\ Stoul(line) # NoValue
  /\ pc' = "tune" /\ job' = Tuning(m, Stoul(line))
  /\ UNCHANGED <<profiles, command, menu, reader>>

BeginLaunch(tool, m, user) ==
  /\ pc = "idle" /\ pc' = "load"
  /\ job' = Launching(tool, m, user)
  /\ UNCHANGED <<profiles, command, menu, reader>>

UseMenu(line) ==
  /\ pc = "menu"
  /\ \/ M!Answer(line)
     \/ M!Check(Tuned)
  /\ UNCHANGED <<pc, job, profiles, command, reader>>

\* The numbers the user typed are converted here; nothing catches what stoul
\* throws.  The doctor returns to the menu, the others do not.
Dispatch ==
  /\ pc = "menu" /\ at = "planned"
  /\ CASE action.kind = "None"   -> End /\ M!Leave
       [] action.kind = "Doctor" ->
            /\ at' = "choice" /\ action' = M!None
            /\ UNCHANGED <<pc, job, closed, purpose>>
       [] action.kind = "Serve"  ->
            /\ pc' = "load"
            /\ job' = Launching("llama-server", action.model, action.extra)
            /\ M!Leave
       [] action.kind = "Tune"   ->
            /\ IF NoValue \in {Stoul(action.context), Stoul(action.headroom)}
               THEN End
               ELSE pc' = "tune" /\ job' = Tuning(action.model, Stoul(action.context))
            /\ M!Leave
  /\ UNCHANGED <<profiles, command, reader>>

-----------------------------------------------------------------------------
(* cmd_tune                                                                *)

\* The directory cannot be written, the model cannot be read or there is no
\* llama-bench: nothing is started.  Otherwise its flags are asked for and the
\* model file is opened.
Prepare(f) ==
  /\ pc = "tune"
  /\ \/ End /\ UNCHANGED reader
     \/ /\ \E flags \in BenchFlags : job' = [job EXCEPT !.bench = flags]
        /\ pc' = "reading"
        /\ G!Open(f)
  /\ UNCHANGED <<profiles, command, menu>>

ReadMetadata ==
  /\ pc = "reading"
  /\ G!Read
  /\ UNCHANGED <<pc, job, profiles, command, menu>>

Config(context, layers, moe) ==
  [threads |-> 4, gpu_layers |-> layers, batch |-> 512, ubatch |-> 256,
   context |-> context, n_cpu_moe |-> moe, kv |-> NoValue]

\* options.real_layer_count and options.expert_count.
RealLayerCount == gguf.field["block_count"]
ExpertCount == gguf.field["expert_count"]

HasLayers == RealLayerCount # NoValue /\ RealLayerCount > 0
MoeTunable == /\ HasLayers /\ ExpertCount # NoValue /\ ExpertCount > 1
              /\ "--n-cpu-moe" \in job.bench

\* What the search may settle for: the baseline on the CPU, an end of the range
\* of layers, an end of the range of experts (where --no-moe-tune is not given).
Winners ==
  {Config(job.context, 0, NoValue)}
  \cup {Config(job.context, RealLayerCount, NoValue) : x \in IF HasLayers THEN {0} ELSE {}}
  \cup {Config(job.context, RealLayerCount, n) :
          n \in IF MoeTunable THEN {0, RealLayerCount} ELSE {}}

\* A file without valid metadata is tuned all the same.
Search ==
  /\ pc = "reading" /\ gguf # NoValue
  /\ \/ End
     \/ /\ \E c \in Winners : job' = [job EXCEPT !.best = c]
        /\ pc' = "save"
  /\ G!Close
  /\ UNCHANGED <<profiles, command, menu>>

Save ==
  /\ pc = "save"
  /\ \/ UNCHANGED profiles
     \/ /\ Cardinality(Tuned \cup {job.model}) <= MaxProfiles
        /\ profiles' = [profiles EXCEPT ![job.model] =
             [best |-> job.best,
              measured |-> BenchArguments(job.model, job.best, job.bench)]]
  /\ End
  /\ UNCHANGED <<command, menu, reader>>

-----------------------------------------------------------------------------
(* cmd_run and cmd_serve                                                   *)

\* load_profile_or_report
Load ==
  /\ pc = "load"
  /\ \/ profiles[job.model] # NoValue /\ pc' = "launch" /\ UNCHANGED job
     \/ End
  /\ UNCHANGED <<profiles, command, menu, reader>>

ProfileArguments(flags) ==
  ConfigArguments(job.model, profiles[job.model].best, flags)
  \o (IF job.kind = "llama-server" THEN ServerArguments("localhost", 8080, flags) ELSE <<>>)

\* The tool is asked for its flags and started, or it is missing, or does not
\* start.
Launch ==
  /\ pc = "launch"
  /\ \/ /\ \E flags \in LaunchFlags :
             command' = [args |-> MergeUserOverrides(ProfileArguments(flags), job.user),
                         flags |-> flags]
        /\ pc' = "child" /\ UNCHANGED job
     \/ End /\ UNCHANGED command
  /\ UNCHANGED <<profiles, menu, reader>>

\* The child has ended, and with it the command.
ChildEnds ==
  /\ pc = "child"
  /\ End
  /\ command' = NoValue
  /\ UNCHANGED <<profiles, menu, reader>>

-----------------------------------------------------------------------------
Begin ==
  \/ BeginMenu
  \/ \E m \in Models :
       \/ \E line \in Figures : BeginTune(m, line)
       \/ \E tool \in Tools, user \in UserArguments : BeginLaunch(tool, m, user)

\* What the program does without waiting for anyone.
Steps ==
  \/ Dispatch
  \/ (\E f \in Files : Prepare(f)) \/ ReadMetadata \/ Search \/ Save
  \/ Load \/ Launch

Next == Begin \/ (\E line \in M!Lines : UseMenu(line)) \/ Steps \/ ChildEnds

Spec == Init /\ [][Next]_vars

\* A read of a closed stdin returns at once; one of an open stdin may wait for
\* ever, and so may the command for its child.
Unattended == (at = "check" \/ closed) /\ \E line \in M!Lines : UseMenu(line)

FairSpec == Spec /\ WF_vars(Steps) /\ WF_vars(Unattended)

-----------------------------------------------------------------------------
(* Properties.                                                             *)

TypeOK ==
  /\ pc \in {"idle", "menu", "tune", "reading", "save", "load", "launch", "child"}
  /\ job.kind \in Tools \cup {"tune", "none"}
  /\ pc \in {"idle", "menu"} <=> job = NoJob
  /\ DOMAIN profiles = Models
  /\ IF pc = "child" THEN DOMAIN command = {"args", "flags"} ELSE command = NoValue
  /\ at \in M!Questions \cup {"off", "check", "planned"}
  /\ pc = "menu" <=> at # "off"
  /\ at \in {"choice", "planned"} \/ (IF at = "off" THEN purpose = NoValue
                                      ELSE purpose \in {"Tune", "Serve"})
  /\ pc = "reading" <=> file # NoValue
  /\ walked \in Nat /\ pos \in Nat \cup {-1}

\* See GgufReader: what decides whether the GPU layers and the experts are
\* searched at all is what the model file says.
MetadataIsTheFiles == G!MetadataIsTheFiles

\* What llama-cli or llama-server is started with is what was measured: each
\* option has the value it had on the command line of llama-bench, where that
\* had it and the tool has it too, unless the user gives it; then it has the
\* user's values alone, in the user's order and under whatever spelling, and
\* no value of the profile is left without its flag.  The two command lines are put together
\* by different code (tuner.cpp:42-96, main.cpp:541-598) in different commands.
\* Two things are excepted.  A context of 0: build_config_arguments takes it for
\* no context.  And "-ncmoe", which no alias group knows: the profile's value
\* stays in front of the user's.
ServedAsMeasured ==
  pc = "child" =>
    LET profile == profiles[job.model]
    IN /\ Stray(command.args) => Stray(job.user)
       /\ \A o \in Options :
            LET set == Settings(command.args, o)
                user == Settings(job.user, o)
                measured == Settings(profile.measured, o)
                known == o = "model" \/ Spellings[o] \cap command.flags # {}
            IN /\ user # <<>> =>
                    set = user \/ (o = "n_cpu_moe" /\ Tail(set) = user)
               /\ user = <<>> => Len(set) <= 1
               /\ user = <<>> /\ known /\ measured # <<>> =>
                    set = measured \/ (o = "context" /\ measured = <<0>>)

\* The end of stdin ends the menu, whatever it asks when that happens, and the
\* command runs to its end or to a child.  Of menu.cpp:47-49, "which every
\* caller treats as "quit" rather than looping forever on a closed stream", this
\* is the second half.  The first is not so: a question that has a default takes
\* it, and a tune or a server starts that nobody asked for (menu.cpp:60-82).
EndOfInputEnds == closed ~> pc \in {"idle", "child"}
================================================================================

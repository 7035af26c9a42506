----------------------------- MODULE LaunchCommand -----------------------------
(***************************************************************************)
(* The command lines FluxInfer puts together: the one llama-bench is       *)
(* measured with (Tuner::build_arguments), the one llama-cli and           *)
(* llama-server are started with (build_config_arguments), and what is     *)
(* left of the latter where the user passes arguments of his own           *)
(* (merge_user_overrides, llama_runner.cpp).                               *)
(*                                                                         *)
(* An argument is a record: a flag, which may carry a value after `=`, or  *)
(* the value of the flag before it.                                        *)
(***************************************************************************)
EXTENDS Naturals, Sequences, SequencesExt, FiniteSets

CONSTANT NoValue  \* no value, or a setting that is not set

IsFlag(a) == "flag" \in DOMAIN a
Flag(f) == [flag |-> f, value |-> NoValue]
FlagIs(f, v) == [flag |-> f, value |-> v]
Value(v) == [value |-> v]

\* add_if_supported, and the two loops that do the same for the cache types.
AddIfSupported(supported, long, short, v) ==
  IF long \in supported THEN <<Flag(short), Value(v)>> ELSE <<>>

IfSet(args, v) == IF v # NoValue THEN args ELSE <<>>

\* The settings that both builders take from a configuration.
CommonArguments(config, supported) ==
  AddIfSupported(supported, "--threads", "-t", config.threads)
  \o AddIfSupported(supported, "--n-gpu-layers", "-ngl", config.gpu_layers)
  \o AddIfSupported(supported, "--batch-size", "-b", config.batch)
  \o AddIfSupported(supported, "--ubatch-size", "-ub", config.ubatch)

CacheTypes(config, supported) ==
  IfSet(AddIfSupported(supported, "--cache-type-k", "-ctk", config.kv)
          \o AddIfSupported(supported, "--cache-type-v", "-ctv", config.kv),
        config.kv)

\* Tuner::build_arguments, without what says how to measure (prompt and
\* generation lengths, repetitions, warmup, progress, output format).
BenchArguments(model, config, supported) ==
  <<Flag("-m"), Value(model)>>
  \o AddIfSupported(supported, "--n-depth", "-d", config.context)
  \o CommonArguments(config, supported)
  \o IfSet(AddIfSupported(supported, "--n-cpu-moe", "-ncmoe", config.n_cpu_moe),
           config.n_cpu_moe)
  \o CacheTypes(config, supported)

ConfigArguments(model, config, supported) ==
  <<Flag("-m"), Value(model)>>
  \o CommonArguments(config, supported)
  \o (IF config.context > 0
      THEN AddIfSupported(supported, "--ctx-size", "-c", config.context) ELSE <<>>)
  \o IfSet(AddIfSupported(supported, "--n-cpu-moe", "--n-cpu-moe", config.n_cpu_moe),
           config.n_cpu_moe)
  \o CacheTypes(config, supported)

\* What cmd_serve adds.
ServerArguments(host, port, supported) ==
  AddIfSupported(supported, "--host", "--host", host)
  \o AddIfSupported(supported, "--port", "--port", port)

option_alias_groups == {
  {"-m", "--model"}, {"-t", "--threads"}, {"-ngl", "--n-gpu-layers"},
  {"-b", "--batch-size"}, {"-ub", "--ubatch-size"}, {"-c", "--ctx-size"},
  {"-ctk", "--cache-type-k"}, {"-ctv", "--cache-type-v"},
  {"--host"}, {"--port"}}

\* Mutant: only the spelling the user chose is replaced.
OverriddenAsSpelled(user) == {a.flag : a \in {u \in Range(user) : IsFlag(u)}}

\* Every flag the user mentions, expanded to all its known spellings.
Overridden(user) ==
  LET mentioned == {a.flag : a \in {u \in Range(user) : IsFlag(u)}}
  IN mentioned \cup UNION {g \in option_alias_groups : g \cap mentioned # {}}

\* The elements of a sequence at some of its positions, in their order.
At(s, positions) ==
  LET upTo[i \in 0..Len(s)] ==
        IF i = 0 THEN <<>>
        ELSE IF i \in positions THEN Append(upTo[i - 1], s[i]) ELSE upTo[i - 1]
  IN upTo[Len(s)]

\* merge_user_overrides: the profile's [flag, value] pairs that the user does
\* not override, in their order, then all the user's arguments.  (The profile's
\* flags carry no value of their own, and the model's path and the host do not
\* look like flags.)
MergeUserOverrides(profile, user) ==
  LET flagOf(i) == profile[IF IsFlag(profile[i]) THEN i ELSE i - 1].flag
  IN At(profile, {i \in DOMAIN profile : flagOf(i) \notin Overridden(user)}) \o user

-----------------------------------------------------------------------------
(* What a command line means to llama.cpp (external).                      *)

Spellings == [
  model      |-> {"-m", "--model"},
  threads    |-> {"-t", "--threads"},
  gpu_layers |-> {"-ngl", "--n-gpu-layers"},
  batch      |-> {"-b", "--batch-size"},
  ubatch     |-> {"-ub", "--ubatch-size"},
  context    |-> {"-c", "--ctx-size", "-d", "--n-depth"},
  n_cpu_moe  |-> {"-ncmoe", "--n-cpu-moe"},
  cache_k    |-> {"-ctk", "--cache-type-k"},
  cache_v    |-> {"-ctv", "--cache-type-v"},
  host       |-> {"--host"},
  port       |-> {"--port"}]

Options == DOMAIN Spellings

ShortFlags == {"-m", "-t", "-ngl", "-b", "-ub", "-c", "-ncmoe", "-ctk", "-ctv"}
Depth == {"-d", "--n-depth"}  \* the context, in the words of llama-bench alone

\* The values that a command line gives an option, in their order.
Gives(args, option) ==
  {i \in DOMAIN args : IsFlag(args[i]) /\ args[i].flag \in Spellings[option]}
ValueOf(args, i) ==
  IF args[i].value # NoValue THEN args[i].value
  ELSE IF i < Len(args) /\ ~IsFlag(args[i + 1]) THEN args[i + 1].value
  ELSE NoValue
Settings(args, option) ==
  At([i \in DOMAIN args |-> ValueOf(args, i)], Gives(args, option))

\* A value that belongs to no flag.
Stray(args) ==
  \E i \in DOMAIN args : /\ ~IsFlag(args[i])
                         /\ i > 1 => ~IsFlag(args[i - 1]) \/ args[i - 1].value # NoValue
================================================================================

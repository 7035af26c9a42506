------------------------------ MODULE Profiles ------------------------------
(***************************************************************************)
(* The life of a tuning profile: `tune` identifies the model, the hardware *)
(* and the llama.cpp build, searches, and saves the result through a       *)
(* temporary file; `run` and `serve` identify them again, load the file    *)
(* and decide whether it still applies.  Commands of both kinds run at the *)
(* same time on one profiles directory, each may be killed at any step,    *)
(* and the machine changes under them.                                     *)
(*                                                                         *)
(* External code, modelled from its use: the file system (names that refer *)
(* to inodes, open descriptors that outlive a rename, a disk that fills, a *)
(* directory that stops being writable) and the output stream, which hands *)
(* a long document to the disk at once and keeps a short one in its buffer *)
(* until it is closed.                                                     *)
(***************************************************************************)
EXTENDS Naturals, FiniteSets

CONSTANTS
  Tuners,   \* commands `tune`
  Runners,  \* commands `run` and `serve`
  Inodes,   \* files that may exist at once
  Casts,    \* bound: the sets of commands that may be given side by side
  Events,   \* bound: how often something outside the commands changes, where a
            \* runner takes part
  Failing,  \* probes that may fail to find out what they look for
  None,     \* nothing: no file, no GPU, an empty string, an empty flag set
  Unknown   \* the version of a build that prints none

ASSUME ProfilesAssumption ==
  /\ Tuners \cap Runners = {}
  /\ Casts \subseteq SUBSET (Tuners \cup Runners)
  /\ Events \in Nat
  /\ Failing \subseteq {"hardware", "flags", "version"}
  \* An inode for the two names of each model, and one for each open file.
  /\ IsFiniteSet(Inodes) /\ IsFiniteSet(Tuners)
  /\ Cardinality(Inodes) > 2 * (Events + 1) + 2 * Cardinality(Tuners)
  /\ None \notin Inodes \cup Nat
  /\ Unknown \notin Nat \cup {None}

VARIABLES
  machine,  \* the model file, hardware and llama.cpp build in place now
  disk,     \* whether the disk is full and the directory writable
  dir,      \* the file that each name refers to
  data,     \* the contents of each file
  pc,       \* where each command is
  snap,     \* what each command found out about the machine
  out,      \* the file each tune has open for writing
  source,   \* the file each tune is copying from
  \* History variables, which no command can see:
  past,     \* for each tune, the machines that were in place until it made its
            \* profile: since it identified the model, since its search began
  hurt,     \* models whose stored profile nothing protected (see below)
  events

commands == <<pc, snap, past>>
files == <<dir, data, out, source>>
vars == <<machine, disk, files, commands, hurt, events>>

Commands == Tuners \cup Runners
Builds == 1..(Events + 1)

Final(m) == <<m, "json">>
Tmp(m) == <<m, "json.tmp">>
Names == {Final(m) : m \in Builds} \cup {Tmp(m) : m \in Builds}

Machines == [model: Builds, hardware: Builds, flags: Builds, version: Builds]
Snapshots == [model: Builds \cup {None}, hardware: Builds \cup {None},
              flags: Builds \cup {None},
              version: Builds \cup {None, Unknown}]
Blank == [model |-> None, hardware |-> None, flags |-> None, version |-> None]

(***************************************************************************)
(* A document that is not exactly one whole profile (empty, cut short, two *)
(* written over each other) is Torn: no proper prefix of a JSON object is  *)
(* JSON, and neither is an object with a tail.                             *)
(***************************************************************************)
Pasts == [met: SUBSET Machines, ran: SUBSET Machines]
NoPast == [met |-> {}, ran |-> {}]
Torn == [whole |-> FALSE]
Documents == [whole: {TRUE}, names: Snapshots, past: Pasts]
Contents == Documents \cup {Torn}

Profile(t) == [whole |-> TRUE, names |-> snap[t], past |-> past[t]]

\* Over, or not begun: killed, ended with an error, with an exception, as meant.
\* A command outside the cast is never given.
Resting == {"absent", "idle", "failed", "aborted", "saved", "accepted"}
Saving == {"write", "close", "rename", "copy", "copying"}
Steps == {"probe", "identify", "hardware", "locate", "search", "version",
          "open", "load"} \cup Saving

Installed == [model |-> machine.model, hardware |-> machine.hardware,
              flags |-> machine.flags, version |-> machine.version]

Init ==
  /\ machine = [model |-> 1, hardware |-> 1, flags |-> 1, version |-> 1,
                bench |-> TRUE]
  /\ disk \in [full: BOOLEAN, writable: BOOLEAN]
  /\ dir = [n \in Names |-> None]
  /\ data = [i \in Inodes |-> Torn]
  /\ \E cast \in Casts :
       /\ pc = [c \in Commands |-> IF c \in cast THEN "idle" ELSE "absent"]
       /\ events = IF cast \cap Runners = {} THEN Events ELSE 0
  /\ snap = [c \in Commands |-> Blank]
  /\ out = [t \in Tuners |-> None]
  /\ source = [t \in Tuners |-> None]
  /\ past = [t \in Tuners |-> NoPast]
  /\ hurt = {}

-----------------------------------------------------------------------------
(* Files.                                                                  *)

Open(d, o, s) == {d[n] : n \in Names} \cup {o[t] : t \in Tuners}
                   \cup {s[t] : t \in Tuners}

\* A file without a name and without an open descriptor is gone.
Files(d, o, s, contents) ==
  /\ dir' = d
  /\ out' = o
  /\ source' = s
  /\ data' = [i \in Inodes |-> IF i \in Open(d, o, s) THEN contents[i] ELSE Torn]

\* The file that opening a name for writing yields: the one there is, or a new one.
Opened(n) == IF dir[n] # None THEN dir[n]
             ELSE CHOOSE i \in Inodes : i \notin Open(dir, out, source)

At(c, l) == pc[c] = l
Goto(c, l) == pc' = [pc EXCEPT ![c] = l] /\ UNCHANGED past

\* The command is over, and what it knew is gone.
End(c, l) ==
  /\ pc' = [pc EXCEPT ![c] = l]
  /\ snap' = [snap EXCEPT ![c] = Blank]
  /\ past' = [t \in Tuners |-> IF t = c THEN NoPast ELSE past[t]]

\* Where the profile under construction ends up, and where it is written.
final_path(t) == Final(snap[t].model)
\* Mutant: it is written in place.
NoTmpPath(t) == final_path(t)
tmp_path(t) == Tmp(snap[t].model)

-----------------------------------------------------------------------------
(* What both kinds of command do first.                                    *)

\* A command line is given when the command before it is over.
Start(c) ==
  /\ pc[c] \in Resting \ {"absent"}
  /\ Goto(c, IF c \in Tuners THEN "probe" ELSE "identify")
  /\ UNCHANGED <<machine, disk, files, snap, hurt, events>>

\* What a look at field f of the machine can yield.
Detected(f, nothing) == {machine[f]} \cup (IF f \in Failing THEN {nothing} ELSE {})

\* A model that cannot be read ends the command.
Identify(c) ==
  /\ At(c, "identify")
  /\ \/ /\ snap' = [snap EXCEPT ![c].model = machine.model]
        /\ pc' = [pc EXCEPT ![c] = "hardware"]
        /\ past' = [t \in Tuners |->
             IF t = c THEN [met |-> {Installed}, ran |-> {}] ELSE past[t]]
     \/ End(c, "failed")
  /\ UNCHANGED <<machine, disk, files, hurt, events>>

\* NVML may fail on a machine that has a GPU: then none is reported.
ProbeHardware(c) ==
  /\ At(c, "hardware")
  /\ \E h \in Detected("hardware", None) : snap' = [snap EXCEPT ![c].hardware = h]
  /\ Goto(c, "locate")
  /\ UNCHANGED <<machine, disk, files, hurt, events>>

\* llama-bench is found and asked for its flags, in vain when it hangs or dies.
\* Without it a tune ends, and a run goes on with an empty snapshot.
Locate(c) ==
  /\ At(c, "locate")
  /\ \/ /\ machine.bench
        /\ \E f \in Detected("flags", None) : snap' = [snap EXCEPT ![c].flags = f]
        /\ pc' = [pc EXCEPT ![c] = IF c \in Tuners THEN "search" ELSE "version"]
        /\ past' = [t \in Tuners |->
             IF t = c THEN [past[t] EXCEPT !.ran = {Installed}] ELSE past[t]]
     \/ ~machine.bench /\ c \in Tuners /\ End(c, "failed")
     \/ ~machine.bench /\ c \in Runners /\ Goto(c, "load") /\ UNCHANGED snap
  /\ UNCHANGED <<machine, disk, files, hurt, events>>

\* Mutant: the flags are asked for again with the version.
DetectVersionAndFlags(c) ==
  /\ At(c, "version")
  /\ snap' = [snap EXCEPT ![c].version = machine.version, ![c].flags = machine.flags]
  /\ Goto(c, IF c \in Tuners THEN "open" ELSE "load")
  /\ UNCHANGED <<machine, disk, files, hurt, events>>

\* Mutant: the version is filled in by run and serve only.
DetectVersionInRun(c) ==
  /\ At(c, "version")
  /\ snap' = [snap EXCEPT ![c].version = IF c \in Runners THEN machine.version ELSE @]
  /\ Goto(c, IF c \in Tuners THEN "open" ELSE "load")
  /\ UNCHANGED <<machine, disk, files, hurt, events>>

\* A tune asks for the version only when the search is over.
DetectVersion(c) ==
  /\ At(c, "version")
  /\ \E v \in IF machine.bench THEN Detected("version", Unknown) ELSE {Unknown} :
       snap' = [snap EXCEPT ![c].version = v]
  /\ Goto(c, IF c \in Tuners THEN "open" ELSE "load")
  /\ UNCHANGED <<machine, disk, files, hurt, events>>

-----------------------------------------------------------------------------
(* tune                                                                    *)

\* check_writable: the probe is created, written and removed.  What is written
\* is shorter than the buffer of the stream, so that a full disk shows only
\* where the file cannot be created, and never where it is closed.
CheckWritable(t) ==
  /\ At(t, "probe")
  /\ \/ disk.writable /\ Goto(t, "identify") /\ UNCHANGED snap
     \/ (~disk.writable \/ disk.full) /\ End(t, "failed")
  /\ UNCHANGED <<machine, disk, files, hurt, events>>

\* The search (see StagedSearch) ends with a winner, which is printed, or without.
Conclude(t) ==
  /\ At(t, "search")
  /\ \/ Goto(t, "version") /\ UNCHANGED snap
     \/ End(t, "failed")
  /\ UNCHANGED <<machine, disk, files, hurt, events>>

\* The temporary file is created, or truncated when there is one already.
OpenTmp(t) ==
  /\ At(t, "open")
  /\ \/ LET n == tmp_path(t)
            i == Opened(n)
        IN /\ disk.writable \/ dir[n] # None
           /\ Files([dir EXCEPT ![n] = i], [out EXCEPT ![t] = i], source,
                    [data EXCEPT ![i] = Torn])
           /\ Goto(t, "write") /\ UNCHANGED snap
           /\ hurt' = IF \E u \in Tuners \ {t} :
                           pc[u] \in Saving /\ snap[u].model = snap[t].model
                      THEN hurt \cup {snap[t].model} ELSE hurt
     \/ /\ ~disk.writable \/ (disk.full /\ dir[tmp_path(t)] = None)
        /\ End(t, "failed")
        /\ UNCHANGED <<files, hurt>>
  /\ UNCHANGED <<machine, disk, events>>

\* What the file holds once the document is on the disk.  Two tunes that have
\* it open write over each other from its beginning.
Written(t) == {Profile(t)} \cup (IF snap[t].model \in hurt THEN {Torn} ELSE {})

\* A document longer than the buffer goes to the disk now and the check of the
\* stream sees a failure; a shorter one waits in the buffer, and the check passes.
WriteTmp(t) ==
  /\ At(t, "write")
  /\ \/ /\ ~disk.full
        /\ \E w \in Written(t) :
             Files(dir, [out EXCEPT ![t] = None], source, [data EXCEPT ![out[t]] = w])
        /\ Goto(t, "rename") /\ UNCHANGED snap
     \/ /\ disk.full
        /\ Files(dir, [out EXCEPT ![t] = None], source,
                 [data EXCEPT ![out[t]] = Torn])
        /\ End(t, "failed")
     \/ Goto(t, "close") /\ UNCHANGED <<files, snap>>
  /\ UNCHANGED <<machine, disk, hurt, events>>

\* Mutant: the stream is still in scope when the file is renamed.
CloseNever(t) ==
  /\ At(t, "close")
  /\ Goto(t, "rename")
  /\ UNCHANGED <<machine, disk, files, snap, hurt, events>>

\* The destructor of the stream empties the buffer; a failure goes unnoticed.
CloseTmp(t) ==
  /\ At(t, "close")
  /\ Goto(t, "rename")
  /\ \E w \in IF disk.full THEN {Torn} ELSE Written(t) :
       Files(dir, [out EXCEPT ![t] = None], source, [data EXCEPT ![out[t]] = w])
  /\ hurt' = IF disk.full THEN hurt \cup {snap[t].model} ELSE hurt
  /\ UNCHANGED <<machine, disk, snap, events>>

\* rename() replaces the stored profile in one step, or does not.
Rename(t) ==
  /\ At(t, "rename")
  /\ \/ LET i == dir[tmp_path(t)]
        IN /\ disk.writable
           /\ i # None
           /\ Files([dir EXCEPT ![final_path(t)] = i, ![tmp_path(t)] = None],
                    out, source, data)
           /\ End(t, "saved")
     \/ Goto(t, "copy") /\ UNCHANGED <<files, snap>>
  /\ UNCHANGED <<machine, disk, hurt, events>>

\* The temporary file is removed after the attempt to copy it, by the overload
\* that throws when the directory does not allow it; nothing catches that.
Removed(d, t) == IF disk.writable THEN [d EXCEPT ![tmp_path(t)] = None] ELSE d
Finish(t, l) == End(t, IF disk.writable THEN l ELSE "aborted")

\* copy_file truncates the stored profile before it copies.  It cannot start
\* without the temporary file, or where the target cannot be opened.
CopyOpen(t) ==
  /\ At(t, "copy")
  /\ \/ LET n == final_path(t)
            i == Opened(n)
        IN /\ dir[tmp_path(t)] # None
           /\ disk.writable \/ dir[n] # None
           /\ Files([dir EXCEPT ![n] = i], [out EXCEPT ![t] = i],
                    [source EXCEPT ![t] = dir[tmp_path(t)]],
                    [data EXCEPT ![i] = Torn])
           /\ hurt' = hurt \cup {snap[t].model}
           /\ Goto(t, "copying") /\ UNCHANGED snap
     \/ /\ \/ dir[tmp_path(t)] = None
           \/ ~disk.writable
           \/ disk.full /\ dir[final_path(t)] = None
        /\ Files(Removed(dir, t), out, source, data)
        /\ Finish(t, "failed")
        /\ UNCHANGED hurt
  /\ UNCHANGED <<machine, disk, events>>

CopyData(t) ==
  /\ At(t, "copying")
  /\ Files(Removed(dir, t), [out EXCEPT ![t] = None], [source EXCEPT ![t] = None],
           [data EXCEPT ![out[t]] = IF disk.full THEN Torn ELSE data[source[t]]])
  /\ Finish(t, IF disk.full THEN "failed" ELSE "saved")
  /\ UNCHANGED <<machine, disk, hurt, events>>

-----------------------------------------------------------------------------
(* run and serve                                                           *)

\* profile_is_valid_for
Matches(saved, current) ==
  /\ saved.model = current.model
  /\ saved.hardware = current.hardware
  /\ saved.version = current.version
  /\ saved.flags = current.flags

\* What the store holds for a model.
Stored(m) == IF dir[Final(m)] = None THEN Torn ELSE data[dir[Final(m)]]

\* load_valid: the file is opened and read, parsed and compared.
LoadValid(r) ==
  /\ At(r, "load")
  /\ LET content == Stored(snap[r].model)
         valid == content.whole /\ Matches(content.names, snap[r])
     IN End(r, IF valid THEN "accepted" ELSE "failed")
  /\ UNCHANGED <<machine, disk, files, hurt, events>>

-----------------------------------------------------------------------------
(* Around the commands.                                                    *)

\* A command is killed.  Neither has a handler at this time; what is in a
\* buffer is lost, and a write that was under way may be cut short.
Kill(c) ==
  /\ pc[c] \notin Resting
  /\ End(c, "idle")
  /\ IF c \in Tuners
     THEN \E contents \in {data, [i \in Inodes |-> IF i = out[c] THEN Torn ELSE data[i]]} :
            Files(dir, [out EXCEPT ![c] = None], [source EXCEPT ![c] = None], contents)
     ELSE UNCHANGED files
  /\ UNCHANGED <<machine, disk, hurt, events>>

\* The model file, the GPU or the build is replaced by one not seen before.
Replace ==
  /\ events < Events
  /\ events' = events + 1
  /\ \/ machine' = [machine EXCEPT !.model = @ + 1]
     \/ machine' = [machine EXCEPT !.hardware = @ + 1]
     \/ machine' = [machine EXCEPT !.version = @ + 1]
     \/ machine' = [machine EXCEPT !.version = @ + 1, !.flags = @ + 1]
     \/ machine' = [machine EXCEPT !.bench = ~@]
  /\ past' = [t \in Tuners |->
       [met |-> past[t].met \cup
          (IF pc[t] \in {"hardware", "locate", "search", "version"} THEN {Installed'} ELSE {}),
        ran |-> past[t].ran \cup
          (IF pc[t] \in {"search", "version"} THEN {Installed'} ELSE {})]]
  /\ UNCHANGED <<disk, files, pc, snap, hurt>>

\* The disk fills or is cleared; the directory is locked or unlocked.
DiskChange ==
  /\ events < Events
  /\ events' = events + 1
  /\ \/ disk' = [disk EXCEPT !.full = ~@]
     \/ disk' = [disk EXCEPT !.writable = ~@]
  /\ UNCHANGED <<machine, files, commands, hurt>>

Tune(t) ==
  \/ CheckWritable(t) \/ Conclude(t)
  \/ OpenTmp(t) \/ WriteTmp(t) \/ CloseTmp(t)
  \/ Rename(t) \/ CopyOpen(t) \/ CopyData(t)

Either(c) == Start(c) \/ Identify(c) \/ ProbeHardware(c) \/ Locate(c) \/ DetectVersion(c)

Next ==
  \/ \E c \in Commands : Either(c) \/ Kill(c)
  \/ \E t \in Tuners : Tune(t)
  \/ \E r \in Runners : LoadValid(r)
  \/ Replace
  \/ DiskChange

Spec == Init /\ [][Next]_vars

-----------------------------------------------------------------------------
(* Properties.                                                             *)

\* Every variable holds values of its kind, and a tune has a file open exactly
\* in the steps that write to it, the target and the source of a copy both.
TypeOK ==
  /\ machine \in [model: Builds, hardware: Builds, flags: Builds,
                  version: Builds, bench: BOOLEAN]
  /\ disk \in [full: BOOLEAN, writable: BOOLEAN]
  /\ dir \in [Names -> Inodes \cup {None}]
  /\ data \in [Inodes -> Contents]
  /\ pc \in [Commands -> Steps \cup Resting]
  /\ snap \in [Commands -> Snapshots]
  /\ out \in [Tuners -> Inodes \cup {None}]
  /\ source \in [Tuners -> Inodes \cup {None}]
  /\ past \in [Tuners -> Pasts]
  /\ hurt \subseteq Builds
  /\ events \in 0..Events
  /\ \A t \in Tuners : /\ out[t] # None <=> pc[t] \in {"write", "close", "copying"}
                       /\ source[t] # None <=> pc[t] = "copying"
                       /\ pc[t] \in Saving => past[t].ran # {}
  /\ \A c \in Commands : pc[c] \in Resting => snap[c] = Blank

\* A run that accepts a profile will use a configuration that was measured on
\* what the run found and what is still in place: the model file, the hardware,
\* a build with the same flags, none of which was another at any time from
\* the beginning of the search until the profile was made.  cmd_tune looks
\* these up before the search and load_profile_or_report looks them up again.
\* (The version is looked up after the search, and a probe that fails says
\* nothing: neither is claimed.)
Accepts(r) == pc[r] = "load" /\ pc'[r] = "accepted"

MeasuredWhatItNames ==
  [][\A r \in Runners : Accepts(r) =>
       \A f \in {"model", "hardware", "flags"} :
         snap[r][f] = machine[f] =>
           \A m \in Stored(snap[r].model).past.ran : m[f] = machine[f]]_vars

\* A run never refuses a profile if the machine it found, which is still in
\* place, was in place from the moment the tune identified the model until it
\* made its profile, unless the tune could not find out something about it.
Rejects(r) == pc[r] = "load" /\ pc'[r] = "failed"

RefusedForAReason ==
  [][\A r \in Runners :
       LET stored == Stored(snap[r].model)
       IN Rejects(r) /\ snap[r] = Installed /\ stored.whole =>
            \/ stored.past.met # {Installed}
            \/ stored.names.hardware = None
            \/ stored.names.flags = None
            \/ stored.names.version = Unknown]_vars

\* What the store holds for a model changes only in the step in which a tune
\* of this model succeeds, and becomes the profile of that tune: a kill at any
\* step, a full disk that is noticed and a save that fails leave the profile
\* of the previous tune.  This is what save writes a temporary file for.
\* Nothing protects a model in `hurt`: two tunes of it saved at the same time,
\* the disk was full when a buffered document was closed, or rename failed and
\* the fallback copied over the stored profile.
OnlySuccessReplaces ==
  [][\A m \in Builds \ hurt' :
       Stored(m)' # Stored(m) =>
         \E t \in Tuners : /\ pc[t] # "saved" /\ pc'[t] = "saved"
                           /\ snap[t].model = m
                           /\ Stored(m)' = Profile(t)]_vars

\* README.md:525-527: when llama-bench is missing, run and serve skip the
\* validation of version and flags.
SkipsWithoutBench ==
  [][\A r \in Runners :
       LET stored == Stored(snap[r].model)
       IN Rejects(r) /\ snap[r].version = None /\ stored.whole =>
            snap[r].hardware # stored.names.hardware]_vars
=============================================================================

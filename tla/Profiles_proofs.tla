---------------------------- MODULE Profiles_proofs ----------------------------
(***************************************************************************)
(* What a stored profile is worth, proved for any number of commands that  *)
(* tune and run side by side and are killed at any step, and for any       *)
(* number of changes of the machine, the disk and the directory.           *)
(***************************************************************************)
EXTENDS Profiles, FunctionTheorems, FiniteSetTheorems, TLAPS

Found    == {"hardware", "locate", "search", "version", "open", "load"} \cup Saving
Looking  == {"hardware", "locate", "search", "version"}
Measured == {"search", "version", "open"} \cup Saving
Searched == {"model", "hardware", "flags"}
Known(e) == 1..(e + 1)

\* The machine only changes to what was not in place before.
MachineInv ==
  /\ events \in 0..Events
  /\ machine \in [model: Known(events), hardware: Known(events), flags: Known(events),
                  version: Known(events), bench: BOOLEAN]
  /\ disk \in [full: BOOLEAN, writable: BOOLEAN]

\* A command knows nothing before it has identified the model, nor when it is over.
CommandInv ==
  /\ pc \in [Commands -> Steps \cup Resting]
  /\ snap \in [Commands -> Snapshots]
  /\ past \in [Tuners -> Pasts]
  /\ hurt \subseteq Builds
  /\ \A c \in Commands : IF pc[c] \in Found THEN snap[c].model \in Builds ELSE snap[c] = Blank

\* What was found out lies behind every machine that the search ran on, and
\* those lie behind the machine in place.
Behind(names, p) ==
  \A f \in Searched :
    /\ names[f] # None => names[f] <= machine[f]
    /\ \A m \in p.ran : m[f] <= machine[f] /\ (names[f] # None => names[f] <= m[f])

\* Whatever was found out was true of a machine that the tune met.
Met(names, p) ==
  /\ \E m \in p.met : names.model = m.model
  /\ names.hardware # None => \E m \in p.met : names.hardware = m.hardware
  /\ names.flags # None => \E m \in p.met : names.flags = m.flags

MetVersion(names, p) ==
  /\ names.version # None
  /\ names.version # Unknown => \E m \in p.met : names.version = m.version

\* A tune at step l found out `names`, on the machines p.
Knows(l, names, p) ==
  /\ Behind(names, p)
  /\ l \in Measured => p.ran # {}
  /\ l \in {"hardware", "locate"} => p.ran = {}
  /\ l \in Found => Met(names, p)
  /\ l \in Looking => Installed \in p.met
  /\ l \in Saving \cup {"open"} => MetVersion(names, p)

TuneInv == \A t \in Tuners : Knows(pc[t], snap[t], past[t])

\* What a document says holds of the machines that its tune met.
Vouched(d) == Behind(d.names, d.past) /\ Met(d.names, d.past) /\ MetVersion(d.names, d.past)

FileInv ==
  /\ dir \in [Names -> Inodes \cup {None}]
  /\ data \in [Inodes -> Contents]
  /\ out \in [Tuners -> Inodes \cup {None}]
  /\ source \in [Tuners -> Inodes \cup {None}]
  /\ \A t \in Tuners : /\ out[t] # None <=> pc[t] \in {"write", "close", "copying"}
                       /\ source[t] # None <=> pc[t] = "copying"

DocumentInv == \A i \in Inodes : data[i].whole => Vouched(data[i])

\* No file has two names, and no tune writes to a file with a name of another model.
NameInv ==
  /\ \A n, o \in Names : dir[n] # None /\ dir[n] = dir[o] => n = o
  /\ \A t \in Tuners : \A m \in Builds : out[t] # None /\ m # snap[t].model =>
       out[t] # dir[Final(m)] /\ out[t] # dir[Tmp(m)]

\* A tune of a model that is not in `hurt` saves alone, to its own temporary file.
AloneInv ==
  \A t \in Tuners : pc[t] \in Saving /\ snap[t].model \notin hurt =>
    /\ pc[t] # "copying"
    /\ \A u \in Tuners : pc[u] \in Saving /\ snap[u].model = snap[t].model => u = t
    /\ pc[t] \in {"write", "close"} => out[t] = dir[tmp_path(t)]
    /\ pc[t] = "rename" => dir[tmp_path(t)] # None /\ data[dir[tmp_path(t)]] = Profile(t)

-----------------------------------------------------------------------------
(* Facts about the data.                                                   *)

LEMMA Kinds ==
  /\ Tuners \subseteq Commands /\ Runners \subseteq Commands
  /\ None \notin Inodes /\ None \notin Builds /\ Unknown \notin Builds /\ Unknown # None
  /\ \A t \in Tuners : t \notin Runners
BY ProfilesAssumption DEF Commands, Builds

LEMMA NamesDiffer ==
  /\ \A m \in Builds : Final(m) \in Names /\ Tmp(m) \in Names
  /\ \A m, n \in Builds : /\ Final(m) # Tmp(n)
                          /\ m # n => Final(m) # Final(n) /\ Tmp(m) # Tmp(n)
BY DEF Final, Tmp, Names

LEMMA NameOfModel ==
  ASSUME NEW n \in Names
  PROVE  \E m \in Builds : n \in {Final(m), Tmp(m)}
BY DEF Names

LEMMA BuildsAreNumbers == Builds \subseteq Nat /\ \A e \in 0..Events : Known(e) \subseteq Builds
BY ProfilesAssumption DEF Builds, Known

LEMMA WholeDocument ==
  ASSUME NEW x \in Contents, x.whole
  PROVE  x \in Documents
<1>1. Torn.whole = FALSE
  BY DEF Torn
<1>2. x # Torn
  BY <1>1
<1> QED  BY <1>2 DEF Contents

LEMMA ProfileIsDocument ==
  ASSUME NEW t \in Tuners, CommandInv
  PROVE  /\ Profile(t) \in Documents /\ Profile(t).whole
         /\ Profile(t).names = snap[t] /\ Profile(t).past = past[t]
BY Kinds DEF CommandInv, Profile, Documents

\* What a step does with the files it leaves behind.
LEMMA FilesMean ==
  ASSUME NEW d \in [Names -> Inodes \cup {None}], NEW o \in [Tuners -> Inodes \cup {None}],
         NEW s, NEW contents \in [Inodes -> Contents], Files(d, o, s, contents)
  PROVE  /\ dir' = d /\ out' = o /\ source' = s
         /\ data' \in [Inodes -> Contents]
         /\ \A i \in Inodes : data'[i] \in {contents[i], Torn}
         /\ \A n \in Names : d[n] \in Inodes => data'[d[n]] = contents[d[n]]
BY DEF Files, Open, Contents

LEMMA OpenFilesBound ==
  ASSUME NEW S, IsFiniteSet(S), NEW f
  PROVE  LET T == {f[x] : x \in S}
         IN  IsFiniteSet(T) /\ Cardinality(T) <= Cardinality(S)
<1> DEFINE T == {f[x] : x \in S}
           g == [x \in S |-> f[x]]
<1>1. g \in Surjection(S, T)
  BY DEF Surjection
<1> QED  BY <1>1, FS_Surjection

\* There is always a file to create: each name and each tune's two descriptors
\* keep one at most.
LEMMA FileToCreate == \E i \in Inodes : i \notin Open(dir, out, source)
<1> DEFINE A == {dir[n] : n \in Names}
           B == {out[t] : t \in Tuners}
           C == {source[t] : t \in Tuners}
           F == [m \in Builds |-> Final(m)]
           G == [m \in Builds |-> Tmp(m)]
           FN == {F[m] : m \in Builds}
           GN == {G[m] : m \in Builds}
<1>1. IsFiniteSet(Builds) /\ Cardinality(Builds) = Events + 1
  <2>1. Events \in Nat /\ Events + 1 \in Int /\ 1 \in Int /\ ~(1 > Events + 1)
    BY ProfilesAssumption
  <2>2. IsFiniteSet(1..(Events + 1)) /\ Cardinality(1..(Events + 1)) = Events + 1 - 1 + 1
    BY <2>1, FS_Interval
  <2> QED  BY <2>1, <2>2 DEF Builds
<1>2. Names = FN \cup GN
  BY DEF Names
<1>3. /\ IsFiniteSet(FN) /\ Cardinality(FN) <= Cardinality(Builds)
      /\ IsFiniteSet(GN) /\ Cardinality(GN) <= Cardinality(Builds)
  BY <1>1, OpenFilesBound
<1> HIDE DEF F, G, FN, GN
<1>4. /\ IsFiniteSet(Names)
      /\ Cardinality(Names) = Cardinality(FN) + Cardinality(GN) - Cardinality(FN \cap GN)
  BY <1>2, <1>3, FS_Union
<1>5. /\ Cardinality(FN) \in Nat /\ Cardinality(GN) \in Nat
      /\ Cardinality(FN \cap GN) \in Nat
  <2>1. IsFiniteSet(FN \cap GN)
    BY <1>3, FS_Subset
  <2> QED  BY <1>3, <2>1, FS_CardinalityType
<1>6. Cardinality(Names) \in Nat /\ Cardinality(Names) <= 2 * (Events + 1)
  <2>1. Cardinality(Names) \in Nat
    BY <1>4, FS_CardinalityType
  <2> QED  BY <1>1, <1>3, <1>4, <1>5, <2>1, ProfilesAssumption
<1>7. /\ IsFiniteSet(A) /\ Cardinality(A) <= Cardinality(Names)
      /\ IsFiniteSet(B) /\ Cardinality(B) <= Cardinality(Tuners)
      /\ IsFiniteSet(C) /\ Cardinality(C) <= Cardinality(Tuners)
  BY <1>4, ProfilesAssumption, OpenFilesBound
<1> HIDE DEF A, B, C
<1>8. /\ IsFiniteSet(A \cup B)
      /\ Cardinality(A \cup B) = Cardinality(A) + Cardinality(B) - Cardinality(A \cap B)
  BY <1>7, FS_Union
<1>9. /\ IsFiniteSet(A \cup B \cup C)
      /\ Cardinality(A \cup B \cup C) =
           Cardinality(A \cup B) + Cardinality(C) - Cardinality((A \cup B) \cap C)
  BY <1>7, <1>8, FS_Union
<1>10. /\ IsFiniteSet(A \cap B) /\ IsFiniteSet((A \cup B) \cap C)
  BY <1>7, <1>8, FS_Subset
<1>11. /\ Cardinality(A) \in Nat /\ Cardinality(B) \in Nat /\ Cardinality(C) \in Nat
       /\ Cardinality(A \cap B) \in Nat /\ Cardinality((A \cup B) \cap C) \in Nat
       /\ Cardinality(A \cup B) \in Nat /\ Cardinality(A \cup B \cup C) \in Nat
       /\ Cardinality(Tuners) \in Nat /\ Cardinality(Inodes) \in Nat
  BY <1>7, <1>8, <1>9, <1>10, FS_CardinalityType, ProfilesAssumption
<1>12. Cardinality(A \cup B \cup C) < Cardinality(Inodes)
  <2>1. Cardinality(A \cup B) <= Cardinality(A) + Cardinality(B)
    BY <1>8, <1>11
  <2>2. Cardinality(A \cup B \cup C) <= Cardinality(A \cup B) + Cardinality(C)
    BY <1>9, <1>11
  <2>3. \A a, b, c, ab, abc, n, t, i, e \in Nat :
          /\ abc <= ab + c /\ ab <= a + b /\ a <= n /\ b <= t /\ c <= t
          /\ n <= 2 * (e + 1) /\ i > 2 * (e + 1) + 2 * t
          => abc < i
    OBVIOUS
  <2> QED  BY <1>6, <1>7, <1>11, <2>1, <2>2, <2>3, ProfilesAssumption
<1>13. ~(Inodes \subseteq A \cup B \cup C)
  <2>1. ASSUME Inodes \subseteq A \cup B \cup C PROVE FALSE
    <3>1. Cardinality(Inodes) <= Cardinality(A \cup B \cup C)
      BY <1>9, <2>1, FS_Subset
    <3> QED  BY <1>11, <1>12, <3>1
  <2> QED  BY <2>1
<1> QED  BY <1>13 DEF Open, A, B, C

LEMMA OpenedFile ==
  ASSUME FileInv, NEW n \in Names
  PROVE  /\ Opened(n) \in Inodes
         /\ dir[n] # None => Opened(n) = dir[n]
         /\ dir[n] = None => /\ \A o \in Names : dir[o] # Opened(n)
                             /\ \A t \in Tuners : out[t] # Opened(n)
<1>1. CASE dir[n] # None
  BY <1>1 DEF Opened, FileInv
<1>2. CASE dir[n] = None
  <2> DEFINE i == CHOOSE i \in Inodes : i \notin Open(dir, out, source)
  <2>1. i \in Inodes /\ i \notin Open(dir, out, source)
    BY FileToCreate
  <2>2. Opened(n) = i
    BY <1>2 DEF Opened
  <2> HIDE DEF i
  <2> QED  BY <1>2, <2>1, <2>2 DEF Open
<1> QED  BY <1>1, <1>2

-----------------------------------------------------------------------------
(* Commands.                                                               *)

Vars == MachineInv /\ CommandInv /\ TuneInv

\* Command c is at step l now, and has found out s, on the machines p.
Becomes(c, l, s, p) ==
  /\ pc' = [pc EXCEPT ![c] = l]
  /\ snap' = [snap EXCEPT ![c] = s]
  /\ past' = [t \in Tuners |-> IF t = c THEN p ELSE past[t]]

\* Such a step is one that a command may make.
MayBe(c, l, s, p) ==
  /\ l \in Steps \cup Resting
  /\ s \in Snapshots
  /\ IF l \in Found THEN s.model \in Builds ELSE s = Blank
  /\ c \in Tuners => p \in Pasts /\ Knows(l, s, p)

LEMMA BecomesKeepsCommands ==
  ASSUME CommandInv, NEW c \in Commands, NEW l, NEW s, NEW p,
         Becomes(c, l, s, p), MayBe(c, l, s, p), hurt' \subseteq Builds
  PROVE  CommandInv'
<1>1. /\ pc' \in [Commands -> Steps \cup Resting]
      /\ snap' \in [Commands -> Snapshots]
      /\ past' \in [Tuners -> Pasts]
  BY DEF CommandInv, Becomes, MayBe
<1>2. ASSUME NEW d \in Commands
      PROVE  IF pc'[d] \in Found THEN snap'[d].model \in Builds ELSE snap'[d] = Blank
  <2>1. CASE d = c
    BY <2>1 DEF CommandInv, Becomes, MayBe
  <2>2. CASE d # c
    BY <2>2 DEF CommandInv, Becomes
  <2> QED  BY <2>1, <2>2
<1> QED  BY <1>1, <1>2 DEF CommandInv

LEMMA BecomesKeepsTunes ==
  ASSUME CommandInv, TuneInv, NEW c \in Commands, NEW l, NEW s, NEW p,
         Becomes(c, l, s, p), MayBe(c, l, s, p), machine' = machine
  PROVE  TuneInv'
<1> SUFFICES ASSUME NEW t \in Tuners PROVE Knows(pc[t], snap[t], past[t])'
  BY DEF TuneInv
<1>1. CASE t = c
  <2>1. pc'[t] = l /\ snap'[t] = s /\ past'[t] = p
    BY <1>1 DEF CommandInv, Becomes
  <2>2. Knows(l, s, p)
    BY <1>1 DEF MayBe
  <2> QED  BY <2>1, <2>2 DEF Knows, Behind, Met, MetVersion, Installed
<1>2. CASE t # c
  <2>1. pc'[t] = pc[t] /\ snap'[t] = snap[t] /\ past'[t] = past[t]
    BY <1>2, Kinds DEF CommandInv, Becomes
  <2>2. Knows(pc[t], snap[t], past[t])
    BY DEF TuneInv
  <2> QED  BY <2>1, <2>2 DEF Knows, Behind, Met, MetVersion, Installed
<1> QED  BY <1>1, <1>2

\* A command is over.
LEMMA EndMeans ==
  ASSUME NEW c \in Commands, NEW l \in Resting, End(c, l)
  PROVE  Becomes(c, l, Blank, NoPast) /\ MayBe(c, l, Blank, NoPast)
<1>1. Becomes(c, l, Blank, NoPast)
  BY DEF End, Becomes
<1>2. l \in Steps \cup Resting /\ l \notin Found /\ l \notin Measured /\ l \notin Looking
      /\ l \notin Saving /\ l # "open"
  BY DEF Steps, Resting, Found, Measured, Looking, Saving
<1>3. Blank \in Snapshots /\ NoPast \in Pasts
  BY DEF Blank, Snapshots, NoPast, Pasts
<1>4. Behind(Blank, NoPast)
  BY DEF Behind, Searched, Blank, NoPast
<1>5. Knows(l, Blank, NoPast)
  BY <1>2, <1>4 DEF Knows, NoPast
<1> QED  BY <1>1, <1>2, <1>3, <1>5 DEF MayBe

\* A command goes on, knowing what it knew.
LEMMA GotoMeans ==
  ASSUME Vars, NEW c \in Commands, NEW l, Goto(c, l), UNCHANGED snap,
         \/ l \in {"probe", "identify"} /\ pc[c] \notin Found
         \/ l \in Found /\ pc[c] \in Found /\ l \notin Looking
              /\ (l \in Measured => pc[c] \in Measured)
              /\ (l \in Saving \cup {"open"} => pc[c] \in Saving \cup {"open"})
         \/ l = "version" /\ pc[c] = "search"
  PROVE  Becomes(c, l, snap[c], past[c]) /\ MayBe(c, l, snap[c], past[c])
<1>1. Becomes(c, l, snap[c], past[c])
  BY DEF Goto, Becomes, Vars, CommandInv
<1>2. l \in Steps \cup Resting /\ l # "absent"
  BY DEF Steps, Resting, Found, Saving
<1>3. snap[c] \in Snapshots /\ (c \in Tuners => past[c] \in Pasts)
  BY DEF Vars, CommandInv
<1>4. IF l \in Found THEN snap[c].model \in Builds ELSE snap[c] = Blank
  BY DEF Vars, CommandInv, Found, Saving
<1>5. ASSUME c \in Tuners PROVE Knows(l, snap[c], past[c])
  <2>1. Knows(pc[c], snap[c], past[c])
    BY <1>5 DEF Vars, TuneInv
  <2> QED  BY <2>1 DEF Knows, Found, Measured, Looking, Saving
<1> QED  BY <1>1, <1>2, <1>3, <1>4, <1>5 DEF MayBe

LEMMA MachineKinds ==
  ASSUME MachineInv
  PROVE  /\ machine.model \in Builds /\ machine.hardware \in Builds
         /\ machine.flags \in Builds /\ machine.version \in Builds
         /\ Installed \in Machines
         /\ \A f \in Searched : Installed[f] = machine[f] /\ machine[f] \in Nat
<1>1. Known(events) \subseteq Builds /\ Builds \subseteq Nat
  BY BuildsAreNumbers DEF MachineInv
<1>2. /\ machine.model \in Known(events) /\ machine.hardware \in Known(events)
      /\ machine.flags \in Known(events) /\ machine.version \in Known(events)
  BY DEF MachineInv
<1>3. /\ machine.model \in Builds /\ machine.hardware \in Builds
      /\ machine.flags \in Builds /\ machine.version \in Builds
  BY <1>1, <1>2
<1>4. /\ Installed["model"] = machine["model"] /\ Installed["hardware"] = machine["hardware"]
      /\ Installed["flags"] = machine["flags"]
  BY DEF Installed
<1>5. machine["model"] \in Nat /\ machine["hardware"] \in Nat /\ machine["flags"] \in Nat
  BY <1>1, <1>3
<1> QED  BY <1>3, <1>4, <1>5 DEF Installed, Machines, Searched

\* A new finding about a machine that is in place.
LEMMA BehindAfter ==
  ASSUME Vars, NEW names \in Snapshots, NEW p \in Pasts, NEW q \in Pasts,
         Behind(names, p), q.ran \subseteq p.ran \cup {Installed}
  PROVE  Behind(names, q)
<1>1. \A f \in Searched : Installed[f] = machine[f] /\ machine[f] \in Nat
  BY MachineKinds DEF Vars
<1>2. \A f \in Searched : machine[f] <= machine[f]
  BY <1>1
<1> QED  BY <1>1, <1>2 DEF Behind

LEMMA StartMeans ==
  ASSUME Vars, NEW c \in Commands, Start(c)
  PROVE  \E l, s, p : Becomes(c, l, s, p) /\ MayBe(c, l, s, p)
<1> DEFINE l == IF c \in Tuners THEN "probe" ELSE "identify"
<1>1. /\ Goto(c, l) /\ UNCHANGED snap /\ l \in {"probe", "identify"}
      /\ pc[c] \notin Found
  BY DEF Start, Resting, Found, Saving
<1> HIDE DEF l
<1> QED  BY <1>1, GotoMeans

LEMMA IdentifyMeans ==
  ASSUME Vars, NEW c \in Commands, Identify(c)
  PROVE  \E l, s, p : Becomes(c, l, s, p) /\ MayBe(c, l, s, p)
<1>1. CASE End(c, "failed")
  BY <1>1, EndMeans DEF Resting
<1>2. CASE ~End(c, "failed")
  <2> DEFINE s == [snap[c] EXCEPT !.model = machine.model]
             p == [met |-> {Installed}, ran |-> {}]
  <2>1. Becomes(c, "hardware", s, p)
    BY <1>2 DEF Identify, Becomes
  <2>2. snap[c] = Blank
    BY DEF Identify, At, Vars, CommandInv, Found, Saving
  <2>3. /\ s.model = machine.model /\ s.hardware = None /\ s.flags = None
        /\ s["model"] = machine["model"] /\ s["hardware"] = None /\ s["flags"] = None
        /\ s \in Snapshots
    BY <2>2, MachineKinds DEF Vars, Blank, Snapshots
  <2>4. p \in Pasts /\ p.ran = {} /\ p.met = {Installed}
    BY MachineKinds DEF Vars, Pasts
  <2>5. Behind(s, p)
    <3>1. machine["model"] <= machine["model"]
      BY MachineKinds DEF Vars, Searched
    <3> QED  BY <2>3, <2>4, <3>1 DEF Behind, Searched
  <2>6. Met(s, p)
    BY <2>3, <2>4 DEF Met, Installed
  <2>7. Knows("hardware", s, p)
    BY <2>4, <2>5, <2>6 DEF Knows, Measured, Saving
  <2>8. s.model \in Builds
    BY <2>3, MachineKinds DEF Vars
  <2> HIDE DEF s, p
  <2>9. MayBe(c, "hardware", s, p)
    BY <2>3, <2>4, <2>7, <2>8 DEF MayBe, Steps, Found
  <2> QED  BY <2>1, <2>9
<1> QED  BY <1>1, <1>2

LEMMA HardwareMeans ==
  ASSUME Vars, NEW c \in Commands, ProbeHardware(c)
  PROVE  \E l, s, p : Becomes(c, l, s, p) /\ MayBe(c, l, s, p)
<1>1. PICK h \in Detected("hardware", None) : snap' = [snap EXCEPT ![c].hardware = h]
  BY DEF ProbeHardware
<1> DEFINE s == [snap[c] EXCEPT !.hardware = h]
<1>2. h \in {machine.hardware, None}
  BY <1>1 DEF Detected
<1>3. Becomes(c, "locate", s, past[c])
  BY <1>1 DEF ProbeHardware, Goto, Becomes, Vars, CommandInv
<1>4. pc[c] = "hardware" /\ snap[c] \in Snapshots /\ snap[c].model \in Builds
  BY DEF ProbeHardware, At, Vars, CommandInv, Found
<1>5. /\ s \in Snapshots /\ s.model = snap[c].model /\ s.flags = snap[c].flags
      /\ s.hardware = h
      /\ s["model"] = snap[c]["model"] /\ s["flags"] = snap[c]["flags"]
      /\ s["hardware"] = h
  BY <1>2, <1>4, MachineKinds DEF Vars, Snapshots
<1>6. ASSUME c \in Tuners PROVE past[c] \in Pasts /\ Knows("locate", s, past[c])
  <2>1. past[c] \in Pasts /\ Knows("hardware", snap[c], past[c])
    BY <1>4, <1>6 DEF Vars, CommandInv, TuneInv
  <2>2. Behind(s, past[c])
    <3>1. Behind(snap[c], past[c])
      BY <2>1 DEF Knows
    <3>2. machine["hardware"] <= machine["hardware"]
      BY MachineKinds DEF Vars, Searched
    <3>3. past[c].ran = {}
      BY <2>1 DEF Knows
    <3> QED  BY <1>2, <1>5, <3>1, <3>2, <3>3 DEF Behind, Searched
  <2>3. Met(s, past[c])
    BY <1>2, <1>5, <2>1 DEF Knows, Met, Found, Looking, Installed
  <2> QED  BY <2>1, <2>2, <2>3 DEF Knows, Measured, Looking, Saving
<1> HIDE DEF s
<1>7. MayBe(c, "locate", s, past[c])
  BY <1>4, <1>5, <1>6 DEF MayBe, Steps, Found
<1> QED  BY <1>3, <1>7

LEMMA LocateMeans ==
  ASSUME Vars, NEW c \in Commands, Locate(c)
  PROVE  \E l, s, p : Becomes(c, l, s, p) /\ MayBe(c, l, s, p)
<1>1. CASE End(c, "failed")
  BY <1>1, EndMeans DEF Resting
<1>2. CASE c \in Runners /\ Goto(c, "load") /\ UNCHANGED snap
  BY <1>2, GotoMeans, Kinds DEF Locate, At, Found, Looking, Measured, Saving
<1>3. ASSUME NEW f \in Detected("flags", None), snap' = [snap EXCEPT ![c].flags = f],
             pc' = [pc EXCEPT ![c] = IF c \in Tuners THEN "search" ELSE "version"],
             past' = [t \in Tuners |->
               IF t = c THEN [past[t] EXCEPT !.ran = {Installed}] ELSE past[t]]
      PROVE  \E l, s, p : Becomes(c, l, s, p) /\ MayBe(c, l, s, p)
  <2> DEFINE l == IF c \in Tuners THEN "search" ELSE "version"
             s == [snap[c] EXCEPT !.flags = f]
             p == [past[c] EXCEPT !.ran = {Installed}]
  <2>1. f \in {machine.flags, None}
    BY <1>3 DEF Detected
  <2>2. Becomes(c, l, s, p)
    BY <1>3 DEF Becomes, Vars, CommandInv
  <2>3. pc[c] = "locate" /\ snap[c] \in Snapshots /\ snap[c].model \in Builds
    BY DEF Locate, At, Vars, CommandInv, Found
  <2>4. /\ s \in Snapshots /\ s.model = snap[c].model /\ s.hardware = snap[c].hardware
        /\ s.flags = f
        /\ s["model"] = snap[c]["model"] /\ s["hardware"] = snap[c]["hardware"]
        /\ s["flags"] = f
    BY <2>1, <2>3, MachineKinds DEF Vars, Snapshots
  <2>5. ASSUME c \in Tuners PROVE p \in Pasts /\ Knows("search", s, p)
    <3>1. past[c] \in Pasts /\ Knows("locate", snap[c], past[c])
      BY <2>3, <2>5 DEF Vars, CommandInv, TuneInv
    <3>2. p \in Pasts /\ p.met = past[c].met /\ p.ran = {Installed}
      BY <3>1, MachineKinds DEF Vars, Pasts
    <3>3. Behind(s, p)
      <4>1. Behind(snap[c], past[c])
        BY <3>1 DEF Knows
      <4>2. \A g \in Searched : /\ machine[g] <= machine[g] /\ Installed[g] = machine[g]
        BY MachineKinds DEF Vars
      <4>3. \A g \in Searched : s[g] # None => s[g] <= machine[g]
        BY <2>1, <2>4, <4>1, <4>2 DEF Behind, Searched
      <4> QED  BY <3>2, <4>2, <4>3 DEF Behind
    <3>4. Met(s, p)
      BY <2>1, <2>4, <3>1, <3>2 DEF Knows, Met, Found, Looking, Installed
    <3>5. Installed \in p.met
      BY <3>1, <3>2 DEF Knows, Looking
    <3> HIDE DEF s, p
    <3> QED  BY <3>1, <3>2, <3>3, <3>4, <3>5 DEF Knows, Looking, Saving
  <2>6. l \in {"search", "version"} /\ (c \in Tuners => l = "search")
    OBVIOUS
  <2> HIDE DEF l, s, p
  <2>7. MayBe(c, l, s, p)
    BY <2>3, <2>4, <2>5, <2>6 DEF MayBe, Steps, Found
  <2> QED  BY <2>2, <2>7
<1> QED  BY <1>1, <1>2, <1>3 DEF Locate

LEMMA VersionMeans ==
  ASSUME Vars, NEW c \in Commands, DetectVersion(c)
  PROVE  \E l, s, p : Becomes(c, l, s, p) /\ MayBe(c, l, s, p)
<1>1. PICK v \in {machine.version, Unknown} : snap' = [snap EXCEPT ![c].version = v]
  BY DEF DetectVersion, Detected
<1> DEFINE l == IF c \in Tuners THEN "open" ELSE "load"
           s == [snap[c] EXCEPT !.version = v]
<1>2. Becomes(c, l, s, past[c])
  BY <1>1 DEF DetectVersion, Goto, Becomes, Vars, CommandInv
<1>3. pc[c] = "version" /\ snap[c] \in Snapshots /\ snap[c].model \in Builds
  BY DEF DetectVersion, At, Vars, CommandInv, Found
<1>4. /\ s \in Snapshots /\ s.model = snap[c].model /\ s.hardware = snap[c].hardware
      /\ s.flags = snap[c].flags /\ s.version = v
      /\ s["model"] = snap[c]["model"] /\ s["hardware"] = snap[c]["hardware"]
      /\ s["flags"] = snap[c]["flags"]
  BY <1>1, <1>3, MachineKinds DEF Vars, Snapshots
<1>5. ASSUME c \in Tuners PROVE past[c] \in Pasts /\ Knows("open", s, past[c])
  <2>1. past[c] \in Pasts /\ Knows("version", snap[c], past[c])
    BY <1>3, <1>5 DEF Vars, CommandInv, TuneInv
  <2>2. Behind(s, past[c])
    BY <1>4, <2>1 DEF Knows, Behind, Searched
  <2>3. Met(s, past[c])
    BY <1>4, <2>1 DEF Knows, Met, Found
  <2>4. MetVersion(s, past[c])
    <3>1. Installed \in past[c].met /\ Installed.version = machine.version
      BY <2>1 DEF Knows, Looking, Installed
    <3>2. machine.version # None /\ Unknown # None
      BY MachineKinds, Kinds DEF Vars
    <3> QED  BY <1>1, <1>4, <3>1, <3>2 DEF MetVersion
  <2>5. past[c].ran # {}
    BY <2>1 DEF Knows, Measured
  <2> HIDE DEF s
  <2> QED  BY <2>1, <2>2, <2>3, <2>4, <2>5 DEF Knows, Looking, Saving
<1>6. l \in {"open", "load"} /\ (c \in Tuners => l = "open")
  OBVIOUS
<1> HIDE DEF l, s
<1>7. MayBe(c, l, s, past[c])
  BY <1>3, <1>4, <1>5, <1>6 DEF MayBe, Steps, Found
<1> QED  BY <1>2, <1>7

\* The steps of a tune that write its profile add nothing to what it knows.
LEMMA TuneMeans ==
  ASSUME Vars, NEW t \in Tuners, Tune(t)
  PROVE  \E l, s, p : Becomes(t, l, s, p) /\ MayBe(t, l, s, p)
<1> DEFINE Done == \E l, s, p : Becomes(t, l, s, p) /\ MayBe(t, l, s, p)
<1>1. t \in Commands
  BY Kinds
<1>2. ASSUME NEW l \in Resting, End(t, l) PROVE Done
  BY <1>1, <1>2, EndMeans
<1>3. ASSUME NEW l \in Saving, Goto(t, l), UNCHANGED snap, pc[t] \in Saving \cup {"open"}
      PROVE  Done
  BY <1>1, <1>3, GotoMeans DEF Found, Looking, Measured, Saving
<1>4. ASSUME NEW l, Finish(t, l), l \in Resting PROVE Done
  <2>1. (IF disk.writable THEN l ELSE "aborted") \in Resting
    BY <1>4 DEF Resting
  <2> QED  BY <1>2, <1>4, <2>1 DEF Finish
<1>5. CASE CheckWritable(t)
  BY <1>1, <1>2, <1>5, GotoMeans DEF CheckWritable, At, Resting, Found, Saving
<1>6. CASE Conclude(t)
  BY <1>1, <1>2, <1>6, GotoMeans DEF Conclude, At, Resting
<1>7. CASE OpenTmp(t)
  BY <1>2, <1>3, <1>7 DEF OpenTmp, At, Resting, Saving
<1>8. CASE WriteTmp(t)
  BY <1>2, <1>3, <1>8 DEF WriteTmp, At, Resting, Saving
<1>9. CASE CloseTmp(t)
  BY <1>3, <1>9 DEF CloseTmp, At, Saving
<1>10. CASE Rename(t)
  BY <1>2, <1>3, <1>10 DEF Rename, At, Resting, Saving
<1>11. CASE CopyOpen(t)
  BY <1>3, <1>4, <1>11 DEF CopyOpen, At, Resting, Saving
<1>12. CASE CopyData(t)
  BY <1>4, <1>12 DEF CopyData, At, Resting, Saving
<1> QED  BY <1>5, <1>6, <1>7, <1>8, <1>9, <1>10, <1>11, <1>12 DEF Tune

LEMMA LoadMeans ==
  ASSUME Vars, NEW r \in Runners, LoadValid(r)
  PROVE  \E l, s, p : Becomes(r, l, s, p) /\ MayBe(r, l, s, p)
<1>1. PICK l \in {"accepted", "failed"} : End(r, l)
  BY DEF LoadValid
<1> QED  BY <1>1, EndMeans, Kinds DEF Resting

LEMMA KillMeans ==
  ASSUME Vars, NEW c \in Commands, Kill(c)
  PROVE  \E l, s, p : Becomes(c, l, s, p) /\ MayBe(c, l, s, p)
BY EndMeans DEF Kill, Resting

LEMMA CommandsMove ==
  ASSUME Vars,
         \/ \E c \in Commands : Either(c) \/ Kill(c)
         \/ \E t \in Tuners : Tune(t)
         \/ \E r \in Runners : LoadValid(r)
  PROVE  \E c \in Commands : \E l, s, p : Becomes(c, l, s, p) /\ MayBe(c, l, s, p)
<1>1. ASSUME NEW c \in Commands, Either(c)
      PROVE  \E l, s, p : Becomes(c, l, s, p) /\ MayBe(c, l, s, p)
  BY <1>1, StartMeans, IdentifyMeans, HardwareMeans, LocateMeans, VersionMeans DEF Either
<1> QED  BY <1>1, TuneMeans, LoadMeans, KillMeans, Kinds

LEMMA MachineStays ==
  ASSUME MachineInv,
         \/ \E c \in Commands : Either(c) \/ Kill(c)
         \/ \E t \in Tuners : Tune(t)
         \/ \E r \in Runners : LoadValid(r)
  PROVE  /\ machine' = machine /\ disk' = disk /\ events' = events
         /\ MachineInv'
<1>1. machine' = machine /\ disk' = disk /\ events' = events
  BY DEF Either, Kill, Tune, LoadValid, Start, Identify, ProbeHardware, Locate, DetectVersion,
         CheckWritable, Conclude, OpenTmp, WriteTmp, CloseTmp, Rename, CopyOpen, CopyData
<1> QED  BY <1>1 DEF MachineInv

LEMMA HurtModels ==
  ASSUME CommandInv,
         \/ \E c \in Commands : Either(c) \/ Kill(c)
         \/ \E t \in Tuners : Tune(t)
         \/ \E r \in Runners : LoadValid(r)
  PROVE  hurt' \subseteq Builds /\ hurt \subseteq hurt'
<1>1. hurt' = hurt \/ \E t \in Tuners : pc[t] \in Found /\ hurt' = hurt \cup {snap[t].model}
  BY DEF Either, Kill, Tune, LoadValid, Start, Identify, ProbeHardware, Locate, DetectVersion,
         CheckWritable, Conclude, OpenTmp, WriteTmp, CloseTmp, Rename, CopyOpen, CopyData,
         At, Found, Saving
<1> QED  BY <1>1, Kinds DEF CommandInv

LEMMA DiskKeepsVars == Vars /\ DiskChange => Vars'
<1> SUFFICES ASSUME Vars, DiskChange PROVE Vars'
  OBVIOUS
<1>1. events \in 0..Events /\ events' = events + 1 /\ events' \in 0..Events
  BY ProfilesAssumption DEF Vars, MachineInv, DiskChange
<1>2. Known(events) \subseteq Known(events')
  BY <1>1, ProfilesAssumption DEF Known
<1>3. machine' = machine /\ disk' \in [full: BOOLEAN, writable: BOOLEAN]
  BY DEF Vars, MachineInv, DiskChange
<1>4. MachineInv'
  BY <1>1, <1>2, <1>3 DEF Vars, MachineInv
<1>5. CommandInv' /\ TuneInv'
  BY <1>3 DEF Vars, CommandInv, TuneInv, DiskChange, commands, Knows, Behind, Met, MetVersion,
              Installed
<1> QED  BY <1>4, <1>5 DEF Vars

\* The machine that replaces another lies ahead of every machine met before.
LEMMA ReplaceAhead ==
  ASSUME MachineInv, Replace
  PROVE  /\ MachineInv'
         /\ \A f \in Searched :
              machine[f] \in Nat /\ machine'[f] \in Nat /\ machine[f] <= machine'[f]
<1>1. events \in 0..Events /\ events' = events + 1 /\ events' \in 0..Events
  BY ProfilesAssumption DEF MachineInv, Replace
<1>2. /\ Known(events) \subseteq Nat /\ Known(events) \subseteq Known(events')
      /\ \A k \in Known(events) : k + 1 \in Known(events') /\ k <= k /\ k <= k + 1
  BY <1>1, ProfilesAssumption DEF Known
<1>3. machine' \in [model: Known(events'), hardware: Known(events'), flags: Known(events'),
                    version: Known(events'), bench: BOOLEAN]
  <2> DEFINE K == Known(events')
  <2>1. machine \in [model: K, hardware: K, flags: K, version: K, bench: BOOLEAN]
    BY <1>2 DEF MachineInv
  <2>2. /\ machine.model + 1 \in K /\ machine.hardware + 1 \in K
        /\ machine.flags + 1 \in K /\ machine.version + 1 \in K
    BY <1>2 DEF MachineInv
  <2>3. CASE \/ machine' = [machine EXCEPT !.model = @ + 1]
             \/ machine' = [machine EXCEPT !.hardware = @ + 1]
             \/ machine' = [machine EXCEPT !.version = @ + 1]
    BY <2>1, <2>2, <2>3
  <2>4. CASE machine' = [machine EXCEPT !.version = @ + 1, !.flags = @ + 1]
    BY <2>1, <2>2, <2>4
  <2>5. CASE machine' = [machine EXCEPT !.bench = ~@]
    BY <2>1, <2>5
  <2> QED  BY <2>3, <2>4, <2>5 DEF Replace
<1>4. ASSUME NEW f \in Searched
      PROVE  machine[f] \in Known(events) /\ machine'[f] \in {machine[f], machine[f] + 1}
  <2>1. DOMAIN machine = {"model", "hardware", "flags", "version", "bench"}
    BY DEF MachineInv
  <2>2. machine[f] \in Known(events)
    BY DEF MachineInv, Searched
  <2> QED  BY <2>1, <2>2 DEF Replace, Searched, MachineInv
<1>5. disk' = disk
  BY DEF Replace
<1>6. MachineInv'
  BY <1>1, <1>3, <1>5 DEF MachineInv
<1> QED  BY <1>2, <1>4, <1>6

\* What was found out stays behind.
LEMMA BehindStays ==
  ASSUME MachineInv, Replace, NEW names \in Snapshots, NEW p \in Pasts, Behind(names, p)
  PROVE  Behind(names, p)'
<1>1. \A f \in Searched :
        machine[f] \in Nat /\ machine'[f] \in Nat /\ machine[f] <= machine'[f]
  BY ReplaceAhead
<1>2. \A f \in Searched : /\ names[f] # None => names[f] \in Nat
                          /\ \A m \in p.ran : m[f] \in Nat
  BY BuildsAreNumbers DEF Searched, Snapshots, Pasts, Machines
<1>3. \A a, b, c \in Nat : a <= b /\ b <= c => a <= c
  OBVIOUS
<1> QED  BY <1>1, <1>2, <1>3 DEF Behind

LEMMA ReplaceKeepsVars == Vars /\ Replace => Vars'
<1> SUFFICES ASSUME Vars, Replace PROVE Vars'
  OBVIOUS
<1>1. MachineInv'
  BY ReplaceAhead DEF Vars
<1>2. Installed' \in Machines /\ \A f \in Searched : Installed'[f] = machine'[f]
  <2>1. /\ machine'.model \in Known(events') /\ machine'.hardware \in Known(events')
        /\ machine'.flags \in Known(events') /\ machine'.version \in Known(events')
    BY <1>1 DEF MachineInv
  <2>2. Known(events') \subseteq Builds
    BY <1>1, BuildsAreNumbers DEF MachineInv
  <2>3. /\ Installed'["model"] = machine'["model"]
        /\ Installed'["hardware"] = machine'["hardware"]
        /\ Installed'["flags"] = machine'["flags"]
    BY DEF Installed
  <2> QED  BY <2>1, <2>2, <2>3 DEF Installed, Machines, Searched
<1>3. ASSUME NEW t \in Tuners
      PROVE  /\ past'[t].met = past[t].met \cup (IF pc[t] \in Looking THEN {Installed'} ELSE {})
             /\ past'[t].ran =
                  past[t].ran \cup (IF pc[t] \in {"search", "version"} THEN {Installed'} ELSE {})
             /\ past[t] \in Pasts /\ past'[t] \in Pasts
             /\ pc'[t] = pc[t] /\ snap'[t] = snap[t] /\ snap[t] \in Snapshots
             /\ Knows(pc[t], snap[t], past[t])
  <2>1. past[t] \in Pasts /\ snap[t] \in Snapshots /\ Knows(pc[t], snap[t], past[t])
    BY Kinds DEF Vars, CommandInv, TuneInv
  <2>2. /\ past'[t].met = past[t].met \cup (IF pc[t] \in Looking THEN {Installed'} ELSE {})
        /\ past'[t].ran =
             past[t].ran \cup (IF pc[t] \in {"search", "version"} THEN {Installed'} ELSE {})
        /\ past'[t] = [met |-> past'[t].met, ran |-> past'[t].ran]
    BY DEF Replace, Looking
  <2>3. past'[t].met \subseteq Machines /\ past'[t].ran \subseteq Machines
    BY <1>2, <2>1, <2>2 DEF Pasts
  <2>4. past'[t] \in Pasts
    BY <2>2, <2>3 DEF Pasts
  <2> QED  BY <2>1, <2>2, <2>4 DEF Replace
<1>4. CommandInv'
  <2>1. past' \in [Tuners -> Pasts]
    <3>1. past' = [t \in Tuners |-> past'[t]]
      BY DEF Replace
    <3> QED  BY <1>3, <3>1
  <2> QED  BY <2>1 DEF Vars, CommandInv, Replace
<1>5. TuneInv'
  <2> SUFFICES ASSUME NEW t \in Tuners PROVE Knows(pc[t], snap[t], past[t])'
    BY DEF TuneInv
  <2>1. Behind(snap[t], past[t])'
    <3>1. \A f \in Searched :
            /\ snap[t][f] # None => snap[t][f] <= machine'[f]
            /\ \A m \in past[t].ran :
                 m[f] <= machine'[f] /\ (snap[t][f] # None => snap[t][f] <= m[f])
      BY <1>3, BehindStays DEF Knows, Vars, Behind
    <3>2. \A f \in Searched : Installed'[f] = machine'[f] /\ machine'[f] <= machine'[f]
      BY <1>2, ReplaceAhead DEF Vars
    <3> QED  BY <1>3, <3>1, <3>2 DEF Behind
  <2>2. /\ pc'[t] \in Measured => past'[t].ran # {}
        /\ pc'[t] \in {"hardware", "locate"} => past'[t].ran = {}
        /\ pc'[t] \in Looking => Installed' \in past'[t].met
    BY <1>3 DEF Knows
  <2>3. past[t].met \subseteq past'[t].met
    BY <1>3
  <2>4. /\ pc'[t] \in Found => Met(snap[t], past[t])'
        /\ pc'[t] \in Saving \cup {"open"} => MetVersion(snap[t], past[t])'
    BY <1>3, <2>3 DEF Knows, Met, MetVersion
  <2> QED  BY <2>1, <2>2, <2>4 DEF Knows
<1> QED  BY <1>1, <1>4, <1>5 DEF Vars

LEMMA VarsInit == Init => Vars
<1> SUFFICES ASSUME Init PROVE Vars
  OBVIOUS
<1>1. MachineInv
  BY ProfilesAssumption DEF Init, MachineInv, Known
<1>2. Blank \in Snapshots /\ NoPast \in Pasts
  BY DEF Blank, Snapshots, NoPast, Pasts
<1>3. \A c \in Commands : pc[c] \in {"idle", "absent"} /\ snap[c] = Blank
  BY DEF Init
<1>4. pc \in [Commands -> Steps \cup Resting]
  BY DEF Init, Resting
<1>5. CommandInv
  BY <1>2, <1>3, <1>4 DEF Init, CommandInv, Found, Saving
<1>6. Behind(Blank, NoPast)
  BY DEF Behind, Searched, Blank, NoPast
<1>7. TuneInv
  BY <1>3, <1>6, Kinds DEF Init, TuneInv, Knows, Found, Looking, Measured, Saving, NoPast
<1> QED  BY <1>1, <1>5, <1>7 DEF Vars

LEMMA VarsNext == Vars /\ [Next]_vars => Vars'
<1> SUFFICES ASSUME Vars, [Next]_vars PROVE Vars'
  OBVIOUS
<1>1. ASSUME \/ \E c \in Commands : Either(c) \/ Kill(c)
             \/ \E t \in Tuners : Tune(t)
             \/ \E r \in Runners : LoadValid(r)
      PROVE  Vars'
  <2>1. PICK c, l, s, p : c \in Commands /\ Becomes(c, l, s, p) /\ MayBe(c, l, s, p)
    BY <1>1, CommandsMove
  <2>2. machine' = machine /\ MachineInv' /\ hurt' \subseteq Builds
    BY <1>1, MachineStays, HurtModels DEF Vars
  <2> QED  BY <2>1, <2>2, BecomesKeepsCommands, BecomesKeepsTunes DEF Vars
<1>2. CASE UNCHANGED vars
  BY <1>2 DEF vars, commands, files, Vars, MachineInv, CommandInv, TuneInv, Knows, Behind, Met,
              MetVersion, Installed
<1> QED  BY <1>1, <1>2, DiskKeepsVars, ReplaceKeepsVars DEF Next

-----------------------------------------------------------------------------
(* Files.                                                                  *)

\* Tune t goes to step l and leaves the names d and the contents, with o and s open.
Leaves(t, l, d, o, s, contents) ==
  /\ d \in [Names -> Inodes \cup {None}]
  /\ contents \in [Inodes -> Contents]
  /\ o \in Inodes \cup {None} /\ s \in Inodes \cup {None}
  /\ Files(d, [out EXCEPT ![t] = o], [source EXCEPT ![t] = s], contents)
  /\ pc' = [pc EXCEPT ![t] = l]
  /\ o # None <=> l \in {"write", "close", "copying"}
  /\ s # None <=> l = "copying"

LEMMA FileStep ==
  ASSUME FileInv, CommandInv, NEW t \in Tuners, NEW l, NEW d, NEW o, NEW s, NEW contents,
         Leaves(t, l, d, o, s, contents)
  PROVE  /\ FileInv' /\ dir' = d /\ out'[t] = o
         /\ \A u \in Tuners \ {t} : out'[u] = out[u]
         /\ \A i \in Inodes : data'[i] \in {contents[i], Torn}
         /\ \A n \in Names : d[n] \in Inodes => data'[d[n]] = contents[d[n]]
<1>0. /\ d \in [Names -> Inodes \cup {None}] /\ contents \in [Inodes -> Contents]
      /\ o \in Inodes \cup {None} /\ s \in Inodes \cup {None}
      /\ Files(d, [out EXCEPT ![t] = o], [source EXCEPT ![t] = s], contents)
      /\ pc' = [pc EXCEPT ![t] = l]
      /\ o # None <=> l \in {"write", "close", "copying"}
      /\ s # None <=> l = "copying"
  BY DEF Leaves
<1> DEFINE oo == [out EXCEPT ![t] = o]
           ss == [source EXCEPT ![t] = s]
<1>1. oo \in [Tuners -> Inodes \cup {None}] /\ ss \in [Tuners -> Inodes \cup {None}]
  BY <1>0 DEF FileInv
<1>2. /\ oo[t] = o /\ ss[t] = s
      /\ \A u \in Tuners \ {t} : oo[u] = out[u] /\ ss[u] = source[u]
  BY DEF FileInv
<1> HIDE DEF oo, ss
<1>3. Files(d, oo, ss, contents)
  BY <1>0 DEF oo, ss
<1>4. /\ dir' = d /\ out' = oo /\ source' = ss
      /\ data' \in [Inodes -> Contents]
      /\ \A i \in Inodes : data'[i] \in {contents[i], Torn}
      /\ \A n \in Names : d[n] \in Inodes => data'[d[n]] = contents[d[n]]
  BY <1>0, <1>1, <1>3, FilesMean
<1>5. ASSUME NEW u \in Tuners
      PROVE  /\ out'[u] # None <=> pc'[u] \in {"write", "close", "copying"}
             /\ source'[u] # None <=> pc'[u] = "copying"
  <2>1. CASE u = t
    <3>1. pc'[u] = l
      BY <1>0, <2>1, Kinds DEF CommandInv
    <3> QED  BY <1>0, <1>2, <1>4, <2>1, <3>1
  <2>2. CASE u # t
    <3>1. pc'[u] = pc[u]
      BY <1>0, <2>2, Kinds DEF CommandInv
    <3> QED  BY <1>2, <1>4, <2>2, <3>1 DEF FileInv
  <2> QED  BY <2>1, <2>2
<1>6. FileInv'
  BY <1>0, <1>1, <1>4, <1>5 DEF FileInv
<1> QED  BY <1>2, <1>4, <1>6

\* What a step of tune t may do to the files: nothing to the names of another
\* model, nor to what they hold, unless it has written to the file before.
Works(t) == pc[t] \in Saving \/ (pc[t] = "open" /\ pc'[t] = "write")

Effect(t) ==
  /\ \A u \in Tuners \ {t} : out'[u] = out[u]
  /\ \A n \in Names : dir'[n] # dir[n] =>
       n \in {Final(snap[t].model), Tmp(snap[t].model)} /\ Works(t)
  /\ \A n \in Names : dir'[n] # dir[n] /\ dir'[n] # None =>
       \/ /\ n = Final(snap[t].model) /\ dir'[n] = dir[Tmp(snap[t].model)]
          /\ dir'[Tmp(snap[t].model)] = None
       \/ /\ \A o \in Names : dir[o] # dir'[n] /\ (o # n => dir'[o] = dir[o])
          /\ \A u \in Tuners : out[u] # dir'[n]
  /\ out'[t] # None =>
       /\ Works(t)
       /\ out'[t] \in {dir'[Final(snap[t].model)], dir'[Tmp(snap[t].model)]}
  /\ \A n \in Names : dir'[n] \notin {None, out[t], out'[t]} =>
       data'[dir'[n]] = data[dir'[n]]

\* A tune opens a name of its model for writing.
LEMMA OpenEffect ==
  ASSUME FileInv, CommandInv, NEW t \in Tuners, NEW l \in {"write", "copying"},
         IF l = "write" THEN pc[t] = "open" ELSE pc[t] = "copy", NEW n \in {Final(snap[t].model), Tmp(snap[t].model)},
         NEW s \in Inodes \cup {None}, s # None <=> l = "copying",
         Files([dir EXCEPT ![n] = Opened(n)], [out EXCEPT ![t] = Opened(n)],
               [source EXCEPT ![t] = s], [data EXCEPT ![Opened(n)] = Torn]),
         pc' = [pc EXCEPT ![t] = l]
  PROVE  /\ FileInv' /\ Effect(t)
         /\ out'[t] # None /\ dir' = [dir EXCEPT ![n] = out'[t]]
         /\ \A i \in Inodes : data'[i] \in {data[i], Torn}
<1> DEFINE m == snap[t].model
           i == Opened(n)
           d == [dir EXCEPT ![n] = i]
           contents == [data EXCEPT ![i] = Torn]
<1>1. m \in Builds /\ n \in Names
  BY Kinds, NamesDiffer DEF CommandInv, Found, Saving
<1>2. /\ i \in Inodes
      /\ dir[n] # None => i = dir[n]
      /\ dir[n] = None => /\ \A o \in Names : dir[o] # i
                          /\ \A u \in Tuners : out[u] # i
  BY <1>1, OpenedFile
<1> HIDE DEF i
<1>3. /\ d \in [Names -> Inodes \cup {None}] /\ d[n] = i
      /\ \A o \in Names \ {n} : d[o] = dir[o]
  BY <1>1, <1>2 DEF FileInv
<1>4. /\ contents \in [Inodes -> Contents] /\ contents[i] = Torn
      /\ \A j \in Inodes \ {i} : contents[j] = data[j]
  BY <1>2 DEF FileInv, Contents
<1>5. Files(d, [out EXCEPT ![t] = i], [source EXCEPT ![t] = s], contents)
  BY DEF i
<1> HIDE DEF d, contents
<1>6. i # None
  BY <1>2, Kinds
<1>7. /\ FileInv' /\ dir' = d /\ out'[t] = i
      /\ \A u \in Tuners \ {t} : out'[u] = out[u]
      /\ \A j \in Inodes : data'[j] \in {contents[j], Torn}
      /\ \A o \in Names : d[o] \in Inodes => data'[d[o]] = contents[d[o]]
  <2>1. Leaves(t, l, d, i, s, contents)
    BY <1>2, <1>3, <1>4, <1>5, <1>6 DEF Leaves
  <2> QED  BY <2>1, FileStep
<1>8. Effect(t)
  <2>1. \A o \in Names : dir'[o] # dir[o] =>
          /\ o = n /\ dir[n] = None /\ dir'[o] = i
          /\ \A p \in Names : dir[p] # i /\ (p # o => dir'[p] = dir[p])
          /\ \A u \in Tuners : out[u] # i
    BY <1>2, <1>3, <1>7
  <2>2. \A o \in Names : dir'[o] \notin {None, out[t], out'[t]} =>
          data'[dir'[o]] = data[dir'[o]]
    BY <1>3, <1>4, <1>7
  <2>3. out'[t] \in {dir'[Final(m)], dir'[Tmp(m)]}
    BY <1>3, <1>7
  <2>4. Works(t)
    BY Kinds DEF Works, CommandInv, Saving
  <2> QED  BY <1>7, <2>1, <2>2, <2>3, <2>4 DEF Effect
<1>9. \A j \in Inodes : data'[j] \in {data[j], Torn}
  BY <1>4, <1>7
<1> QED  BY <1>6, <1>7, <1>8, <1>9 DEF d

\* A tune closes what it has open, leaving no more than the contents in the file.
Closes(t, l, d, contents) ==
  /\ pc' = [pc EXCEPT ![t] = l] /\ l \notin {"write", "close", "copying"}
  /\ contents \in [Inodes -> Contents]
  /\ \A i \in Inodes : i # out[t] => contents[i] = data[i]
  /\ d = dir \/ (pc[t] \in Saving /\ d = [dir EXCEPT ![tmp_path(t)] = None])
  /\ Files(d, [out EXCEPT ![t] = None], [source EXCEPT ![t] = None], contents)

LEMMA CloseEffect ==
  ASSUME FileInv, CommandInv, NEW t \in Tuners, NEW l, NEW d, NEW contents,
         Closes(t, l, d, contents)
  PROVE  /\ FileInv' /\ Effect(t)
         /\ out'[t] = None /\ dir' = d
         /\ \A i \in Inodes : data'[i] \in {contents[i], Torn}
         /\ \A n \in Names : dir'[n] \in Inodes => data'[dir'[n]] = contents[dir'[n]]
<1>1. d # dir => pc[t] \in Saving /\ tmp_path(t) \in Names
  BY Kinds, NamesDiffer DEF Closes, CommandInv, Found, tmp_path
<1>2. /\ d \in [Names -> Inodes \cup {None}]
      /\ \A n \in Names : d[n] # dir[n] =>
           d[n] = None /\ n = tmp_path(t) /\ pc[t] \in Saving
  BY <1>1 DEF Closes, FileInv
<1>3. /\ FileInv' /\ dir' = d /\ out'[t] = None
      /\ \A u \in Tuners \ {t} : out'[u] = out[u]
      /\ \A j \in Inodes : data'[j] \in {contents[j], Torn}
      /\ \A n \in Names : d[n] \in Inodes => data'[d[n]] = contents[d[n]]
  <2>1. Leaves(t, l, d, None, None, contents)
    BY <1>2 DEF Closes, Leaves
  <2> QED  BY <2>1, FileStep
<1>4. Effect(t)
  <2>1. \A n \in Names : dir'[n] \notin {None, out[t], out'[t]} =>
          data'[dir'[n]] = data[dir'[n]]
    BY <1>2, <1>3 DEF Closes
  <2> QED  BY <1>2, <1>3, <2>1 DEF Effect, Works, tmp_path
<1> QED  BY <1>3, <1>4

\* A tune renames its temporary file.
LEMMA RenameEffect ==
  ASSUME FileInv, CommandInv, NEW t \in Tuners, pc[t] = "rename",
         pc' = [pc EXCEPT ![t] = "saved"], dir[tmp_path(t)] # None,
         Files([dir EXCEPT ![final_path(t)] = dir[tmp_path(t)], ![tmp_path(t)] = None],
               out, source, data)
  PROVE  /\ FileInv' /\ Effect(t)
         /\ dir'[final_path(t)] = dir[tmp_path(t)]
         /\ \A i \in Inodes : data'[i] \in {data[i], Torn}
         /\ data'[dir'[final_path(t)]] = data[dir[tmp_path(t)]]
<1> DEFINE d == [dir EXCEPT ![final_path(t)] = dir[tmp_path(t)], ![tmp_path(t)] = None]
<1>1. /\ final_path(t) \in Names /\ tmp_path(t) \in Names /\ final_path(t) # tmp_path(t)
  BY Kinds, NamesDiffer DEF CommandInv, Found, Saving, tmp_path, final_path
<1>2. /\ d \in [Names -> Inodes \cup {None}]
      /\ d[final_path(t)] = dir[tmp_path(t)] /\ d[tmp_path(t)] = None
      /\ \A n \in Names \ {final_path(t), tmp_path(t)} : d[n] = dir[n]
  BY <1>1 DEF FileInv
<1>3. Files(d, out, source, data)
  OBVIOUS
<1> HIDE DEF d
<1>4. out[t] = None /\ source[t] = None
  BY DEF FileInv
<1>5. out = [out EXCEPT ![t] = None] /\ source = [source EXCEPT ![t] = None]
  BY <1>4 DEF FileInv
<1>6. Files(d, [out EXCEPT ![t] = None], [source EXCEPT ![t] = None], data)
  BY <1>3, <1>5
<1>7. data \in [Inodes -> Contents]
  BY DEF FileInv
<1>8. /\ FileInv' /\ dir' = d /\ out'[t] = None
      /\ \A u \in Tuners \ {t} : out'[u] = out[u]
      /\ \A j \in Inodes : data'[j] \in {data[j], Torn}
      /\ \A n \in Names : d[n] \in Inodes => data'[d[n]] = data[d[n]]
  <2>1. Leaves(t, "saved", d, None, None, data)
    BY <1>2, <1>6, <1>7 DEF Leaves
  <2> QED  BY <2>1, FileStep
<1>9. Effect(t)
  <2>1. \A n \in Names : dir'[n] \notin {None, out[t], out'[t]} =>
          data'[dir'[n]] = data[dir'[n]]
    BY <1>2, <1>8
  <2> QED  BY <1>2, <1>8, <2>1 DEF Effect, Works, tmp_path, final_path, Saving
<1>10. d[final_path(t)] \in Inodes
  BY <1>1, <1>2 DEF FileInv
<1> QED  BY <1>1, <1>2, <1>8, <1>9, <1>10

\* What such a step makes of the tune itself.
Own(t) ==
  /\ \A u \in Tuners \ {t} : pc'[u] = pc[u] /\ snap'[u] = snap[u] /\ past'[u] = past[u]
  /\ hurt \subseteq hurt'
  /\ out'[t] # None => snap'[t] = snap[t]
  /\ pc'[t] \in Saving =>
       /\ snap'[t] = snap[t] /\ past'[t] = past[t]
       /\ \/ pc[t] \in Saving
          \/ \A u \in Tuners \ {t} :
               pc[u] \in Saving /\ snap[u].model = snap[t].model => snap[t].model \in hurt'
  /\ pc'[t] \in Saving /\ snap[t].model \notin hurt' =>
       /\ pc'[t] # "copying"
       /\ pc'[t] \in {"write", "close"} => out'[t] = dir'[tmp_path(t)]
       /\ pc'[t] = "rename" =>
            dir'[tmp_path(t)] # None /\ data'[dir'[tmp_path(t)]] = Profile(t)
  /\ \A m \in Builds \ hurt' : m = snap[t].model =>
       \/ Stored(m)' = Stored(m)
       \/ pc[t] # "saved" /\ pc'[t] = "saved" /\ Stored(m)' = Profile(t)

Touches(t) == FileInv' /\ Effect(t) /\ Own(t)

LEMMA TouchesKeepsNames ==
  ASSUME NEW t \in Tuners, FileInv, CommandInv, NameInv, Touches(t)
  PROVE  NameInv'
<1> DEFINE m == snap[t].model
<1>1. ASSUME NEW n \in Names, dir'[n] # dir[n]
      PROVE  m \in Builds
  BY <1>1, Kinds DEF Touches, Effect, Works, CommandInv, Found
<1>2. ASSUME NEW n \in Names, NEW o \in Names, dir'[n] # None, dir'[n] = dir'[o], n # o
      PROVE  FALSE
  <2>1. dir'[n] # dir[n] \/ dir'[o] # dir[o]
    BY <1>2 DEF NameInv
  <2>2. m \in Builds
    BY <1>1, <2>1
  <2>3. Final(m) \in Names /\ Tmp(m) \in Names /\ Final(m) # Tmp(m)
    BY <2>2, NamesDiffer
  <2>4. ASSUME NEW p \in Names, NEW q \in Names, p # q, dir'[p] # None, dir'[p] = dir'[q],
               dir'[p] # dir[p]
        PROVE  FALSE
    <3>1. CASE /\ p = Final(m) /\ dir'[p] = dir[Tmp(m)]
               /\ dir'[Tmp(m)] = None
      <4>1. q \notin {Final(m), Tmp(m)}
        BY <2>4, <3>1
      <4>2. dir'[q] = dir[q]
        BY <4>1 DEF Touches, Effect
      <4>3. dir[Tmp(m)] # None /\ dir[Tmp(m)] = dir[q]
        BY <2>4, <3>1, <4>2
      <4> QED  BY <2>3, <4>1, <4>3 DEF NameInv
    <3>2. CASE \A r \in Names : dir[r] # dir'[p] /\ (r # p => dir'[r] = dir[r])
      BY <2>4, <3>2
    <3> QED  BY <2>4, <3>1, <3>2 DEF Touches, Effect
  <2> QED  BY <1>2, <2>1, <2>4
<1>3. ASSUME NEW u \in Tuners, NEW k \in Builds, out'[u] # None, k # snap'[u].model,
             NEW n \in {Final(k), Tmp(k)}
      PROVE  out'[u] # dir'[n]
  <2>0. n \in Names
    BY NamesDiffer
  <2>1. CASE u = t
    <3>1. snap'[t] = snap[t] /\ m \in Builds
      BY <1>3, <2>1, Kinds DEF Touches, Own, Effect, Works, CommandInv, Found
    <3>2. PICK o \in {Final(m), Tmp(m)} : out'[t] = dir'[o]
      BY <1>3, <2>1 DEF Touches, Effect
    <3>3. o \in Names /\ n # o
      BY <1>3, <2>1, <3>1, NamesDiffer
    <3> QED  BY <1>2, <1>3, <2>0, <2>1, <3>2, <3>3
  <2>2. CASE u # t
    <3>1. out'[u] = out[u] /\ snap'[u] = snap[u]
      BY <2>2 DEF Touches, Effect, Own
    <3>2. \A o \in {Final(k), Tmp(k)} : out[u] # dir[o]
      BY <1>3, <3>1 DEF NameInv
    <3>3. CASE dir'[n] = dir[n]
      BY <3>1, <3>2, <3>3
    <3>4. CASE dir'[n] # dir[n]
      <4>1. n \in {Final(m), Tmp(m)} /\ m \in Builds
        BY <1>1, <2>0, <3>4 DEF Touches, Effect
      <4>2. k = m
        BY <4>1, NamesDiffer
      <4> QED  BY <1>3, <2>0, <3>1, <3>2, <3>4, <4>1, <4>2 DEF Touches, Effect
    <3> QED  BY <3>3, <3>4
  <2> QED  BY <2>1, <2>2
<1>4. \A u \in Tuners : \A k \in Builds : out'[u] # None /\ k # snap'[u].model =>
        out'[u] # dir'[Final(k)] /\ out'[u] # dir'[Tmp(k)]
  BY <1>3
<1>5. \A n, o \in Names : dir'[n] # None /\ dir'[n] = dir'[o] => n = o
  BY <1>2
<1> QED  BY <1>4, <1>5 DEF NameInv

\* What belongs to another model stays as it is.
LEMMA OtherModels ==
  ASSUME NEW t \in Tuners, FileInv, CommandInv, NameInv, Touches(t),
         NEW k \in Builds, k # snap[t].model, NEW n \in {Final(k), Tmp(k)}
  PROVE  /\ dir'[n] = dir[n]
         /\ dir[n] # None => data'[dir'[n]] = data[dir[n]]
<1>0. n \in Names
  BY NamesDiffer
<1>1. dir'[n] = dir[n]
  <2>1. ASSUME dir'[n] # dir[n] PROVE FALSE
    <3>1. n \in {Final(snap[t].model), Tmp(snap[t].model)} /\ snap[t].model \in Builds
      BY <1>0, <2>1, Kinds DEF Touches, Effect, Works, CommandInv, Found
    <3> QED  BY <3>1, NamesDiffer
  <2> QED  BY <2>1
<1>2. NameInv'
  BY TouchesKeepsNames
<1>3. out[t] # None => out[t] # dir[n]
  BY DEF NameInv
<1>4. out'[t] # None => out'[t] # dir'[n]
  BY <1>2 DEF NameInv, Touches, Own
<1> QED  BY <1>0, <1>1, <1>3, <1>4 DEF Touches, Effect

LEMMA TouchesKeepsAlone ==
  ASSUME NEW t \in Tuners, FileInv, CommandInv, NameInv, AloneInv, Touches(t)
  PROVE  AloneInv'
<1> SUFFICES ASSUME NEW u \in Tuners, pc'[u] \in Saving, snap'[u].model \notin hurt'
             PROVE  /\ pc'[u] # "copying"
                    /\ \A v \in Tuners :
                         pc'[v] \in Saving /\ snap'[v].model = snap'[u].model => v = u
                    /\ pc'[u] \in {"write", "close"} => out'[u] = dir'[tmp_path(u)']
                    /\ pc'[u] = "rename" => /\ dir'[tmp_path(u)'] # None
                                            /\ data'[dir'[tmp_path(u)']] = Profile(u)'
  BY DEF AloneInv
<1>1. snap'[u] = snap[u] /\ past'[u] = past[u] /\ snap[u].model \notin hurt
  BY DEF Touches, Own
<1>2. tmp_path(u)' = tmp_path(u) /\ Profile(u)' = Profile(u)
  BY <1>1 DEF tmp_path, Profile
<1>3. CASE u = t
  <2>1. ASSUME NEW v \in Tuners, pc'[v] \in Saving, snap'[v].model = snap'[u].model, v # u
        PROVE  FALSE
    <3>1. pc[v] \in Saving /\ snap[v].model = snap[t].model
      BY <1>1, <1>3, <2>1 DEF Touches, Own
    <3>2. pc[t] \in Saving
      BY <1>1, <1>3, <2>1, <3>1 DEF Touches, Own
    <3> QED  BY <1>1, <1>3, <2>1, <3>1, <3>2 DEF AloneInv
  <2> QED  BY <1>1, <1>2, <1>3, <2>1 DEF Touches, Own
<1>4. CASE u # t
  <2>1. pc'[u] = pc[u] /\ out'[u] = out[u]
    BY <1>4 DEF Touches, Effect, Own
  <2>2. /\ pc[u] # "copying"
        /\ \A v \in Tuners : pc[v] \in Saving /\ snap[v].model = snap[u].model => v = u
        /\ pc[u] \in {"write", "close"} => out[u] = dir[tmp_path(u)]
        /\ pc[u] = "rename" => /\ dir[tmp_path(u)] # None
                               /\ data[dir[tmp_path(u)]] = Profile(u)
    BY <1>1, <2>1 DEF AloneInv
  <2>3. ASSUME NEW v \in Tuners, pc'[v] \in Saving, snap'[v].model = snap'[u].model, v # u
        PROVE  FALSE
    <3>1. snap[v].model = snap[u].model
      BY <1>1, <2>3 DEF Touches, Own
    <3>2. CASE v = t
      <4>1. pc[t] \notin Saving
        BY <2>2, <2>3, <3>1, <3>2
      <4>2. snap[t].model \in hurt'
        BY <1>4, <2>1, <2>3, <3>1, <3>2, <4>1 DEF Touches, Own
      <4> QED  BY <1>1, <3>1, <3>2, <4>2
    <3>3. CASE v # t
      BY <2>2, <2>3, <3>1, <3>3 DEF Touches, Own
    <3> QED  BY <3>2, <3>3
  <2>4. snap[u].model \in Builds
    BY <2>1, Kinds DEF CommandInv, Found
  <2>5. /\ dir'[tmp_path(u)] = dir[tmp_path(u)]
        /\ dir[tmp_path(u)] # None => data'[dir'[tmp_path(u)]] = data[dir[tmp_path(u)]]
    <3>1. CASE snap[u].model # snap[t].model
      BY <2>4, <3>1, OtherModels DEF tmp_path
    <3>2. CASE snap[u].model = snap[t].model
      <4>1. pc[t] \notin Saving
        BY <1>4, <2>2, <3>2
      <4>2. pc'[t] \notin Saving
        BY <1>1, <1>4, <2>1, <3>2, <4>1 DEF Touches, Own
      <4>3. ~Works(t)
        BY <4>1, <4>2 DEF Works, Saving
      <4>4. out[t] = None
        BY <4>1 DEF FileInv, Saving
      <4>5. tmp_path(u) \in Names
        BY <2>4, NamesDiffer DEF tmp_path
      <4> QED  BY <4>3, <4>4, <4>5 DEF Touches, Effect
    <3> QED  BY <3>1, <3>2
  <2> QED  BY <1>2, <2>1, <2>2, <2>3, <2>5
<1> QED  BY <1>3, <1>4

-----------------------------------------------------------------------------
(* The steps that leave the files alone.                                   *)

Quiet ==
  /\ UNCHANGED <<files, hurt>>
  /\ \A t \in Tuners :
       /\ out[t] # None => snap'[t] = snap[t]
       /\ pc'[t] \in Saving =>
            /\ pc[t] \in Saving /\ snap'[t] = snap[t] /\ past'[t] = past[t]
            /\ pc'[t] = pc[t] \/ (pc[t] = "write" /\ pc'[t] = "close") \/ pc'[t] = "copy"
       /\ pc[t] \in {"write", "close", "copying"} <=> pc'[t] \in {"write", "close", "copying"}
       /\ pc[t] = "copying" <=> pc'[t] = "copying"

LEMMA QuietKeeps ==
  ASSUME FileInv, NameInv, AloneInv, Quiet
  PROVE  /\ FileInv' /\ NameInv' /\ AloneInv'
         /\ \A m \in Builds : Stored(m)' = Stored(m)
<1>1. dir' = dir /\ data' = data /\ out' = out /\ source' = source /\ hurt' = hurt
  BY DEF Quiet, files
<1>2. FileInv'
  BY <1>1 DEF FileInv, Quiet
<1>3. NameInv'
  BY <1>1 DEF NameInv, Quiet
<1>4. AloneInv'
  <2> SUFFICES ASSUME NEW u \in Tuners, pc'[u] \in Saving, snap'[u].model \notin hurt'
               PROVE  /\ pc'[u] # "copying"
                      /\ \A v \in Tuners :
                           pc'[v] \in Saving /\ snap'[v].model = snap'[u].model => v = u
                      /\ pc'[u] \in {"write", "close"} => out'[u] = dir'[tmp_path(u)']
                      /\ pc'[u] = "rename" => /\ dir'[tmp_path(u)'] # None
                                              /\ data'[dir'[tmp_path(u)']] = Profile(u)'
    BY DEF AloneInv
  <2>1. /\ pc[u] \in Saving /\ snap'[u] = snap[u] /\ past'[u] = past[u]
        /\ pc'[u] = pc[u] \/ (pc[u] = "write" /\ pc'[u] = "close") \/ pc'[u] = "copy"
    BY DEF Quiet
  <2>2. tmp_path(u)' = tmp_path(u) /\ Profile(u)' = Profile(u)
    BY <2>1 DEF tmp_path, Profile
  <2>3. /\ pc[u] # "copying"
        /\ \A v \in Tuners : pc[v] \in Saving /\ snap[v].model = snap[u].model => v = u
        /\ pc[u] \in {"write", "close"} => out[u] = dir[tmp_path(u)]
        /\ pc[u] = "rename" => /\ dir[tmp_path(u)] # None
                               /\ data[dir[tmp_path(u)]] = Profile(u)
    BY <1>1, <2>1 DEF AloneInv
  <2>4. \A v \in Tuners : pc'[v] \in Saving /\ snap'[v].model = snap'[u].model => v = u
    BY <2>1, <2>3 DEF Quiet
  <2> QED  BY <1>1, <2>1, <2>2, <2>3, <2>4
<1>5. \A m \in Builds : Stored(m)' = Stored(m)
  BY <1>1 DEF Stored
<1> QED  BY <1>2, <1>3, <1>4, <1>5

LEMMA QuietMove ==
  ASSUME FileInv, CommandInv, NEW c \in Commands, NEW l, NEW s, NEW p,
         Becomes(c, l, s, p), UNCHANGED <<files, hurt>>,
         c \in Tuners => pc[c] \notin Saving /\ pc'[c] \notin Saving
  PROVE  Quiet
<1>1. \A t \in Tuners : t # c => pc'[t] = pc[t] /\ snap'[t] = snap[t] /\ past'[t] = past[t]
  BY Kinds DEF Becomes, CommandInv
<1>2. c \in Tuners => out[c] = None
  BY DEF FileInv, Saving
<1> QED  BY <1>1, <1>2 DEF Quiet, Saving

LEMMA EitherQuiet ==
  ASSUME Vars, FileInv, NEW c \in Commands, Either(c)
  PROVE  Quiet
<1>1. PICK l, s, p : Becomes(c, l, s, p)
  BY StartMeans, IdentifyMeans, HardwareMeans, LocateMeans, VersionMeans DEF Either
<1>2. UNCHANGED <<files, hurt>>
  BY DEF Either, Start, Identify, ProbeHardware, Locate, DetectVersion
<1>3. pc[c] \notin Saving
  BY DEF Either, Start, Identify, ProbeHardware, Locate, DetectVersion, At, Resting, Saving
<1>4. pc'[c] \notin Saving
  BY DEF Vars, CommandInv, Either, Start, Identify, ProbeHardware, Locate, DetectVersion, Goto,
         End, Saving
<1> QED  BY <1>1, <1>2, <1>3, <1>4, QuietMove DEF Vars

LEMMA RunnerQuiet ==
  ASSUME Vars, FileInv, NEW r \in Runners, LoadValid(r) \/ Kill(r)
  PROVE  Quiet
<1>1. r \in Commands /\ r \notin Tuners
  BY Kinds
<1>2. PICK l, s, p : Becomes(r, l, s, p)
  BY <1>1, LoadMeans, KillMeans
<1>3. UNCHANGED <<files, hurt>>
  BY <1>1 DEF LoadValid, Kill
<1> QED  BY <1>1, <1>2, <1>3, QuietMove DEF Vars

\* A tune's steps that do no more than go on, or give up.
LEMMA TuneQuiet ==
  ASSUME Vars, FileInv, NEW t \in Tuners, UNCHANGED <<files, hurt>>,
         \/ CheckWritable(t) \/ Conclude(t)
         \/ OpenTmp(t) /\ End(t, "failed")
         \/ WriteTmp(t) /\ Goto(t, "close") /\ UNCHANGED snap
         \/ Rename(t) /\ Goto(t, "copy") /\ UNCHANGED snap
  PROVE  Quiet
<1>0. t \in Commands /\ pc \in [Commands -> Steps \cup Resting]
  BY Kinds DEF Vars, CommandInv
<1>1. PICK l, s, p : Becomes(t, l, s, p)
  BY TuneMeans DEF Tune
<1>2. CASE CheckWritable(t) \/ Conclude(t) \/ (OpenTmp(t) /\ End(t, "failed"))
  <2>1. pc[t] \notin Saving
    BY <1>2 DEF CheckWritable, Conclude, OpenTmp, At, Saving
  <2>2. pc'[t] \notin Saving
    BY <1>0, <1>2 DEF CheckWritable, Conclude, Goto, End, Saving
  <2> QED  BY <1>0, <1>1, <2>1, <2>2, QuietMove DEF Vars
<1>3. CASE \/ WriteTmp(t) /\ Goto(t, "close") /\ UNCHANGED snap
           \/ Rename(t) /\ Goto(t, "copy") /\ UNCHANGED snap
  <2>1. \/ pc[t] = "write" /\ pc' = [pc EXCEPT ![t] = "close"]
        \/ pc[t] = "rename" /\ pc' = [pc EXCEPT ![t] = "copy"]
    BY <1>3 DEF WriteTmp, Rename, At, Goto
  <2>2. \/ pc[t] = "write" /\ pc'[t] = "close"
        \/ pc[t] = "rename" /\ pc'[t] = "copy"
    BY <1>0, <2>1
  <2>3. \A u \in Tuners : u # t => pc'[u] = pc[u]
    BY <1>0, <2>1, Kinds
  <2>4. snap' = snap /\ past' = past
    BY <1>3 DEF Goto
  <2> QED  BY <2>2, <2>3, <2>4 DEF Quiet, Saving
<1> QED  BY <1>2, <1>3

LEMMA AroundQuiet == Vars /\ (Replace \/ DiskChange \/ UNCHANGED vars) => Quiet
<1>1. ASSUME Vars, Replace PROVE Quiet
  <2>1. UNCHANGED <<files, hurt>> /\ pc' = pc /\ snap' = snap
    BY <1>1 DEF Replace
  <2>2. ASSUME NEW t \in Tuners, pc[t] \in Saving PROVE past'[t] = past[t]
    <3>1. past[t] \in Pasts
      BY <1>1 DEF Vars, CommandInv
    <3>2. past'[t] = [met |-> past[t].met, ran |-> past[t].ran]
      BY <1>1, <2>2 DEF Replace, Saving
    <3> QED  BY <3>1, <3>2 DEF Pasts
  <2> QED  BY <2>1, <2>2 DEF Quiet
<1> QED  BY <1>1 DEF DiskChange, vars, commands, Quiet, files

-----------------------------------------------------------------------------
(* The steps that touch the files, one by one.                             *)

\* What every document comes from.
Sources(t) ==
  \A i \in Inodes : data'[i].whole =>
    \/ \E j \in Inodes : data'[i] = data[j]
    \/ data'[i] = Profile(t) /\ pc[t] \in {"write", "close"}

Held == FileInv /\ NameInv /\ AloneInv

\* Unless the tune puts another file in the place of the stored profile, or
\* writes to it, what is stored stays.
LEMMA StoredStays ==
  ASSUME NEW t \in Tuners, FileInv, CommandInv, Effect(t), NEW m \in Builds,
         dir'[Final(m)] = dir[Final(m)],
         out[t] # None => out[t] # dir[Final(m)],
         out'[t] # None => out'[t] # dir'[Final(m)]
  PROVE  Stored(m)' = Stored(m)
<1>1. Final(m) \in Names
  BY NamesDiffer
<1> QED  BY <1>1 DEF Effect, Stored

LEMMA OwnMove ==
  ASSUME CommandInv, NEW t \in Tuners, NEW l, pc' = [pc EXCEPT ![t] = l],
         \/ End(t, l)
         \/ Goto(t, l) /\ UNCHANGED snap
  PROVE  /\ pc'[t] = l
         /\ \A u \in Tuners \ {t} : pc'[u] = pc[u] /\ snap'[u] = snap[u] /\ past'[u] = past[u]
         /\ Goto(t, l) /\ UNCHANGED snap => snap'[t] = snap[t] /\ past'[t] = past[t]
BY Kinds DEF CommandInv, End, Goto

LEMMA OpenTouches ==
  ASSUME Vars, Held, NEW t \in Tuners, OpenTmp(t), Goto(t, "write"), UNCHANGED snap,
         LET n == tmp_path(t)
         IN  Files([dir EXCEPT ![n] = Opened(n)], [out EXCEPT ![t] = Opened(n)], source,
                   [data EXCEPT ![Opened(n)] = Torn]),
         hurt' = IF \E u \in Tuners \ {t} : pc[u] \in Saving /\ snap[u].model = snap[t].model
                 THEN hurt \cup {snap[t].model} ELSE hurt
  PROVE  Touches(t) /\ Sources(t)
<1> DEFINE m == snap[t].model
           n == tmp_path(t)
<1>1. /\ pc[t] = "open" /\ pc' = [pc EXCEPT ![t] = "write"] /\ m \in Builds
      /\ n \in Names /\ Final(m) \in Names /\ Final(m) # n
  BY Kinds, NamesDiffer DEF OpenTmp, At, Goto, Vars, CommandInv, Found, tmp_path
<1>2. source = [source EXCEPT ![t] = None] /\ out[t] = None
  BY <1>1 DEF Held, FileInv
<1>3. Files([dir EXCEPT ![n] = Opened(n)], [out EXCEPT ![t] = Opened(n)],
            [source EXCEPT ![t] = None], [data EXCEPT ![Opened(n)] = Torn])
  BY <1>2
<1>4. /\ FileInv' /\ Effect(t)
      /\ out'[t] # None /\ dir' = [dir EXCEPT ![n] = out'[t]]
      /\ \A i \in Inodes : data'[i] \in {data[i], Torn}
  BY <1>1, <1>3, OpenEffect DEF Held, Vars, tmp_path
<1>5. /\ pc'[t] = "write"
      /\ \A u \in Tuners \ {t} : pc'[u] = pc[u] /\ snap'[u] = snap[u] /\ past'[u] = past[u]
      /\ snap'[t] = snap[t] /\ past'[t] = past[t]
  BY <1>1, OwnMove DEF Vars
<1>6. out'[t] = dir'[n] /\ dir'[Final(m)] = dir[Final(m)]
  BY <1>1, <1>4 DEF Held, FileInv
<1>7. out'[t] # dir'[Final(m)]
  <2>1. dir[Final(m)] # None => dir[Final(m)] # dir[n]
    BY <1>1 DEF Held, NameInv
  <2>2. dir'[n] # dir[n] => dir[Final(m)] # dir'[n]
    BY <1>1, <1>4, <1>6 DEF Effect, tmp_path
  <2> QED  BY <1>4, <1>6, <2>1, <2>2
<1>8. \A k \in Builds : k = m => Stored(k)' = Stored(k)
  BY <1>1, <1>2, <1>4, <1>6, <1>7, StoredStays DEF Held, Vars
<1>9. Own(t)
  BY <1>1, <1>5, <1>6, <1>8 DEF Own, tmp_path
<1>10. Sources(t)
  BY <1>4 DEF Sources, Torn
<1> QED  BY <1>4, <1>9, <1>10 DEF Touches

\* A tune of a model that is not hurt writes to no stored profile of it.
LEMMA NotTheStored ==
  ASSUME Vars, Held, NEW t \in Tuners, snap[t].model \notin hurt, out[t] # None
  PROVE  /\ snap[t].model \in Builds /\ pc[t] \in {"write", "close"}
         /\ out[t] = dir[tmp_path(t)] /\ out[t] # dir[Final(snap[t].model)]
<1>1. pc[t] \in {"write", "close", "copying"}
  BY DEF Held, FileInv
<1>2. snap[t].model \in Builds /\ pc[t] \in Saving
  BY <1>1, Kinds DEF Vars, CommandInv, Found, Saving
<1>3. pc[t] # "copying" /\ out[t] = dir[tmp_path(t)]
  BY <1>1, <1>2 DEF Held, AloneInv
<1>4. dir[tmp_path(t)] # dir[Final(snap[t].model)]
  BY <1>2, <1>3, NamesDiffer DEF Held, NameInv, tmp_path
<1> QED  BY <1>1, <1>2, <1>3, <1>4

\* The temporary file is written, or is not.
LEMMA WriteTouches ==
  ASSUME Vars, Held, NEW t \in Tuners, pc[t] \in {"write", "close"}, NEW w,
         w \in {Torn, Profile(t)},
         NEW l \in {"rename", "failed"},
         IF l = "rename" THEN Goto(t, l) /\ UNCHANGED snap ELSE End(t, l),
         Files(dir, [out EXCEPT ![t] = None], source, [data EXCEPT ![out[t]] = w]),
         hurt \subseteq hurt',
         l = "rename" /\ w = Torn => snap[t].model \in hurt'
  PROVE  Touches(t) /\ Sources(t)
<1> DEFINE m == snap[t].model
           contents == [data EXCEPT ![out[t]] = w]
<1>1. pc' = [pc EXCEPT ![t] = l] /\ ((Goto(t, l) /\ UNCHANGED snap) \/ End(t, l))
  BY DEF Goto, End
<1>2. source = [source EXCEPT ![t] = None] /\ out[t] \in Inodes
  BY DEF Held, FileInv
<1>3. /\ contents \in [Inodes -> Contents] /\ contents[out[t]] = w
      /\ \A i \in Inodes : i # out[t] => contents[i] = data[i]
  BY <1>2, ProfileIsDocument DEF Held, Vars, FileInv, Contents
<1>4. Files(dir, [out EXCEPT ![t] = None], [source EXCEPT ![t] = None], contents)
  BY <1>2
<1> HIDE DEF contents
<1>5. /\ FileInv' /\ Effect(t) /\ out'[t] = None /\ dir' = dir
      /\ \A i \in Inodes : data'[i] \in {contents[i], Torn}
      /\ \A n \in Names : dir'[n] \in Inodes => data'[dir'[n]] = contents[dir'[n]]
  <2>1. Closes(t, l, dir, contents)
    BY <1>1, <1>3, <1>4 DEF Closes
  <2> QED  BY <2>1, CloseEffect DEF Held, Vars
<1>6. /\ pc'[t] = l
      /\ \A u \in Tuners \ {t} : pc'[u] = pc[u] /\ snap'[u] = snap[u] /\ past'[u] = past[u]
      /\ l = "rename" => snap'[t] = snap[t] /\ past'[t] = past[t]
  BY <1>1, OwnMove DEF Vars
<1>7. ASSUME m \notin hurt'
      PROVE  /\ m \in Builds /\ tmp_path(t) \in Names
             /\ out[t] = dir[tmp_path(t)] /\ out[t] # dir[Final(m)]
  <2>1. m \notin hurt /\ out[t] # None
    BY <1>2, <1>7, Kinds
  <2> QED  BY <2>1, NotTheStored, NamesDiffer DEF tmp_path
<1>8. ASSUME NEW k \in Builds \ hurt', k = m
      PROVE  Stored(k)' = Stored(k)
  <2>1. dir'[Final(k)] = dir[Final(k)] /\ out[t] # dir[Final(k)]
    BY <1>5, <1>7, <1>8
  <2> QED  BY <1>5, <2>1, StoredStays DEF Held, Vars
<1>9. l = "rename" /\ m \notin hurt' =>
        dir'[tmp_path(t)] # None /\ data'[dir'[tmp_path(t)]] = Profile(t)
  BY <1>2, <1>3, <1>5, <1>7, Kinds
<1>10. Own(t)
  BY <1>5, <1>6, <1>8, <1>9 DEF Own, Saving
<1>11. Sources(t)
  BY <1>3, <1>5 DEF Sources, Torn
<1> QED  BY <1>5, <1>10, <1>11 DEF Touches

LEMMA RenameTouches ==
  ASSUME Vars, Held, NEW t \in Tuners, pc[t] = "rename", End(t, "saved"), hurt' = hurt,
         dir[tmp_path(t)] # None,
         Files([dir EXCEPT ![final_path(t)] = dir[tmp_path(t)], ![tmp_path(t)] = None],
               out, source, data)
  PROVE  Touches(t) /\ Sources(t)
<1>1. pc' = [pc EXCEPT ![t] = "saved"]
  BY DEF End
<1>2. /\ FileInv' /\ Effect(t)
      /\ dir'[final_path(t)] = dir[tmp_path(t)]
      /\ \A i \in Inodes : data'[i] \in {data[i], Torn}
      /\ data'[dir'[final_path(t)]] = data[dir[tmp_path(t)]]
  BY <1>1, RenameEffect DEF Held, Vars
<1>3. /\ pc'[t] = "saved"
      /\ \A u \in Tuners \ {t} : pc'[u] = pc[u] /\ snap'[u] = snap[u] /\ past'[u] = past[u]
  BY <1>1, OwnMove DEF Vars
<1>4. out'[t] = None
  BY <1>2, <1>3 DEF FileInv
<1>5. ASSUME NEW k \in Builds \ hurt', k = snap[t].model
      PROVE  Stored(k)' = Profile(t)
  <2>1. data[dir[tmp_path(t)]] = Profile(t)
    BY <1>5 DEF Held, AloneInv, Saving
  <2> QED  BY <1>2, <1>5, <2>1 DEF Stored, final_path
<1>6. Own(t)
  BY <1>3, <1>4, <1>5 DEF Own, Saving
<1>7. Sources(t)
  BY <1>2 DEF Sources, Torn
<1> QED  BY <1>2, <1>6, <1>7 DEF Touches

LEMMA CopyOpenTouches ==
  ASSUME Vars, Held, NEW t \in Tuners, pc[t] = "copy", Goto(t, "copying"), UNCHANGED snap,
         dir[tmp_path(t)] # None,
         LET n == final_path(t)
         IN  Files([dir EXCEPT ![n] = Opened(n)], [out EXCEPT ![t] = Opened(n)],
                   [source EXCEPT ![t] = dir[tmp_path(t)]], [data EXCEPT ![Opened(n)] = Torn]),
         hurt' = hurt \cup {snap[t].model}
  PROVE  Touches(t) /\ Sources(t)
<1> DEFINE n == final_path(t)
           s == dir[tmp_path(t)]
<1>1. /\ pc' = [pc EXCEPT ![t] = "copying"]
      /\ tmp_path(t) \in Names /\ snap[t].model \in Builds
  BY Kinds, NamesDiffer DEF Goto, Vars, CommandInv, Found, Saving, tmp_path
<1>2. s \in Inodes \cup {None} /\ s # None
  BY <1>1 DEF Held, FileInv
<1>3. Files([dir EXCEPT ![n] = Opened(n)], [out EXCEPT ![t] = Opened(n)],
            [source EXCEPT ![t] = s], [data EXCEPT ![Opened(n)] = Torn])
  OBVIOUS
<1> HIDE DEF s
<1>4. /\ FileInv' /\ Effect(t)
      /\ \A i \in Inodes : data'[i] \in {data[i], Torn}
  BY <1>1, <1>2, <1>3, OpenEffect DEF Held, Vars, final_path
<1>5. /\ pc'[t] = "copying"
      /\ \A u \in Tuners \ {t} : pc'[u] = pc[u] /\ snap'[u] = snap[u] /\ past'[u] = past[u]
      /\ snap'[t] = snap[t] /\ past'[t] = past[t]
  BY <1>1, OwnMove DEF Vars
<1>6. Own(t)
  BY <1>5 DEF Own, Saving
<1>7. Sources(t)
  BY <1>4 DEF Sources, Torn
<1> QED  BY <1>4, <1>6, <1>7 DEF Touches

\* A tune ends, and what it had open is closed.
LEMMA EndTouches ==
  ASSUME Vars, Held, NEW t \in Tuners, NEW l \in Resting, End(t, l), hurt' = hurt,
         NEW d, NEW contents, Closes(t, l, d, contents),
         \A i \in Inodes : contents[i].whole => \E j \in Inodes : contents[i] = data[j]
  PROVE  Touches(t) /\ Sources(t)
<1>1. /\ FileInv' /\ Effect(t) /\ out'[t] = None /\ dir' = d
      /\ \A i \in Inodes : data'[i] \in {contents[i], Torn}
  BY CloseEffect DEF Held, Vars
<1>2. /\ pc'[t] = l
      /\ \A u \in Tuners \ {t} : pc'[u] = pc[u] /\ snap'[u] = snap[u] /\ past'[u] = past[u]
  BY OwnMove DEF Vars, End
<1>3. l \notin Saving
  BY DEF Resting, Saving
<1>4. ASSUME NEW k \in Builds \ hurt', k = snap[t].model
      PROVE  Stored(k)' = Stored(k)
  <2>1. out[t] # None => out[t] # dir[Final(k)]
    BY <1>4, NotTheStored
  <2>2. d[Final(k)] = dir[Final(k)]
    BY NamesDiffer, <1>4 DEF Closes, Held, FileInv, tmp_path
  <2> QED  BY <1>1, <2>1, <2>2, StoredStays DEF Held, Vars
<1>5. Own(t)
  BY <1>1, <1>2, <1>3, <1>4 DEF Own
<1>6. Sources(t)
  BY <1>1 DEF Sources, Torn
<1> QED  BY <1>1, <1>5, <1>6 DEF Touches

\* The names after a copy was tried, and the files that hold something.
LEMMA RemovedCloses ==
  ASSUME Vars, Held, NEW t \in Tuners, pc[t] \in {"copy", "copying"}, NEW l \in Resting,
         Finish(t, l), NEW contents \in [Inodes -> Contents],
         \A i \in Inodes : i # out[t] => contents[i] = data[i],
         Files(Removed(dir, t), [out EXCEPT ![t] = None], [source EXCEPT ![t] = None],
               contents)
  PROVE  \E k \in Resting : End(t, k) /\ Closes(t, k, Removed(dir, t), contents)
<1> DEFINE k == IF disk.writable THEN l ELSE "aborted"
<1>1. k \in Resting /\ End(t, k)
  BY DEF Resting, Finish
<1> HIDE DEF k
<1>2. k \notin {"write", "close", "copying"} /\ pc' = [pc EXCEPT ![t] = k]
  BY <1>1 DEF Resting, End
<1>3. pc[t] \in Saving
  BY DEF Saving
<1>4. Closes(t, k, Removed(dir, t), contents)
  BY <1>2, <1>3 DEF Closes, Removed
<1> QED  BY <1>1, <1>4

LEMMA CopyFailsTouches ==
  ASSUME Vars, Held, NEW t \in Tuners, pc[t] = "copy", Finish(t, "failed"), hurt' = hurt,
         Files(Removed(dir, t), out, source, data)
  PROVE  Touches(t) /\ Sources(t)
<1>1. out = [out EXCEPT ![t] = None] /\ source = [source EXCEPT ![t] = None]
  BY DEF Held, FileInv
<1>2. data \in [Inodes -> Contents]
  BY DEF Held, FileInv
<1>3. Files(Removed(dir, t), [out EXCEPT ![t] = None], [source EXCEPT ![t] = None], data)
  BY <1>1
<1>4. PICK k \in Resting : End(t, k) /\ Closes(t, k, Removed(dir, t), data)
  BY <1>2, <1>3, RemovedCloses DEF Resting
<1> QED  BY <1>4, EndTouches

LEMMA CopyDataTouches ==
  ASSUME Vars, Held, NEW t \in Tuners, CopyData(t)
  PROVE  Touches(t) /\ Sources(t)
<1> DEFINE w == IF disk.full THEN Torn ELSE data[source[t]]
           contents == [data EXCEPT ![out[t]] = w]
           l == IF disk.full THEN "failed" ELSE "saved"
<1>1. pc[t] = "copying" /\ hurt' = hurt
  BY DEF CopyData, At
<1>2. out[t] \in Inodes /\ source[t] \in Inodes
  BY <1>1 DEF Held, FileInv
<1>3. w \in Contents /\ (w.whole => w = data[source[t]])
  BY <1>2 DEF Held, FileInv, Contents, Torn
<1>4. /\ contents \in [Inodes -> Contents]
      /\ \A i \in Inodes : i # out[t] => contents[i] = data[i]
      /\ \A i \in Inodes : contents[i].whole => \E j \in Inodes : contents[i] = data[j]
  BY <1>2, <1>3 DEF Held, FileInv
<1>5. Files(Removed(dir, t), [out EXCEPT ![t] = None], [source EXCEPT ![t] = None], contents)
  BY DEF CopyData
<1>6. l \in Resting /\ Finish(t, l)
  BY DEF CopyData, Resting
<1> HIDE DEF contents, l
<1>7. PICK k \in Resting : End(t, k) /\ Closes(t, k, Removed(dir, t), contents)
  BY <1>1, <1>4, <1>5, <1>6, RemovedCloses
<1> QED  BY <1>1, <1>4, <1>7, EndTouches

LEMMA KillTouches ==
  ASSUME Vars, Held, NEW t \in Tuners, Kill(t)
  PROVE  Touches(t) /\ Sources(t)
<1>1. PICK contents \in {data, [i \in Inodes |-> IF i = out[t] THEN Torn ELSE data[i]]} :
        Files(dir, [out EXCEPT ![t] = None], [source EXCEPT ![t] = None], contents)
  BY DEF Kill
<1>2. /\ contents \in [Inodes -> Contents]
      /\ \A i \in Inodes : i # out[t] => contents[i] = data[i]
      /\ \A i \in Inodes : contents[i] \in {data[i], Torn}
  BY DEF Held, FileInv, Contents
<1>3. End(t, "idle") /\ hurt' = hurt /\ "idle" \in Resting
  BY DEF Kill, Resting
<1>4. Closes(t, "idle", dir, contents)
  BY <1>1, <1>2, <1>3 DEF Closes, End
<1>5. \A i \in Inodes : contents[i].whole => \E j \in Inodes : contents[i] = data[j]
  BY <1>2 DEF Torn
<1> QED  BY <1>3, <1>4, <1>5, EndTouches

LEMMA TuneTouches ==
  ASSUME Vars, Held, NEW t \in Tuners, Tune(t)
  PROVE  Quiet \/ (Touches(t) /\ Sources(t))
<1>1. CASE CheckWritable(t) \/ Conclude(t)
  <2>1. UNCHANGED <<files, hurt>>
    BY <1>1 DEF CheckWritable, Conclude
  <2> QED  BY <1>1, <2>1, TuneQuiet DEF Held
<1>2. CASE OpenTmp(t)
  <2>1. CASE End(t, "failed") /\ UNCHANGED <<files, hurt>>
    BY <1>2, <2>1, TuneQuiet DEF Held
  <2>2. CASE ~(End(t, "failed") /\ UNCHANGED <<files, hurt>>)
    <3>1. /\ Goto(t, "write") /\ UNCHANGED snap
          /\ LET n == tmp_path(t)
             IN  Files([dir EXCEPT ![n] = Opened(n)], [out EXCEPT ![t] = Opened(n)], source,
                       [data EXCEPT ![Opened(n)] = Torn])
          /\ hurt' = IF \E u \in Tuners \ {t} :
                            pc[u] \in Saving /\ snap[u].model = snap[t].model
                     THEN hurt \cup {snap[t].model} ELSE hurt
      BY <1>2, <2>2 DEF OpenTmp
    <3> QED  BY <1>2, <3>1, OpenTouches
  <2> QED  BY <2>1, <2>2
<1>3. CASE WriteTmp(t)
  <2>0. pc[t] = "write" /\ hurt' = hurt
    BY <1>3 DEF WriteTmp, At
  <2>1. ASSUME NEW w \in Written(t), Goto(t, "rename"), UNCHANGED snap,
               Files(dir, [out EXCEPT ![t] = None], source, [data EXCEPT ![out[t]] = w])
        PROVE  Touches(t) /\ Sources(t)
    <3>1. w \in {Torn, Profile(t)} /\ (w = Torn => snap[t].model \in hurt')
      BY <2>0, <2>1, ProfileIsDocument DEF Written, Vars, Torn
    <3> QED  BY <2>0, <2>1, <3>1, WriteTouches
  <2>2. ASSUME End(t, "failed"),
               Files(dir, [out EXCEPT ![t] = None], source, [data EXCEPT ![out[t]] = Torn])
        PROVE  Touches(t) /\ Sources(t)
    BY <2>0, <2>2, WriteTouches
  <2>3. CASE Goto(t, "close") /\ UNCHANGED <<files, snap>>
    BY <1>3, <2>0, <2>3, TuneQuiet DEF Held
  <2> QED  BY <1>3, <2>1, <2>2, <2>3 DEF WriteTmp
<1>4. CASE CloseTmp(t)
  <2>1. /\ pc[t] = "close" /\ Goto(t, "rename") /\ UNCHANGED snap
        /\ hurt' = IF disk.full THEN hurt \cup {snap[t].model} ELSE hurt
    BY <1>4 DEF CloseTmp, At
  <2>2. PICK w \in IF disk.full THEN {Torn} ELSE Written(t) :
          Files(dir, [out EXCEPT ![t] = None], source, [data EXCEPT ![out[t]] = w])
    BY <1>4 DEF CloseTmp
  <2>3. w \in {Torn, Profile(t)} /\ (w = Torn => snap[t].model \in hurt')
    BY <2>1, <2>2, ProfileIsDocument DEF Written, Vars, Torn
  <2> QED  BY <2>1, <2>2, <2>3, WriteTouches
<1>5. CASE Rename(t)
  <2>1. pc[t] = "rename" /\ hurt' = hurt
    BY <1>5 DEF Rename, At
  <2> QED  BY <1>5, <2>1, RenameTouches, TuneQuiet DEF Rename, Held
<1>6. CASE CopyOpen(t)
  <2>1. pc[t] = "copy"
    BY <1>6 DEF CopyOpen, At
  <2> QED  BY <1>6, <2>1, CopyOpenTouches, CopyFailsTouches DEF CopyOpen
<1> QED  BY <1>1, <1>2, <1>3, <1>4, <1>5, <1>6, CopyDataTouches DEF Tune

-----------------------------------------------------------------------------
(* The invariant.                                                          *)

Inv == Vars /\ Held /\ DocumentInv

Commanded ==
  \/ \E c \in Commands : Either(c) \/ Kill(c)
  \/ \E t \in Tuners : Tune(t)
  \/ \E r \in Runners : LoadValid(r)

LEMMA StepKinds ==
  ASSUME Vars, Held, [Next]_vars
  PROVE  \/ Quiet
         \/ Commanded /\ \E t \in Tuners : Touches(t) /\ Sources(t)
<1>1. ASSUME NEW c \in Commands, Kill(c)
      PROVE  Quiet \/ \E t \in Tuners : Touches(t) /\ Sources(t)
  BY <1>1, KillTouches, RunnerQuiet DEF Commands, Held
<1>2. Commanded => Quiet \/ \E t \in Tuners : Touches(t) /\ Sources(t)
  BY <1>1, EitherQuiet, RunnerQuiet, TuneTouches DEF Commanded, Held
<1> QED  BY <1>2, AroundQuiet DEF Next, Commanded

LEMMA HeldInit == Init => Held
<1> SUFFICES ASSUME Init PROVE Held
  OBVIOUS
<1>1. \A t \in Tuners : pc[t] \in {"idle", "absent"} /\ out[t] = None /\ source[t] = None
  BY Kinds DEF Init
<1>2. \A n \in Names : dir[n] = None
  BY DEF Init
<1>3. FileInv
  BY <1>1 DEF Init, FileInv, Contents
<1> QED  BY <1>1, <1>2, <1>3 DEF Held, NameInv, AloneInv, Saving

LEMMA HeldNext == Vars /\ Held /\ [Next]_vars => Held'
<1> SUFFICES ASSUME Vars, Held, [Next]_vars PROVE Held'
  OBVIOUS
<1>1. ASSUME NEW t \in Tuners, Touches(t) PROVE Held'
  <2>1. FileInv'
    BY <1>1 DEF Touches
  <2>2. NameInv' /\ AloneInv'
    BY <1>1, TouchesKeepsNames, TouchesKeepsAlone DEF Held, Vars
  <2> QED  BY <2>1, <2>2 DEF Held
<1>2. CASE Quiet
  BY <1>2, QuietKeeps DEF Held
<1> QED  BY <1>1, <1>2, StepKinds

LEMMA DocumentNext == Inv /\ [Next]_vars => DocumentInv'
<1> SUFFICES ASSUME Inv, [Next]_vars, NEW i \in Inodes, data'[i].whole
             PROVE  Vouched(data[i])'
  BY DEF DocumentInv
<1>1. ASSUME NEW j \in Inodes, data'[i] = data[j], machine' = machine
      PROVE  Vouched(data[i])'
  <2>1. Vouched(data[j])
    BY <1>1 DEF Inv, DocumentInv
  <2> QED  BY <1>1, <2>1 DEF Vouched, Behind, Met, MetVersion
<1>2. ASSUME NEW t \in Tuners, data'[i] = Profile(t), pc[t] \in {"write", "close"},
             machine' = machine
      PROVE  Vouched(data[i])'
  <2>1. Knows(pc[t], snap[t], past[t]) /\ pc[t] \in Found /\ pc[t] \in Saving
    BY <1>2 DEF Inv, Vars, TuneInv, Found, Saving
  <2>2. Behind(snap[t], past[t]) /\ Met(snap[t], past[t]) /\ MetVersion(snap[t], past[t])
    BY <2>1 DEF Knows
  <2>3. data'[i].names = snap[t] /\ data'[i].past = past[t]
    BY <1>2, ProfileIsDocument DEF Inv, Vars
  <2> QED  BY <1>2, <2>2, <2>3 DEF Vouched, Behind, Met, MetVersion
<1>3. CASE Commanded /\ \E t \in Tuners : Touches(t) /\ Sources(t)
  <2>1. machine' = machine
    BY <1>3, MachineStays DEF Commanded, Inv, Vars
  <2> QED  BY <1>1, <1>2, <1>3, <2>1 DEF Sources
<1>4. CASE Quiet
  <2>1. data' = data
    BY <1>4 DEF Quiet, files
  <2>2. CASE Commanded \/ DiskChange \/ UNCHANGED vars
    <3>1. machine' = machine
      BY <2>2, MachineStays DEF Commanded, Inv, Vars, DiskChange, vars
    <3> QED  BY <1>1, <2>1, <3>1
  <2>3. CASE Replace
    <3>1. data[i] \in Documents /\ Vouched(data[i])
      BY <2>1, WholeDocument DEF Inv, Held, FileInv, DocumentInv
    <3>2. data[i].names \in Snapshots /\ data[i].past \in Pasts
      BY <3>1 DEF Documents
    <3> DEFINE names == data[i].names
               p == data[i].past
    <3>3. Behind(names, p)
      BY <3>1 DEF Vouched
    <3>4. \A f \in Searched :
            /\ names[f] # None => names[f] <= machine'[f]
            /\ \A m \in p.ran : m[f] <= machine'[f] /\ (names[f] # None => names[f] <= m[f])
      <4> HIDE DEF names, p
      <4>1. names \in Snapshots /\ p \in Pasts
        BY <3>2 DEF names, p
      <4> QED  BY <2>3, <3>3, <4>1, BehindStays DEF Behind, Inv, Vars
    <3>5. Met(names, p) /\ MetVersion(names, p)
      BY <3>1 DEF Vouched
    <3> QED  BY <2>1, <3>4, <3>5 DEF Vouched, Behind, Met, MetVersion
  <2> QED  BY <2>2, <2>3 DEF Next, Commanded
<1> QED  BY <1>3, <1>4, StepKinds DEF Inv

LEMMA InvInit == Init => Inv
<1>1. Init => DocumentInv
  BY DEF Init, DocumentInv, Torn
<1> QED  BY <1>1, VarsInit, HeldInit DEF Inv

LEMMA InvNext == Inv /\ [Next]_vars => Inv'
<1>1. Inv /\ [Next]_vars => Vars' /\ Held' /\ DocumentInv'
  BY VarsNext, HeldNext, DocumentNext DEF Inv
<1> QED  BY <1>1 DEF Inv

-----------------------------------------------------------------------------
(* What follows.                                                           *)

\* Every variable holds values of its kind, and a tune has files open in the
\* steps that write to them only.
THEOREM TypeCorrect == Spec => []TypeOK
<1>1. ASSUME Inv PROVE TypeOK
  <2>1. /\ events \in 0..Events
        /\ disk \in [full: BOOLEAN, writable: BOOLEAN]
        /\ machine \in [model: Builds, hardware: Builds, flags: Builds,
                        version: Builds, bench: BOOLEAN]
    BY <1>1, BuildsAreNumbers DEF Inv, Vars, MachineInv
  <2>2. /\ pc \in [Commands -> Steps \cup Resting]
        /\ snap \in [Commands -> Snapshots]
        /\ past \in [Tuners -> Pasts]
        /\ hurt \subseteq Builds
    BY <1>1 DEF Inv, Vars, CommandInv
  <2>3. /\ dir \in [Names -> Inodes \cup {None}]
        /\ data \in [Inodes -> Contents]
        /\ out \in [Tuners -> Inodes \cup {None}]
        /\ source \in [Tuners -> Inodes \cup {None}]
    BY <1>1 DEF Inv, Held, FileInv
  <2>4. ASSUME NEW t \in Tuners
        PROVE  /\ out[t] # None <=> pc[t] \in {"write", "close", "copying"}
               /\ source[t] # None <=> pc[t] = "copying"
               /\ pc[t] \in Saving => past[t].ran # {}
    BY <1>1 DEF Inv, Held, FileInv, Vars, TuneInv, Knows, Measured
  <2>5. \A c \in Commands : pc[c] \in Resting => snap[c] = Blank
    BY <1>1 DEF Inv, Vars, CommandInv, Found, Resting, Saving
  <2> QED  BY <2>1, <2>2, <2>3, <2>4, <2>5 DEF TypeOK
<1> QED  BY InvInit, InvNext, <1>1, PTL DEF Spec

\* The stored profile of a model is only replaced by the tune that succeeds,
\* wherever any of the commands is killed and whatever the disk does, unless
\* two tunes of the model saved at once, the disk was full when a buffered
\* document was closed, or the fallback copied over it.
THEOREM StoredProfileSurvives == Spec => OnlySuccessReplaces
<1>1. ASSUME Inv, [Next]_vars, NEW m \in Builds \ hurt', Stored(m)' # Stored(m)
      PROVE  \E t \in Tuners : /\ pc[t] # "saved" /\ pc'[t] = "saved"
                               /\ snap[t].model = m
                               /\ Stored(m)' = Profile(t)
  <2>1. ~Quiet
    BY <1>1, QuietKeeps DEF Inv, Held
  <2>2. PICK t \in Tuners : Touches(t)
    BY <1>1, <2>1, StepKinds DEF Inv
  <2>3. CASE m # snap[t].model
    <3>1. /\ dir'[Final(m)] = dir[Final(m)]
          /\ dir[Final(m)] # None => data'[dir'[Final(m)]] = data[dir[Final(m)]]
      BY <1>1, <2>2, <2>3, OtherModels DEF Inv, Held, Vars
    <3> QED  BY <1>1, <3>1 DEF Stored
  <2>4. CASE m = snap[t].model
    BY <1>1, <2>2, <2>4 DEF Touches, Own
  <2> QED  BY <2>3, <2>4
<1>2. ASSUME Inv, [Next]_vars
      PROVE  [\A m \in Builds \ hurt' :
                 Stored(m)' # Stored(m) =>
                   \E t \in Tuners : /\ pc[t] # "saved" /\ pc'[t] = "saved"
                                     /\ snap[t].model = m
                                     /\ Stored(m)' = Profile(t)]_vars
  BY <1>1, <1>2
<1> QED  BY InvInit, InvNext, <1>2, PTL DEF Spec, OnlySuccessReplaces

\* Only load_valid takes a command from "load" to its verdict.
LEMMA VerdictIsLoad ==
  ASSUME Vars, [Next]_vars, NEW r \in Runners,
         pc[r] = "load", pc'[r] \in {"accepted", "failed"}
  PROVE  LoadValid(r)
<1>1. r \in Commands /\ r \notin Tuners
  BY Kinds
<1>2. ASSUME NEW c \in Commands, c # r, NEW l, NEW s, NEW p, Becomes(c, l, s, p)
      PROVE  FALSE
  BY <1>1, <1>2 DEF Becomes, Vars, CommandInv
<1>3. ~Either(r) /\ ~Kill(r)
  BY <1>1 DEF Either, Start, Identify, ProbeHardware, Locate, DetectVersion, At, Resting, Kill,
              End, Vars, CommandInv
<1>4. ASSUME NEW c \in Commands, Either(c) \/ Kill(c) PROVE FALSE
  <2>1. \E l, s, p : Becomes(c, l, s, p)
    BY <1>4, StartMeans, IdentifyMeans, HardwareMeans, LocateMeans, VersionMeans, KillMeans
       DEF Either
  <2> QED  BY <1>2, <1>3, <1>4, <2>1
<1>5. ASSUME NEW t \in Tuners, Tune(t) PROVE FALSE
  BY <1>1, <1>2, <1>5, TuneMeans, Kinds
<1>6. ASSUME NEW s \in Runners, LoadValid(s) PROVE s = r
  BY <1>2, <1>6, LoadMeans, Kinds
<1>7. ~Replace /\ ~DiskChange /\ ~UNCHANGED vars
  BY DEF Replace, DiskChange, vars, commands
<1> QED  BY <1>4, <1>5, <1>6, <1>7 DEF Next

\* What load_valid reads is vouched for by the tune that wrote it.
LEMMA StoredIsVouched ==
  ASSUME Inv, NEW m \in Builds, Stored(m).whole
  PROVE  Stored(m) \in Documents /\ Vouched(Stored(m))
<1>1. Final(m) \in Names
  BY NamesDiffer
<1>2. dir[Final(m)] # None /\ Stored(m) = data[dir[Final(m)]]
  BY DEF Stored, Torn
<1>3. dir[Final(m)] \in Inodes
  BY <1>1, <1>2 DEF Inv, Held, FileInv
<1> QED  BY <1>2, <1>3, WholeDocument DEF Inv, Held, FileInv, DocumentInv

\* A run that accepts a profile uses what was measured on the model, hardware
\* and flags that it found, as far as they are still in place.
THEOREM AcceptedWasMeasured == Spec => MeasuredWhatItNames
<1>1. ASSUME Inv, [Next]_vars, NEW r \in Runners, Accepts(r),
             NEW f \in Searched, snap[r][f] = machine[f],
             NEW m \in Stored(snap[r].model).past.ran
      PROVE  m[f] = machine[f]
  <2> DEFINE d == Stored(snap[r].model)
  <2>1. pc[r] = "load" /\ pc'[r] = "accepted" /\ LoadValid(r)
    BY <1>1, VerdictIsLoad DEF Accepts, Inv
  <2>2. snap[r] \in Snapshots /\ snap[r].model \in Builds
    BY <1>1, <2>1, Kinds DEF Inv, Vars, CommandInv, Found
  <2>3. d.whole /\ Matches(d.names, snap[r])
    BY <1>1, <2>1, Kinds DEF LoadValid, End, Inv, Vars, CommandInv
  <2>4. d \in Documents /\ Vouched(d)
    BY <1>1, <2>2, <2>3, StoredIsVouched
  <2> HIDE DEF d
  <2>5. d.names \in Snapshots /\ d.past \in Pasts /\ m \in d.past.ran /\ m \in Machines
    BY <1>1, <2>4 DEF Documents, Pasts, d
  <2>6. d.names[f] = machine[f]
    BY <1>1, <2>2, <2>3, <2>5 DEF Matches, Searched, Snapshots
  <2>7. machine[f] \in Nat /\ machine[f] # None
    BY <1>1, MachineKinds, ProfilesAssumption DEF Inv, Vars
  <2>8. m[f] \in Nat
    BY <2>5, BuildsAreNumbers DEF Machines, Searched
  <2>9. machine[f] <= m[f] /\ m[f] <= machine[f]
    BY <2>4, <2>5, <2>6, <2>7 DEF Vouched, Behind
  <2> QED  BY <2>7, <2>8, <2>9
<1>2. ASSUME Inv, [Next]_vars
      PROVE  [\A r \in Runners : Accepts(r) =>
                 \A f \in {"model", "hardware", "flags"} :
                   snap[r][f] = machine[f] =>
                     \A m \in Stored(snap[r].model).past.ran : m[f] = machine[f]]_vars
  BY <1>1, <1>2 DEF Searched
<1> QED  BY InvInit, InvNext, <1>2, PTL DEF Spec, MeasuredWhatItNames

\* A run that refuses a whole profile, on the machine that is in place, has a
\* reason: the tune met another machine, or did not find out all about it.
THEOREM RefusedWithReason == Spec => RefusedForAReason
<1>1. ASSUME Inv, [Next]_vars, NEW r \in Runners, Rejects(r), snap[r] = Installed,
             Stored(snap[r].model).whole
      PROVE  LET stored == Stored(snap[r].model)
             IN  \/ stored.past.met # {Installed}
                 \/ stored.names.hardware = None
                 \/ stored.names.flags = None
                 \/ stored.names.version = Unknown
  <2> DEFINE d == Stored(snap[r].model)
  <2>1. pc[r] = "load" /\ pc'[r] = "failed" /\ LoadValid(r)
    BY <1>1, VerdictIsLoad DEF Rejects, Inv
  <2>2. snap[r].model \in Builds
    BY <1>1, <2>1, Kinds DEF Inv, Vars, CommandInv, Found
  <2>3. ~Matches(d.names, snap[r])
    BY <1>1, <2>1, Kinds DEF LoadValid, End, Inv, Vars, CommandInv
  <2>4. Vouched(d)
    BY <1>1, <2>2, StoredIsVouched
  <2> HIDE DEF d
  <2>5. ASSUME d.past.met = {Installed}, d.names.hardware # None, d.names.flags # None,
               d.names.version # Unknown
        PROVE  FALSE
    BY <1>1, <2>3, <2>4, <2>5 DEF Vouched, Met, MetVersion, Matches
  <2> QED  BY <2>5 DEF d
<1>2. ASSUME Inv, [Next]_vars
      PROVE  [\A r \in Runners :
                 LET stored == Stored(snap[r].model)
                 IN Rejects(r) /\ snap[r] = Installed /\ stored.whole =>
                      \/ stored.past.met # {Installed}
                      \/ stored.names.hardware = None
                      \/ stored.names.flags = None
                      \/ stored.names.version = Unknown]_vars
  BY <1>1, <1>2
<1> QED  BY InvInit, InvNext, <1>2, PTL DEF Spec, RefusedForAReason
================================================================================

--------------------------- MODULE BenchmarkRun_proofs ---------------------------
(***************************************************************************)
(* One benchmark run, proved for all amounts of VRAM, every exit code, and *)
(* every output of llama-bench that OutputAssumption admits, cut anywhere: *)
(* the measured peak is that of the run, and a usable result is measured.  *)
(***************************************************************************)
EXTENDS BenchmarkRun, SequenceTheorems, WellFoundedInduction, TLAPS

WorkerPlaces == {"none", "test", "probe", "peak", "publish", "sleep", "ended"}

\* The worker between two turns of its loop, or outside it.
Settled == worker \notin {"peak", "publish"}

\* The peak is the highest value found so far, except for the one the worker
\* has just found and not yet merged; a sample is there once it is published.
PeakInv ==
  /\ worker \in WorkerPlaces
  /\ peak \in Nat /\ used \in Nat /\ probed \subseteq Nat
  /\ haveSample \in BOOLEAN
  /\ \A y \in probed : y <= peak \/ (worker = "peak" /\ y = used)
  /\ probed = {} => peak = 0
  /\ worker = "peak" => used \in probed /\ (peak = 0 \/ peak \in probed)
  /\ worker = "publish" => peak \in probed
  /\ Settled => (haveSample <=> probed # {}) /\ (probed # {} => peak \in probed)

\* No worker before run_one starts one, and none after it joined it.
OwnerInv ==
  /\ gpu \in Levels \cup {Unavailable}
  /\ pc \in {"start", "classify", "done"} => worker = "none"
  /\ pc = "done" => bench.peak = Sampler!PeakUsedBytes

Inv == PeakInv /\ OwnerInv

\* A number of the set that no other exceeds is the one Highest chooses.
LEMMA HighestIsUnique ==
  ASSUME NEW S, S \subseteq Nat, NEW x \in S, \A y \in S : y <= x
  PROVE  Sampler!Highest(S) = x
<1> DEFINE h == Sampler!Highest(S)
<1>1. h \in S /\ \A y \in S : y <= h
  BY DEF Sampler!Highest
<1>2. h <= x /\ x <= h /\ h \in Nat /\ x \in Nat
  BY <1>1
<1> QED  BY <1>2

LEMMA InvInit == Init => Inv
<1> SUFFICES ASSUME Init PROVE Inv
  OBVIOUS
<1>1. /\ pc = "start" /\ haveSample = FALSE /\ peak = 0 /\ worker = "none" /\ used = 0
      /\ gpu \in Levels \cup {Unavailable} /\ probed = {}
  BY DEF Init, Sampler!Init
<1>2. PeakInv
  BY <1>1 DEF PeakInv, WorkerPlaces, Settled
<1> QED  BY <1>1, <1>2 DEF Inv, OwnerInv

\* Each step of the worker merges one probe into the peak.
LEMMA WorkerKeepsPeak == PeakInv /\ OwnerInv /\ Sampler!Worker => PeakInv'
<1> SUFFICES ASSUME PeakInv, OwnerInv, Sampler!Worker PROVE PeakInv'
  OBVIOUS
<1> USE BenchmarkAssumption DEF PeakInv, WorkerPlaces, Settled, Sampler!shared
<1>1. CASE Sampler!Test
  BY <1>1 DEF Sampler!Test
<1>2. CASE Sampler!Probe
  <2>1. CASE gpu = Unavailable
    BY <1>2, <2>1 DEF Sampler!Probe
  <2>2. CASE gpu # Unavailable
    <3>1. gpu \in Nat
      BY <2>2 DEF OwnerInv
    <3>2. /\ used' = gpu /\ probed' = probed \cup {gpu} /\ worker' = "peak"
          /\ peak' = peak /\ haveSample' = haveSample
      BY <1>2, <2>2 DEF Sampler!Probe
    <3>3. Settled /\ \A y \in probed : y <= peak
      BY <1>2 DEF Sampler!Probe
    <3>4. peak = 0 \/ peak \in probed'
      BY <3>2, <3>3
    <3> QED  BY <3>1, <3>2, <3>3, <3>4
  <2> QED  BY <2>1, <2>2
<1>3. CASE Sampler!RaisePeak
  <2>1. /\ used \in probed /\ probed' = probed /\ used' = used
        /\ worker' = "publish" /\ haveSample' = haveSample
        /\ \A y \in probed : y <= peak \/ y = used
    BY <1>3 DEF Sampler!RaisePeak
  <2>2. peak' = IF used > peak THEN used ELSE peak
    BY <1>3 DEF Sampler!RaisePeak
  <2>3. peak' \in probed
    BY <1>3, <2>1, <2>2 DEF Sampler!RaisePeak
  <2>4. \A y \in probed : y <= peak'
    BY <2>1, <2>2
  <2> QED  BY <2>1, <2>3, <2>4
<1>4. CASE Sampler!Publish
  BY <1>4 DEF Sampler!Publish
<1>5. CASE Sampler!Wake
  BY <1>5 DEF Sampler!Wake
<1> QED  BY <1>1, <1>2, <1>3, <1>4, <1>5 DEF Sampler!Worker

LEMMA InvNext == Inv /\ [Next]_vars => Inv'
<1> SUFFICES ASSUME Inv, [Next]_vars PROVE Inv'
  OBVIOUS
<1> USE DEF Inv
<1>1. CASE StartSampler
  BY <1>1 DEF StartSampler, Goto, Sampler!Start, PeakInv, OwnerInv, WorkerPlaces, Settled
<1>2. CASE Run
  BY <1>2 DEF Run, sampler, PeakInv, OwnerInv, Settled, Sampler!PeakUsedBytes
<1>3. CASE StopSampler
  BY <1>3 DEF StopSampler, Goto, Sampler!Stop, PeakInv, OwnerInv, Settled
<1>4. CASE JoinSampler
  BY <1>4 DEF JoinSampler, Goto, Sampler!Join, Sampler!shared, PeakInv, OwnerInv,
              WorkerPlaces, Settled
<1>5. CASE Classify
  <2>1. bench'.peak = Sampler!PeakUsedBytes /\ sampler' = sampler /\ pc' = "done"
    BY <1>5 DEF Classify, Goto
  <2>2. worker = "none"
    BY <1>5 DEF Classify, Goto, OwnerInv
  <2> QED  BY <2>1, <2>2 DEF sampler, PeakInv, OwnerInv, Settled, Sampler!PeakUsedBytes
<1>6. CASE Sample
  <2>1. PeakInv'
    BY <1>6, WorkerKeepsPeak DEF Sample
  <2>2. worker # "none" /\ gpu' = gpu /\ pc' = pc
    BY <1>6 DEF Sample, Sampler!Worker, Sampler!Test, Sampler!Probe, Sampler!RaisePeak,
                Sampler!Publish, Sampler!Wake
  <2> QED  BY <2>1, <2>2 DEF OwnerInv
<1>7. CASE OthersUseGpu
  BY <1>7 DEF OthersUseGpu, Sampler!GpuChanges, Sampler!shared, PeakInv, OwnerInv, Settled
<1>8. CASE UNCHANGED vars
  BY <1>8 DEF vars, sampler, PeakInv, OwnerInv, Settled, Sampler!PeakUsedBytes
<1> QED  BY <1>1, <1>2, <1>3, <1>4, <1>5, <1>6, <1>7, <1>8 DEF Next, Main, Over

\* The peak in the result of every benchmark run is the highest value the
\* sampler found during that run, and absent only if it found none: whatever
\* llama-bench prints, however it ends, and wherever the worker is when
\* run_one stops it (tuner.cpp:155-160, vram_sampler.cpp:22-61).
THEOREM PeakOfTheRun == Spec => []ResultHasThePeak
<1>1. Inv => ResultHasThePeak
  <2> SUFFICES ASSUME Inv, pc = "done"
               PROVE  bench.peak = IF probed = {} THEN NoSample ELSE Sampler!Highest(probed)
    BY DEF ResultHasThePeak
  <2>1. bench.peak = IF haveSample THEN peak ELSE NoSample
    BY DEF Inv, OwnerInv, Sampler!PeakUsedBytes
  <2>2. Settled /\ worker # "peak"
    BY DEF Inv, OwnerInv, Settled
  <2>3. CASE probed = {}
    BY <2>1, <2>2, <2>3 DEF Inv, PeakInv
  <2>4. CASE probed # {}
    <3>1. /\ haveSample /\ peak \in probed /\ probed \subseteq Nat
          /\ \A y \in probed : y <= peak
      BY <2>2, <2>4 DEF Inv, PeakInv
    <3>2. Sampler!Highest(probed) = peak
      BY <3>1, HighestIsUnique
    <3> QED  BY <2>1, <2>4, <3>1, <3>2
  <2> QED  BY <2>3, <2>4
<1> QED  BY InvInit, InvNext, <1>1, PTL DEF Spec

-----------------------------------------------------------------------------
\* The parser.  A set of natural numbers has a least element, which is the one
\* that First chooses, and if it is bounded, a greatest one.
LEMMA HasLeast ==
  ASSUME NEW S, S \subseteq Nat, S # {}
  PROVE  \E x \in S : \A y \in S : x <= y
<1>1. PICK x \in S : \A y \in S : ~(<<y, x>> \in OpToRel(<, Nat))
  BY NatLessThanWellFounded, WFMin
<1>2. \A y \in S : y \in Nat /\ x \in Nat /\ ~(y < x)
  BY <1>1 DEF OpToRel
<1>3. \A y \in S : x <= y
  BY <1>2
<1> QED  BY <1>3

LEMMA HasGreatest ==
  ASSUME NEW S, S \subseteq Nat, S # {}, NEW n \in Nat, \A y \in S : y <= n
  PROVE  \E x \in S : \A y \in S : y <= x
<1> DEFINE T == {k \in Nat : n - k \in S}
<1>1. PICK s : s \in S
  OBVIOUS
<1>2. n - s \in T
  BY <1>1
<1>3. PICK z \in T : \A y \in T : z <= y
  BY <1>2, HasLeast
<1>4. ASSUME NEW y \in S PROVE y <= n - z
  <2>1. n - y \in T
    OBVIOUS
  <2> QED  BY <2>1, <1>3
<1> QED  BY <1>3, <1>4

LEMMA FirstIsThere ==
  ASSUME NEW S, S \subseteq Nat
  PROVE  IF S = {} THEN First(S) = None ELSE First(S) \in S
<1>1. CASE S # {}
  <2>1. \E x \in S : \A y \in S : x <= y
    BY <1>1, HasLeast
  <2> QED  BY <1>1, <2>1 DEF First
<1> QED  BY <1>1 DEF First

\* The entries between two places of a text, if there is nothing but entries.
Between(text, i, j) ==
  /\ i \in Places(text, {"open"}) /\ j \in Places(text, {"close"})
  /\ (i + 1)..(j - 1) # {}
  /\ (i + 1)..(j - 1) \subseteq Places(text, {"entry"})

Reporting(text, i, j, t) == {k \in (i + 1)..(j - 1) : text[k].test = t}

\* Valid JSON is a whole array, and its figures come from its own entries.
LEMMA JsonIsWhole ==
  ASSUME NEW text \in Seq(Pieces), ParseJson(text).valid
  PROVE  \E i, j : /\ Between(text, i, j)
                   /\ ParseJson(text) = Parsed(TRUE, First(Reporting(text, i, j, "pp")),
                                                     First(Reporting(text, i, j, "tg")))
<1> DEFINE opens  == Places(text, {"open"})
           closes == Places(text, {"close"})
           start  == First(opens)
           last   == CHOOSE i \in closes : \A j \in closes : j <= i
           end    == IF closes = {} THEN None ELSE last
           inner  == (start + 1)..(end - 1)
           bad    == \/ start = None \/ end < start
                     \/ inner = {} \/ ~(inner \subseteq Places(text, {"entry"}))
           figures == Parsed(TRUE, First({i \in inner : text[i].test = "pp"}),
                                   First({i \in inner : text[i].test = "tg"}))
<1>1. ParseJson(text) = IF bad THEN Invalid ELSE figures
  BY DEF ParseJson
<1>2. ~bad /\ ParseJson(text) = figures
  BY <1>1 DEF Invalid, Parsed
<1>3. /\ opens \subseteq Nat /\ (\A i \in opens : i > 0)
      /\ closes \subseteq Nat /\ Len(text) \in Nat
      /\ \A j \in closes : j <= Len(text)
  BY DEF Places
<1> HIDE DEF opens, closes
<1>4. opens # {} /\ start \in opens
  <2>1. opens \subseteq Nat
    BY <1>3
  <2> QED  BY <1>2, <2>1, FirstIsThere
<1>5. closes # {}
  <2>1. start \in Nat /\ start > 0
    BY <1>3, <1>4
  <2> HIDE DEF start
  <2>2. closes = {} => end < start
    BY <2>1 DEF None
  <2> QED  BY <1>2, <2>2
<1>6. \E i \in closes : \A j \in closes : j <= i
  BY <1>3, <1>5, HasGreatest
<1>7. last \in closes
  BY <1>6
<1> HIDE DEF start, last
<1>8. Between(text, start, last)
  BY <1>2, <1>4, <1>5, <1>7 DEF Between, opens, closes
<1>9. figures = Parsed(TRUE, First(Reporting(text, start, last, "pp")),
                             First(Reporting(text, start, last, "tg")))
  BY <1>5 DEF Reporting
<1> QED  BY <1>2, <1>8, <1>9

\* A figure is a place of the text, or none.
LEMMA FiguresArePlaces ==
  ASSUME NEW text \in Seq(Pieces)
  PROVE  Parse(text) \in [valid: BOOLEAN, prompt: 0..Len(text), generation: 0..Len(text)]
<1> DEFINE Figures == [valid: BOOLEAN, prompt: 0..Len(text), generation: 0..Len(text)]
<1>1. Len(text) \in Nat
  OBVIOUS
<1>2. ASSUME NEW S, S \subseteq 1..Len(text) PROVE First(S) \in 0..Len(text)
  <2>1. S \subseteq Nat
    BY <1>2
  <2>2. First(S) = None \/ First(S) \in S
    BY <2>1, FirstIsThere
  <2>3. None \in 0..Len(text)
    BY <1>1 DEF None
  <2>4. S \subseteq 0..Len(text)
    BY <1>1, <1>2
  <2> QED  BY <2>2, <2>3, <2>4
<1>3. Invalid \in Figures
  BY <1>1 DEF Invalid, Parsed, None
<1>4. ASSUME NEW S, NEW T, S \subseteq 1..Len(text), T \subseteq 1..Len(text)
      PROVE  Parsed(TRUE, First(S), First(T)) \in Figures
  BY <1>2, <1>4 DEF Parsed
<1>5. ASSUME ParseJson(text).valid PROVE ParseJson(text) \in Figures
  <2>1. PICK i, j : /\ Between(text, i, j)
                    /\ ParseJson(text) = Parsed(TRUE, First(Reporting(text, i, j, "pp")),
                                                      First(Reporting(text, i, j, "tg")))
    BY <1>5, JsonIsWhole
  <2>2. \A t : Reporting(text, i, j, t) \subseteq 1..Len(text)
    BY <2>1 DEF Reporting, Between, Places
  <2> QED  BY <2>1, <2>2, <1>4
<1>6. ParseMarkdown(text) \in Figures
  <2> DEFINE header == First(Places(text, {"header"}))
             rows   == {i \in Places(text, {"row", "header"}) : i > header}
             pp     == {i \in rows : text[i].test \in {"pp", "both"}}
             tg     == {i \in rows : text[i].test = "tg"}
  <2>1. ParseMarkdown(text) = IF header = None \/ rows = {} THEN Invalid
                              ELSE Parsed(TRUE, First(pp), First(tg))
    BY DEF ParseMarkdown
  <2>2. pp \subseteq 1..Len(text) /\ tg \subseteq 1..Len(text)
    BY DEF Places
  <2> HIDE DEF pp, tg
  <2> QED  BY <2>1, <2>2, <1>3, <1>4
<1> QED  BY <1>5, <1>6 DEF Parse

\* Of what a script prints, only a whole array is valid JSON, and then each of
\* the figures comes from an entry of its own test.
LEMMA PrefixIsMeasured ==
  ASSUME NEW s \in Scripts, NEW n \in 0..Len(s.stdout),
         Open \in {s.stdout[i] : i \in DOMAIN s.stdout},
         Parse(SubSeq(s.stdout, 1, n)).valid
  PROVE  LET parsed == Parse(SubSeq(s.stdout, 1, n))
         IN /\ parsed.prompt # None /\ parsed.generation # None
            /\ s.stdout[parsed.prompt] = Entry("pp")
            /\ s.stdout[parsed.generation] = Entry("tg")
<1> DEFINE text == SubSeq(s.stdout, 1, n)
<1>1. s.stdout \in Seq(Pieces)
  BY OutputAssumption
<1>2. /\ text \in Seq(Pieces) /\ Len(text) = n /\ n \in Nat
      /\ \A i \in 1..n : text[i] = s.stdout[i] /\ i \in DOMAIN s.stdout
  BY <1>1, SubSeqProperties
<1> HIDE DEF text
<1>3. DOMAIN text = 1..n
  BY <1>2
<1>4. \A kinds : /\ Places(text, kinds) \subseteq Places(s.stdout, kinds)
                 /\ Places(text, kinds) \subseteq 1..n
  BY <1>2, <1>3 DEF Places
<1>5. Places(s.stdout, {"header"}) = {}
  <2>1. Places(s.stdout, {"open"}) # {}
    BY DEF Places, Open, Piece
  <2> QED  BY <2>1, OutputAssumption
<1>6. ~ParseMarkdown(text).valid
  <2>1. Places(text, {"header"}) = {}
    BY <1>4, <1>5
  <2>2. First(Places(text, {"header"})) = None
    BY <2>1 DEF First
  <2> QED  BY <2>2 DEF ParseMarkdown, Invalid, Parsed
<1>7. ParseJson(text).valid /\ Parse(text) = ParseJson(text)
  BY <1>6 DEF Parse, text
<1>8. PICK i, j : /\ Between(text, i, j)
                  /\ ParseJson(text) = Parsed(TRUE, First(Reporting(text, i, j, "pp")),
                                                    First(Reporting(text, i, j, "tg")))
  BY <1>2, <1>7, JsonIsWhole
<1>9. /\ i \in 1..n /\ j \in 1..n
      /\ (i + 1)..(j - 1) \subseteq 1..n
      /\ \A k \in (i + 1)..(j - 1) : /\ text[k] = s.stdout[k] /\ text[k].kind = "entry"
                                     /\ text[k] \in Pieces
  <2>1. i \in 1..n /\ j \in 1..n /\ (i + 1)..(j - 1) \subseteq Places(text, {"entry"})
    BY <1>4, <1>8 DEF Between
  <2>2. \A k \in Places(text, {"entry"}) : k \in 1..n /\ text[k].kind = "entry"
    BY <1>3 DEF Places
  <2>3. \A k \in 1..n : text[k] \in Pieces
    BY <1>2
  <2> QED  BY <1>2, <2>1, <2>2, <2>3
<1>10. \A t \in {"pp", "tg"} : \E k \in (i + 1)..(j - 1) : s.stdout[k] = Entry(t)
  <2>1. i \in Places(s.stdout, {"open"}) /\ j \in Places(s.stdout, {"close"})
    BY <1>4, <1>8 DEF Between
  <2>2. (i + 1)..(j - 1) # {} /\ (i + 1)..(j - 1) \subseteq Places(s.stdout, {"entry"})
    BY <1>4, <1>8 DEF Between
  <2> QED  BY <2>1, <2>2, OutputAssumption
<1>11. ASSUME NEW t \in {"pp", "tg"}
       PROVE  LET place == First(Reporting(text, i, j, t))
              IN place # None /\ s.stdout[place] = Entry(t)
  <2> DEFINE S == Reporting(text, i, j, t)
  <2>1. S \subseteq Nat /\ S \subseteq (i + 1)..(j - 1)
    BY <1>9 DEF Reporting
  <2>2. S # {}
    <3>1. PICK k \in (i + 1)..(j - 1) : s.stdout[k] = Entry(t)
      BY <1>10
    <3>2. text[k] = Entry(t) /\ Entry(t).test = t
      BY <1>9, <3>1 DEF Entry, Piece
    <3> QED  BY <3>2 DEF Reporting
  <2>3. First(S) \in S
    BY <2>1, <2>2, FirstIsThere
  <2>4. First(S) # None
    BY <1>9, <2>1, <2>3 DEF None
  <2>5. text[First(S)].test = t
    BY <2>3 DEF Reporting
  <2>6. ASSUME NEW p \in Pieces, p.kind = "entry", p.test = t PROVE p = Entry(t)
    <3>1. p = [kind |-> p.kind, test |-> p.test]
      BY DEF Pieces
    <3> QED  BY <2>6, <3>1 DEF Entry, Piece
  <2>7. s.stdout[First(S)] = Entry(t)
    BY <1>9, <2>1, <2>3, <2>5, <2>6
  <2> QED  BY <2>4, <2>7
<1>12. Parse(text) = Parsed(TRUE, First(Reporting(text, i, j, "pp")),
                                  First(Reporting(text, i, j, "tg")))
  BY <1>7, <1>8
<1>13. /\ Parse(text).prompt = First(Reporting(text, i, j, "pp"))
       /\ Parse(text).generation = First(Reporting(text, i, j, "tg"))
  BY <1>12 DEF Parsed
<1>14. /\ Parse(text).prompt # None /\ s.stdout[Parse(text).prompt] = Entry("pp")
       /\ Parse(text).generation # None /\ s.stdout[Parse(text).generation] = Entry("tg")
  BY <1>11, <1>13
<1> QED  BY <1>14 DEF text

-----------------------------------------------------------------------------
\* The run.  A child prints its script and no more, and what was captured is a
\* prefix of it; a run is Exited only if no limit expired.
RunInv ==
  /\ script \in Scripts
  /\ produced \in [Streams -> Nat] /\ captured \in [Streams -> Nat]
  /\ \A s \in Streams : captured[s] <= produced[s] /\ produced[s] <= Len(script[s])
  /\ Exited => /\ stage = "returned" /\ child.state = "ended" /\ ~expired
               /\ captured = produced \/ faulty

\* What run_one makes of the run.
Classified ==
  [ran      |-> result.outcome # "FailedToStart",
   timedOut |-> result.outcome = "TimedOut",
   crashed  |-> Crashed,
   oom      |-> LikelyOom,
   parsed   |-> ParsedOutput,
   peak     |-> Sampler!PeakUsedBytes]

BenchInv == bench = IF pc = "done" THEN Classified ELSE NotRun

LEMMA StreamsOfScript ==
  ASSUME NEW s \in Scripts
  PROVE  /\ s["stdout"] = s.stdout /\ s["stderr"] = s.stderr
         /\ \A t \in Streams : s[t] \in Seq(Pieces) /\ Len(s[t]) \in Nat
  BY OutputAssumption DEF Streams

LEMMA RunInvInit == Init => RunInv /\ BenchInv
<1> SUFFICES ASSUME Init PROVE RunInv /\ BenchInv
  OBVIOUS
<1>1. /\ script \in Scripts /\ pc = "start" /\ bench = NotRun
      /\ produced = [s \in Streams |-> 0] /\ captured = [s \in Streams |-> 0]
      /\ result.outcome = "FailedToStart"
  BY DEF Init, Runner!Init, Runner!NotStarted
<1>2. \A s \in Streams : 0 <= Len(script[s])
  BY <1>1, StreamsOfScript
<1> QED  BY <1>1, <1>2 DEF RunInv, BenchInv, Exited

LEMMA RunKeeps == RunInv /\ Run => RunInv'
<1> SUFFICES ASSUME RunInv, Run PROVE RunInv'
  OBVIOUS
<1> USE DEF RunInv, Exited
<1>1. /\ script' = script /\ Runner!Next
      /\ \A s \in Streams : produced'[s] <= Len(script[s])
  BY DEF Run
<1>2. CASE Runner!FailToStart \/ Runner!Launch
  BY <1>1, <1>2 DEF Runner!FailToStart, Runner!Launch
<1>3. ASSUME NEW s \in Streams, Runner!Produce(s) PROVE RunInv'
  <2>1. /\ produced' = [produced EXCEPT ![s] = produced[s] + 1] /\ ~Exited
        /\ captured' = captured /\ result' = result
    BY <1>3 DEF Runner!Produce
  <2>2. /\ produced' \in [Streams -> Nat]
        /\ \A t \in Streams : produced[t] <= produced'[t]
    BY <2>1
  <2>3. \A t \in Streams : captured[t] <= produced'[t]
    BY <2>2
  <2> QED  BY <1>1, <2>1, <2>2, <2>3
<1>4. ASSUME NEW s \in Streams, Runner!Capture(s) PROVE RunInv'
  <2>1. PICK n \in (captured[s] + 1)..produced[s] : captured' = [captured EXCEPT ![s] = n]
    BY <1>4 DEF Runner!Capture
  <2>2. produced' = produced /\ result' = result /\ ~Exited
    BY <1>4 DEF Runner!Capture
  <2> QED  BY <1>1, <2>1, <2>2
<1>5. CASE Runner!ChildEnds
  BY <1>1, <1>5 DEF Runner!ChildEnds
<1>6. CASE Runner!Expire \/ Runner!Mishap
  BY <1>1, <1>6 DEF Runner!Expire, Runner!Mishap
<1>7. CASE Runner!ReturnExited \/ Runner!ReturnTimedOut
  BY <1>1, <1>7 DEF Runner!ReturnExited, Runner!ReturnTimedOut
<1> QED  BY <1>1, <1>2, <1>3, <1>4, <1>5, <1>6, <1>7 DEF Runner!Next

LEMMA RunInvNext == Inv /\ RunInv /\ BenchInv /\ [Next]_vars => RunInv' /\ BenchInv'
<1> SUFFICES ASSUME Inv, RunInv, BenchInv, [Next]_vars PROVE RunInv' /\ BenchInv'
  OBVIOUS
<1>1. CASE Run
  BY <1>1, RunKeeps DEF Run, BenchInv
<1>2. ASSUME UNCHANGED <<script, run>> PROVE RunInv'
  BY <1>2 DEF run, RunInv, Exited
<1>3. ASSUME UNCHANGED <<script, run>>, sampler' = sampler \/ pc # "done",
             bench' = bench, (pc = "done") <=> (pc' = "done")
      PROVE  BenchInv'
  <2>1. CASE pc # "done"
    BY <1>3, <2>1 DEF BenchInv
  <2>2. CASE sampler' = sampler
    <3>1. Classified' = Classified
      BY <1>3, <2>2 DEF run, sampler, Classified, Crashed, LikelyOom, ParsedOutput, Exited,
                        Mentions, Text, Sampler!PeakUsedBytes
    <3> QED  BY <1>3, <3>1 DEF BenchInv
  <2> QED  BY <1>3, <2>1, <2>2
<1>4. CASE StartSampler \/ StopSampler \/ JoinSampler
  BY <1>2, <1>3, <1>4 DEF StartSampler, StopSampler, JoinSampler, Goto
<1>5. CASE Classify
  <2>1. UNCHANGED <<script, run, sampler>> /\ bench' = Classified /\ pc' = "done"
    BY <1>5 DEF Classify, Goto, Classified
  <2>2. Classified' = Classified
    BY <2>1 DEF run, sampler, Classified, Crashed, LikelyOom, ParsedOutput, Exited, Mentions,
                Text, Sampler!PeakUsedBytes
  <2> QED  BY <1>2, <2>1, <2>2 DEF BenchInv
<1>6. CASE Sample
  <2>1. pc # "done"
    BY <1>6 DEF Sample, Inv, OwnerInv, Sampler!Worker, Sampler!Test, Sampler!Probe,
                Sampler!RaisePeak, Sampler!Publish, Sampler!Wake
  <2> QED  BY <1>2, <1>3, <1>6, <2>1 DEF Sample
<1>7. CASE OthersUseGpu
  BY <1>2, <1>3, <1>7 DEF OthersUseGpu
<1>8. CASE UNCHANGED vars
  BY <1>2, <1>3, <1>8 DEF vars
<1> QED  BY <1>1, <1>4, <1>5, <1>6, <1>7, <1>8 DEF Next, Main, Over

\* A result that counts as usable is a measurement: the run ended by itself,
\* printed no out-of-memory error on either stream, and if llama-bench reports
\* JSON, both figures come from a whole array, each from an entry of its own
\* test; wherever the output is cut, whatever else is printed, and for every
\* exit code (tuner.cpp:172-189, benchmark_parser.cpp:75-134).
THEOREM UsableIsMeasured == Spec => []UsableWasMeasured
<1>1. RunInv /\ BenchInv => UsableWasMeasured
  <2> SUFFICES ASSUME RunInv, BenchInv, pc = "done", Usable
               PROVE  /\ ~expired
                      /\ faulty \/ \A t \in Streams : \A i \in 1..produced[t] :
                                     script[t][i] # OomText
                      /\ Open \in {script.stdout[i] : i \in DOMAIN script.stdout} =>
                           /\ bench.parsed.prompt # None /\ bench.parsed.generation # None
                           /\ script.stdout[bench.parsed.prompt] = Entry("pp")
                           /\ script.stdout[bench.parsed.generation] = Entry("tg")
    BY DEF UsableWasMeasured
  <2>1. ~LikelyOom /\ ParsedOutput.valid /\ bench.parsed = ParsedOutput
    BY DEF BenchInv, Classified, Usable
  <2>2. Exited /\ bench.parsed = Parse(Text("stdout")) /\ Parse(Text("stdout")).valid
    BY <2>1 DEF ParsedOutput, Invalid, Parsed
  <2>3. ~expired /\ (captured = produced \/ faulty)
    BY <2>2 DEF RunInv
  <2>4. ASSUME ~faulty, NEW t \in Streams, NEW i \in 1..produced[t]
        PROVE  script[t][i] # OomText
    <3>1. /\ script[t] \in Seq(Pieces) /\ captured[t] = produced[t]
          /\ produced[t] \in 0..Len(script[t]) /\ Len(script[t]) \in Nat
      BY <2>3, <2>4, StreamsOfScript DEF RunInv
    <3>2. Len(Text(t)) = produced[t] /\ Text(t)[i] = script[t][i] /\ Text(t) \in Seq(Pieces)
      BY <3>1, SubSeqProperties DEF Text
    <3>3. i \in DOMAIN Text(t)
      BY <3>2
    <3>4. ~Mentions(t, OomText)
      BY <2>1, <2>2 DEF LikelyOom
    <3> QED  BY <3>2, <3>3, <3>4 DEF Mentions
  <2>5. ASSUME Open \in {script.stdout[i] : i \in DOMAIN script.stdout}
        PROVE  /\ bench.parsed.prompt # None /\ bench.parsed.generation # None
               /\ script.stdout[bench.parsed.prompt] = Entry("pp")
               /\ script.stdout[bench.parsed.generation] = Entry("tg")
    <3>1. script \in Scripts /\ script["stdout"] = script.stdout
      BY StreamsOfScript DEF RunInv
    <3>2. captured["stdout"] \in 0..Len(script.stdout)
      BY <3>1, StreamsOfScript DEF RunInv, Streams
    <3>3. Text("stdout") = SubSeq(script.stdout, 1, captured["stdout"])
      BY <3>1 DEF Text
    <3> QED  BY <2>2, <2>5, <3>1, <3>2, <3>3, PrefixIsMeasured
  <2> QED  BY <2>3, <2>4, <2>5
<1> QED  BY InvInit, InvNext, RunInvInit, RunInvNext, <1>1, PTL DEF Spec

-----------------------------------------------------------------------------
LEMMA LongestIsLongest ==
  ASSUME NEW s \in Scripts
  PROVE  Len(s.stdout) <= Longest /\ Longest \in Nat
<1> DEFINE Lengths == {Len(x.stdout) : x \in Scripts}
<1>1. PICK longest \in Scripts : \A x \in Scripts : Len(x.stdout) <= Len(longest.stdout)
  BY OutputAssumption
<1>2. \E n \in Lengths : \A x \in Scripts : Len(x.stdout) <= n
  BY <1>1
<1>3. Longest \in Lengths /\ \A x \in Scripts : Len(x.stdout) <= Longest
  BY <1>2 DEF Longest
<1>4. \A x \in Scripts : Len(x.stdout) \in Nat
  BY OutputAssumption
<1> QED  BY <1>3, <1>4

\* The result before and after it is filled in.
LEMMA ClassifiedType ==
  ASSUME Inv, Sampler!TypeOK, RunInv, worker = "none"
  PROVE  Classified \in [ran: BOOLEAN, timedOut: BOOLEAN, crashed: BOOLEAN, oom: BOOLEAN,
                         parsed: [valid: BOOLEAN, prompt: 0..Longest,
                                  generation: 0..Longest],
                         peak: Levels \cup {NoSample}]
<1>1. LikelyOom \in BOOLEAN /\ Crashed \in BOOLEAN
  BY DEF LikelyOom, Crashed, Exited, IsCrash
<1>2. ParsedOutput \in [valid: BOOLEAN, prompt: 0..Longest, generation: 0..Longest]
  <2>1. script \in Scripts /\ script["stdout"] \in Seq(Pieces)
        /\ script["stdout"] = script.stdout
        /\ captured["stdout"] \in 0..Len(script["stdout"])
    BY StreamsOfScript DEF RunInv, Streams
  <2>2. Text("stdout") \in Seq(Pieces) /\ Len(Text("stdout")) = captured["stdout"]
    BY <2>1, SubSeqProperties DEF Text
  <2>3. captured["stdout"] <= Longest /\ captured["stdout"] \in Nat /\ Longest \in Nat
    BY <2>1, LongestIsLongest
  <2>4. Parse(Text("stdout")) \in
          [valid: BOOLEAN, prompt: 0..captured["stdout"], generation: 0..captured["stdout"]]
    BY <2>2, FiguresArePlaces
  <2>5. Parse(Text("stdout")) \in [valid: BOOLEAN, prompt: 0..Longest, generation: 0..Longest]
    <3>1. 0..captured["stdout"] \subseteq 0..Longest
      BY <2>3
    <3> QED  BY <2>4, <3>1
  <2>6. Invalid \in [valid: BOOLEAN, prompt: 0..Longest, generation: 0..Longest]
    BY <2>3 DEF Invalid, Parsed, None
  <2> QED  BY <2>5, <2>6 DEF ParsedOutput
<1>3. Sampler!PeakUsedBytes \in Levels \cup {NoSample}
  BY DEF Inv, PeakInv, Settled, Sampler!TypeOK, Sampler!PeakUsedBytes
<1> QED  BY <1>1, <1>2, <1>3 DEF Classified

LEMMA SamplerType == Sampler!TypeOK /\ [Next]_vars => Sampler!TypeOK'
<1> SUFFICES ASSUME Sampler!TypeOK, [Next]_vars PROVE Sampler!TypeOK'
  OBVIOUS
<1> USE DEF Sampler!TypeOK, Sampler!shared
<1>1. ASSUME sampler' = sampler PROVE Sampler!TypeOK'
  BY <1>1 DEF sampler
<1>2. CASE StartSampler
  BY <1>2 DEF StartSampler, Sampler!Start
<1>3. CASE StopSampler \/ JoinSampler
  BY <1>3 DEF StopSampler, JoinSampler, Sampler!Stop, Sampler!Join
<1>4. CASE Sample
  BY <1>4 DEF Sample, Sampler!Worker, Sampler!Test, Sampler!Probe, Sampler!RaisePeak,
              Sampler!Publish, Sampler!Wake
<1>5. CASE OthersUseGpu
  BY <1>5 DEF OthersUseGpu, Sampler!GpuChanges
<1>6. CASE Classify \/ Run \/ UNCHANGED vars
  BY <1>1, <1>6 DEF Classify, Run, vars
<1> QED  BY <1>2, <1>3, <1>4, <1>5, <1>6 DEF Next, Main, Over

\* Type correctness: of the variables of run_one, of what run_captured captured,
\* and of the sampler, which keeps nothing that no probe found.
THEOREM TypeCorrect == Spec => []TypeOK
<1> DEFINE Placed == pc \in {"start", "run", "join", "classify", "done"}
<1>1. Init => Sampler!TypeOK /\ Placed
  BY DEF Init, Sampler!Init, Sampler!TypeOK
<1>2. Placed /\ [Next]_vars => Placed'
  BY DEF vars, Next, Main, Over, StartSampler, Run, StopSampler, JoinSampler, Classify, Sample,
         OthersUseGpu, Goto
<1>3. Inv /\ Sampler!TypeOK /\ RunInv /\ BenchInv /\ Placed => TypeOK
  <2> SUFFICES ASSUME Inv, Sampler!TypeOK, RunInv, BenchInv, Placed PROVE TypeOK
    OBVIOUS
  <2>1. bench \in [ran : BOOLEAN, timedOut : BOOLEAN, crashed : BOOLEAN, oom : BOOLEAN,
                   parsed : [valid : BOOLEAN, prompt : 0..Longest,
                             generation : 0..Longest],
                   peak : Levels \cup {NoSample}]
    <3>1. CASE pc = "done"
      BY <3>1, ClassifiedType DEF BenchInv, Inv, OwnerInv
    <3>2. CASE pc # "done"
      <4>1. script \in Scripts
        BY DEF RunInv
      <4>2. Longest \in Nat
        BY <4>1, LongestIsLongest
      <4> QED  BY <3>2, <4>2 DEF BenchInv, NotRun, Invalid, Parsed, None
    <3> QED  BY <3>1, <3>2
  <2>2. \A s \in Streams : captured[s] \in 0..produced[s] /\ produced[s] \in 0..Len(script[s])
    BY StreamsOfScript DEF RunInv
  <2> QED  BY <2>1, <2>2 DEF TypeOK, RunInv
<1> HIDE DEF Placed
<1> QED
  BY InvInit, InvNext, RunInvInit, RunInvNext, SamplerType, <1>1, <1>2, <1>3, PTL DEF Spec
================================================================================

------------------------- MODULE StagedSearch_proofs -------------------------
(***************************************************************************)
(* Type correctness and the inductive invariant of StagedSearch, for every *)
(* machine, model and noise.                                               *)
(***************************************************************************)
EXTENDS StagedSearch, TLAPS

-----------------------------------------------------------------------------
(* Facts about the candidate generators and the score.                     *)

\* Quotients of integers by positive integers are integers.
LEMMA QuotientInt ==
  ASSUME NEW x \in Int, NEW y \in Int, y > 0
  PROVE  x \div y \in Int
OBVIOUS

\* Clamp maps every integer into the range of layer counts.
LEMMA ClampInRange ==
  ASSUME NEW v \in Int
  PROVE  Clamp(v) \in 0..Layers
BY ParameterAssumption DEF Clamp

\* Both offload sweeps walk over layer counts only.
LEMMA CandidatesInRange ==
  /\ GpuLayersCandidates \subseteq 0..Layers
  /\ NCpuMoeCandidates \subseteq 0..Layers
<1>1. \A pct \in {0, 25, 50, 75, 100} : Percentile(pct) \in 0..Layers
  BY ClampInRange, ParameterAssumption DEF Percentile
<1>2. FittingSeed \subseteq 0..Layers
  <2>1. CASE ModelSize > 0 /\ AvailableVram > Headroom
    <3>1. (AvailableVram - Headroom) * Layers \in Int
      BY ParameterAssumption
    <3>2. ((AvailableVram - Headroom) * Layers) \div ModelSize \in Int
      BY <2>1, <3>1, QuotientInt, ParameterAssumption
    <3>3. QED BY <2>1, <3>2, ClampInRange DEF FittingSeed
  <2>2. CASE ~(ModelSize > 0 /\ AvailableVram > Headroom)
    BY <2>2 DEF FittingSeed
  <2>3. QED BY <2>1, <2>2
<1>3. 0 \in 0..Layers /\ Layers \in 0..Layers
  BY ParameterAssumption
<1>4. QED
  BY <1>1, <1>2, <1>3 DEF GpuLayersCandidates, NCpuMoeCandidates, Percentiles

\* The configurations the offload stages try are well formed.
LEMMA ConfigsWellFormed ==
  /\ BaselineConfig \in Config
  /\ \A n \in 0..Layers : DenseConfig(n) \in Config /\ MoeConfig(n) \in Config
<1>1. BaselineConfig \in Config
  BY ParameterAssumption
     DEF BaselineConfig, Config, ThreadCandidates, Pairs, Unset
<1>2. ASSUME NEW n \in 0..Layers
      PROVE  DenseConfig(n) \in Config /\ MoeConfig(n) \in Config
  <2>1. DenseConfig(n) \in Config
    BY <1>1, ParameterAssumption DEF DenseConfig, BaselineConfig, Config
  <2>2. MoeConfig(n) \in Config
    <3>1. DenseConfig(Layers) \in Config
      BY <1>1, ParameterAssumption DEF DenseConfig, BaselineConfig, Config
    <3>2. QED BY <3>1 DEF MoeConfig, Config
  <2>3. QED BY <2>1, <2>2
<1>3. QED BY <1>1, <1>2

\* The pressure penalty is a whole number of hundredths, at most 30 points.
LEMMA PressureBound ==
  ASSUME NEW e \in Int, NEW a \in Nat
  PROVE  /\ Pressure(e, a) \in Int
         /\ 0 <= Pressure(e, a) /\ Pressure(e, a) <= 3000
<1>1. CASE a = 0 \/ 10 * e <= 9 * a
  BY <1>1 DEF Pressure
<1>2. CASE ~(a = 0 \/ 10 * e <= 9 * a)
  <2> DEFINE capped == IF 10 * e < 15 * a THEN 10 * e ELSE 15 * a
             over   == capped - 9 * a
             d      == 36 * a * a
             q      == (3000 * over * over) \div d
  <2>1. over \in Int /\ 0 <= over /\ over <= 6 * a
    BY <1>2
  <2>2. d \in Int /\ d > 0
    BY <1>2
  <2> HIDE DEF capped
  <2>3. over * over \in Int /\ 0 <= over * over /\ over * over <= d
    <3> DEFINE o == over
    <3>1. o \in Int /\ 0 <= o /\ o <= 6 * a
      BY <2>1
    <3> HIDE DEF o
    <3>2. o * o <= (6 * a) * o
      BY <3>1
    <3>3. (6 * a) * o <= (6 * a) * (6 * a)
      BY <3>1
    <3>4. o * o \in Int /\ 0 <= o * o
      BY <3>1
    <3>5. (6 * a) * (6 * a) = d
      OBVIOUS
    <3>6. (6 * a) * o \in Int /\ d \in Int
      BY <3>1, <2>2
    <3>7. o * o <= d
      BY <3>2, <3>3, <3>4, <3>5, <3>6
    <3>8. QED BY <3>4, <3>7 DEF o
  <2> DEFINE s == 3000 * over * over
  <2>4. s \in Int /\ 0 <= s /\ s <= 3000 * d
    BY <2>1, <2>2, <2>3
  <2> HIDE DEF over, d, s
  <2>5. s \div d \in Int /\ 0 <= s \div d /\ s \div d <= 3000
    BY <2>2, <2>4
  <2>6. Pressure(e, a) = s \div d
    BY <1>2 DEF Pressure, s, d, over, capped
  <2>7. QED BY <2>5, <2>6
<1>3. QED BY <1>1, <1>2

\* Scores are integers, and every usable run scores above every other.
LEMMA ScoreBound ==
  ASSUME NEW r \in Result
  PROVE  /\ Score(r) \in Int
         /\ Usable(r) => Score(r) > UnusableScore
         /\ ~Usable(r) => Score(r) = UnusableScore
<1>1. /\ r.run.gen \in Nat /\ r.run.prompt \in Nat
      /\ r.cfg.gpu_layers \in 0..Layers
  BY DEF Result, Outcome, Config
<1>2. LatencyCost(r.run.prompt) \in Int /\ LatencyCost(r.run.prompt) <= 1000
  <2>1. ASSUME NEW p \in Nat
        PROVE  LatencyCost(p) \in Int /\ LatencyCost(p) <= 1000
    <3>1. CASE p > 0
      <4>1. 1000 \div p \in Int /\ 1000 \div p <= 1000 BY <3>1
      <4>2. QED BY <3>1, <4>1 DEF LatencyCost
    <3>2. CASE ~(p > 0) BY <3>2 DEF LatencyCost
    <3>3. QED BY <3>1, <3>2
  <2>2. QED BY <1>1, <2>1
<1>3. GpuShare(r.cfg) \in Int
  <2>1. CASE Layers > 0
    <3>1. r.cfg.gpu_layers * ModelSize \in Int
      BY <1>1, ParameterAssumption
    <3>2. (r.cfg.gpu_layers * ModelSize) \div Layers \in Int
      BY <2>1, <3>1, QuotientInt, ParameterAssumption
    <3>3. QED BY <2>1, <3>2 DEF GpuShare
  <2>2. CASE ~(Layers > 0) BY <2>2 DEF GpuShare
  <2>3. QED BY <2>1, <2>2
<1>4. EstimatedRam(r.cfg) \in Int /\ EstimatedVram(r.cfg) \in Int
  BY <1>3, ParameterAssumption DEF EstimatedRam, EstimatedVram
<1>5. CASE Usable(r)
  <2> DEFINE g == r.run.gen
             p == r.run.prompt
             l == LatencyCost(r.run.prompt)
             x == Pressure(EstimatedRam(r.cfg), AvailableRam)
             y == Pressure(EstimatedVram(r.cfg), AvailableVram)
  <2>1. g \in Nat /\ p \in Nat /\ l \in Int /\ l <= 1000
    BY <1>1, <1>2
  <2>2. x \in Int /\ x <= 3000
    BY <1>4, PressureBound, ParameterAssumption
  <2>3. y \in Int /\ y <= 3000
    BY <1>4, PressureBound, ParameterAssumption
  <2>4. Score(r) = 200 * g + 10 * p - l - x - y
    BY <1>5 DEF Score
  <2> HIDE DEF g, p, l, x, y
  <2>5. QED BY <1>5, <2>1, <2>2, <2>3, <2>4 DEF UnusableScore
<1>6. CASE ~Usable(r)
  BY <1>6 DEF Score, UnusableScore
<1>7. QED BY <1>5, <1>6

-----------------------------------------------------------------------------
(* Facts about what the search makes of a run.                             *)

\* Whatever a run of a well-formed configuration yields is a result.
LEMMA RunsAreResults ==
  ASSUME world \in Worlds, NEW cfg \in Config, NEW r \in Runs(cfg)
  PROVE  /\ r \in Result
         /\ r.cfg = cfg
BY SearchAssumption DEF Runs, Result

\* The better of two results is one of them and scores at least as much.
LEMMA BetterIsMax ==
  ASSUME best \in Result, NEW r \in Result
  PROVE  /\ Better(r) \in {best, r}
         /\ Score(Better(r)) >= Score(best)
         /\ Score(Better(r)) >= Score(r)
BY ScoreBound DEF Better

\* A result that did not run is a well-formed, unusable one.
LEMMA NoResultOK == NoResult \in Result /\ ~Usable(NoResult)
BY ConfigsWellFormed DEF NoResult, Result, Outcome, Usable

\* The values of the offload axis stay in range where the stages move them.
LEMMA MidpointsInRange ==
  ASSUME TypeOK
  PROVE  /\ DenseRefinable => /\ DenseMidpoint \in 0..Layers
                              /\ lastGood < DenseMidpoint
                              /\ DenseMidpoint < bad
         /\ MoeRefinable   => /\ MoeMidpoint \in 0..Layers
                              /\ bad < MoeMidpoint
                              /\ MoeMidpoint < lastGood
BY ParameterAssumption
   DEF TypeOK, Axis, DenseRefinable, DenseMidpoint, MoeRefinable, MoeMidpoint

-----------------------------------------------------------------------------
(* Type correctness.                                                       *)

\* Recording a result preserves the type of the summary.
LEMMA KeepType ==
  ASSUME kept \in [score : Int, margin : BOOLEAN], NEW r \in Result, Keep(r)
  PROVE  kept' \in [score : Int, margin : BOOLEAN]
<1>1. CASE ~Usable(r)
  BY <1>1 DEF Keep
<1>2. CASE Usable(r)
  <2> DEFINE s == IF Score(r) > kept.score THEN Score(r) ELSE kept.score
             m == kept.margin \/ ~ExceedsHeadroom(r)
  <2>1. kept' = [score |-> s, margin |-> m]
    BY <1>2 DEF Keep
  <2>2. s \in Int
    BY ScoreBound
  <2>3. m \in BOOLEAN
    OBVIOUS
  <2> HIDE DEF s, m
  <2>4. QED BY <2>1, <2>2, <2>3
<1>3. QED BY <1>1, <1>2

\* Boundary and Promote preserve the types of the variables they set.
LEMMA VerdictTypes ==
  ASSUME TypeOK, NEW v \in 0..Layers, NEW r \in Result,
         Boundary(v) \/ Promote(v, r)
  PROVE  /\ best' \in Result
         /\ lastGood' \in Axis /\ bad' \in Axis /\ lowestFailed' \in Axis
         /\ lastGoodResult' \in Result
         /\ kept' \in [score : Int, margin : BOOLEAN]
<1>1. v \in Axis
  BY ParameterAssumption DEF Axis
<1>2. CASE Boundary(v)
  BY <1>1, <1>2 DEF Boundary, TypeOK
<1>3. CASE Promote(v, r)
  BY <1>1, <1>3, BetterIsMax, KeepType DEF Promote, TypeOK
<1>4. QED BY <1>2, <1>3

\* Judging a trial preserves the types of best and kept.
LEMMA TrialTypes ==
  ASSUME TypeOK, NEW cfg \in Config, Trial(cfg)
  PROVE  best' \in Result /\ kept' \in [score : Int, margin : BOOLEAN]
<1>1. world \in Worlds /\ best \in Result BY DEF TypeOK
<1>2. PICK r \in Runs(cfg) :
        \/ LooksLikeSpill(r, best) /\ UNCHANGED <<best, kept>>
        \/ ~LooksLikeSpill(r, best) /\ best' = Better(r) /\ Keep(r)
  BY DEF Trial
<1>3. r \in Result
  BY <1>1, RunsAreResults
<1>4. CASE UNCHANGED <<best, kept>>
  BY <1>4 DEF TypeOK
<1>5. CASE best' = Better(r) /\ Keep(r)
  BY <1>1, <1>3, <1>5, BetterIsMax, KeepType DEF TypeOK
<1>6. QED BY <1>2, <1>4, <1>5

\* A recheck moves the offload value of a well-formed configuration within
\* the range of layer counts.
LEMMA RecheckConfigOK ==
  ASSUME TypeOK, NEW v \in 0..Layers
  PROVE  RecheckConfig(v) \in Config
<1>1. best.cfg \in Config BY DEF TypeOK, Result
<1>2. QED BY <1>1 DEF RecheckConfig, Config

\* Every variable keeps its type through every stage of every search.
THEOREM TypeCorrect == Spec => []TypeOK
<1>1. Init => TypeOK
  BY ConfigsWellFormed, NoResultOK, ParameterAssumption
     DEF Init, TypeOK, Stages, AxisOf, Axis, UnusableScore, MaxRefinementProbes
<1>2. TypeOK /\ [Next]_vars => TypeOK'
  <2> SUFFICES ASSUME TypeOK, [Next]_vars PROVE TypeOK'
    OBVIOUS
  <2> USE DEF TypeOK
  <2>1. CASE Baseline
    <3>1. PICK r \in Runs(BaselineConfig) : best' = r /\ Keep(r)
      BY <2>1 DEF Baseline
    <3>2. r \in Result BY ConfigsWellFormed, RunsAreResults
    <3>3. kept' \in [score : Int, margin : BOOLEAN]
      BY <3>1, <3>2, KeepType
    <3>4. pc' \in Stages /\ todo' \subseteq AxisOf(pc')
      BY <2>1, CandidatesInRange DEF Baseline, AxisOf, Stages
    <3>5. QED BY <2>1, <3>1, <3>2, <3>3, <3>4 DEF Baseline, bracket
  <2>2. ASSUME NEW n \in todo, DenseProbe(n) PROVE TypeOK'
    <3>1. n \in 0..Layers BY <2>2 DEF DenseProbe, AxisOf
    <3>2. PICK r \in Runs(DenseConfig(n)) :
            \/ Boundary(n) \/ Promote(n, r)
            \/ UNCHANGED <<bracket, best, kept>>
      BY <2>2 DEF DenseProbe
    <3>3. r \in Result BY <3>1, ConfigsWellFormed, RunsAreResults
    <3>4. CASE Boundary(n) \/ Promote(n, r)
      BY <2>2, <3>1, <3>3, <3>4, VerdictTypes DEF DenseProbe
    <3>5. CASE UNCHANGED <<bracket, best, kept>>
      BY <2>2, <3>5 DEF DenseProbe, bracket
    <3>6. QED BY <3>2, <3>4, <3>5
  <2>3. ASSUME NEW n \in todo, DenseSkip(n) PROVE TypeOK'
    BY <2>3 DEF DenseSkip, bracket
  <2>4. ASSUME NEW n \in todo, MoeProbe(n) PROVE TypeOK'
    <3>1. n \in 0..Layers BY <2>4 DEF MoeProbe, AxisOf
    <3>2. PICK r \in Runs(MoeConfig(n)) :
            Boundary(n) \/ Promote(n, r) \/ Remember(n)
      BY <2>4 DEF MoeProbe
    <3>3. r \in Result BY <3>1, ConfigsWellFormed, RunsAreResults
    <3>4. CASE Boundary(n) \/ Promote(n, r)
      BY <2>4, <3>1, <3>3, <3>4, VerdictTypes DEF MoeProbe
    <3>5. CASE Remember(n)
      BY <2>4, <3>1, <3>5, ParameterAssumption DEF MoeProbe, Remember, Axis
    <3>6. QED BY <3>2, <3>4, <3>5
  <2>5. ASSUME NEW n \in todo, MoeSkip(n) PROVE TypeOK'
    BY <2>5 DEF MoeSkip, bracket
  <2>6. ASSUME NEW p \in todo, BatchProbe(p) PROVE TypeOK'
    <3>1. [base EXCEPT !.batch = p] \in Config
      BY <2>6 DEF BatchProbe, AxisOf, Config
    <3>2. QED BY <2>6, <3>1, TrialTypes DEF BatchProbe, bracket
  <2>7. ASSUME NEW t \in todo, ThreadProbe(t) PROVE TypeOK'
    <3>1. [base EXCEPT !.threads = t] \in Config
      BY <2>7 DEF ThreadProbe, AxisOf, Config
    <3>2. QED BY <2>7, <3>1, TrialTypes DEF ThreadProbe, bracket
  <2>8. ASSUME NEW t \in todo, ThreadSkip(t) PROVE TypeOK'
    BY <2>8 DEF ThreadSkip, bracket
  <2>9. ASSUME NEW v \in todo, Recheck(v) PROVE TypeOK'
    <3>1. RecheckConfig(v) \in Config
      BY <2>9, RecheckConfigOK DEF Recheck, AxisOf
    <3>2. PICK r \in Runs(RecheckConfig(v)) :
            \/ UNCHANGED <<best, kept>>
            \/ best' = (IF Usable(r) THEN Better(r) ELSE best) /\ Keep(r)
      BY <2>9 DEF Recheck
    <3>3. r \in Result BY <3>1, RunsAreResults
    <3>4. kept' \in [score : Int, margin : BOOLEAN]
      BY <3>2, <3>3, KeepType
    <3>5. best' \in Result
      BY <3>2, <3>3, BetterIsMax
    <3>6. QED BY <2>9, <3>4, <3>5 DEF Recheck, bracket
  <2>10. CASE DenseRefine
    <3>1. DenseRefinable /\ DenseMidpoint \in 0..Layers
      BY <2>10, MidpointsInRange DEF DenseRefine
    <3>2. PICK r \in Runs(DenseConfig(DenseMidpoint)) :
            Boundary(DenseMidpoint) \/ Promote(DenseMidpoint, r)
      BY <2>10 DEF DenseRefine
    <3>3. r \in Result BY <3>1, ConfigsWellFormed, RunsAreResults
    <3>4. probes' \in 0..MaxRefinementProbes
      BY <2>10, <3>1 DEF DenseRefine, DenseRefinable, MaxRefinementProbes
    <3>5. QED BY <2>10, <3>1, <3>2, <3>3, <3>4, VerdictTypes DEF DenseRefine
  <2>11. CASE DenseDone
    BY <2>11 DEF DenseDone, bracket, Stages, AxisOf
  <2>12. CASE MoeSwept
    BY <2>12 DEF MoeSwept, MoeFloor, Stages, AxisOf
  <2>13. CASE MoeRefine
    <3>1. MoeRefinable /\ MoeMidpoint \in 0..Layers
      BY <2>13, MidpointsInRange DEF MoeRefine
    <3>2. PICK r \in Runs(MoeConfig(MoeMidpoint)) :
            Boundary(MoeMidpoint) \/ Promote(MoeMidpoint, r)
      BY <2>13 DEF MoeRefine
    <3>3. r \in Result BY <3>1, ConfigsWellFormed, RunsAreResults
    <3>4. probes' \in 0..MaxRefinementProbes
      BY <2>13, <3>1 DEF MoeRefine, MoeRefinable, MaxRefinementProbes
    <3>5. QED BY <2>13, <3>1, <3>2, <3>3, <3>4, VerdictTypes DEF MoeRefine
  <2>14. CASE MoeDone
    BY <2>14 DEF MoeDone, bracket, Stages, AxisOf
  <2>15. CASE BatchStart
    <3>1. best.cfg \in Config /\ BatchCandidates(best.cfg) \subseteq Pairs
      BY DEF Result, BatchCandidates, AffordablePairs
    <3>2. QED
      BY <2>15, <3>1, NoResultOK, ParameterAssumption
         DEF BatchStart, LeaveOffload, Stages, AxisOf, Axis,
             MaxRefinementProbes
  <2>16. CASE ThreadStart
    BY <2>16 DEF ThreadStart, bracket, Stages, AxisOf, Result
  <2>17. CASE Publish
    <3>1. todo' \subseteq 0..Layers
      BY <2>17 DEF Publish, Neighbours
    <3>2. QED BY <2>17, <3>1 DEF Publish, bracket, Stages, AxisOf
  <2>18. CASE Finish
    BY <2>18 DEF Finish, bracket, Stages, AxisOf, Usable
  <2>19. CASE Unreadable
    BY <2>19 DEF Unreadable, bracket, Stages, AxisOf
  <2>20. CASE UNCHANGED vars
    BY <2>20 DEF vars, bracket
  <2>21. QED
    BY <2>20, <2>1, <2>2, <2>3, <2>4, <2>5, <2>6, <2>7, <2>8, <2>9, <2>10, <2>11,
       <2>12, <2>13, <2>14, <2>15, <2>16, <2>17, <2>18, <2>19
       DEF Next, Returned
<1>3. QED BY <1>1, <1>2, PTL DEF Spec

-----------------------------------------------------------------------------
(* The bracket of the offload stages.                                      *)

\* What the sweeps have not visited lies past the usable end: above it when
\* the dense stage climbs, below it when the expert-placement one descends.
BracketInv ==
  /\ pc = "baseline" => lastGood = -1 /\ bad = -1
  /\ pc = "dense" =>
       /\ \A n \in todo : lastGood < n
       /\ bad >= 0 => lastGood < bad
  /\ pc = "moe" /\ lastGood >= 0 =>
       /\ \A n \in todo : n < lastGood
       /\ bad >= 0 => bad < lastGood

LEMMA BracketInitial == Init => BracketInv
BY DEF Init, BracketInv

LEMMA BracketInductive ==
  ASSUME TypeOK, BracketInv, [Next]_vars
  PROVE  BracketInv'
<1> USE DEF BracketInv
<1>1. CASE Baseline
  BY <1>1, CandidatesInRange DEF Baseline, bracket
<1>2. ASSUME NEW n \in todo, DenseProbe(n) PROVE BracketInv'
  <2>1. /\ pc = "dense" /\ pc' = "dense" /\ todo' = todo \ {n}
        /\ n \in 0..Layers /\ lastGood < n
        /\ \A x \in todo' : x \in Int /\ n < x
        /\ bad >= 0 => n < bad
    BY <1>2 DEF DenseProbe, Least, BeyondOom, TypeOK, AxisOf, Axis
  <2>2. PICK r \in Runs(DenseConfig(n)) :
          \/ Boundary(n) \/ Promote(n, r)
          \/ UNCHANGED <<bracket, best, kept>>
    BY <1>2 DEF DenseProbe
  <2>3. CASE Boundary(n)
    BY <2>1, <2>3 DEF Boundary
  <2>4. CASE Promote(n, r)
    BY <2>1, <2>4 DEF Promote
  <2>5. CASE UNCHANGED <<bracket, best, kept>>
    BY <2>1, <2>5 DEF bracket
  <2>6. QED BY <2>2, <2>3, <2>4, <2>5
<1>3. ASSUME NEW n \in todo, MoeProbe(n) PROVE BracketInv'
  <2>1. /\ pc = "moe" /\ pc' = "moe" /\ todo' = todo \ {n}
        /\ n \in 0..Layers /\ (lastGood >= 0 => n < lastGood)
        /\ \A x \in todo' : x \in Int /\ x < n
        /\ bad >= 0 => bad < n
    BY <1>3 DEF MoeProbe, Greatest, BeyondFailure, TypeOK, AxisOf, Axis
  <2>2. PICK r \in Runs(MoeConfig(n)) :
          Boundary(n) \/ Promote(n, r) \/ Remember(n)
    BY <1>3 DEF MoeProbe
  <2>3. CASE Boundary(n)
    BY <2>1, <2>3 DEF Boundary
  <2>4. CASE Promote(n, r)
    BY <2>1, <2>4 DEF Promote
  <2>5. CASE Remember(n)
    BY <2>1, <2>5 DEF Remember
  <2>6. QED BY <2>2, <2>3, <2>4, <2>5
<1>4. ASSUME NEW n \in todo, DenseSkip(n) \/ MoeSkip(n) PROVE BracketInv'
  BY <1>4 DEF DenseSkip, MoeSkip, bracket
<1>5. CASE DenseRefine
  <2>1. /\ pc = "dense" /\ pc' = "dense" /\ todo' = {}
        /\ lastGood < DenseMidpoint /\ DenseMidpoint < bad
    BY <1>5, MidpointsInRange DEF DenseRefine
  <2>2. PICK r \in Runs(DenseConfig(DenseMidpoint)) :
          Boundary(DenseMidpoint) \/ Promote(DenseMidpoint, r)
    BY <1>5 DEF DenseRefine
  <2>3. CASE Boundary(DenseMidpoint)
    BY <2>1, <2>3 DEF Boundary
  <2>4. CASE Promote(DenseMidpoint, r)
    BY <2>1, <2>4 DEF Promote
  <2>5. QED BY <2>2, <2>3, <2>4
<1>6. ASSUME NEW n \in todo,
             BatchProbe(n) \/ ThreadProbe(n) \/ ThreadSkip(n) \/ Recheck(n)
      PROVE BracketInv'
  BY <1>6 DEF BatchProbe, ThreadProbe, ThreadSkip, Recheck
<1>7. CASE DenseDone \/ MoeSwept \/ MoeRefine \/ MoeDone
  BY <1>7 DEF DenseDone, MoeSwept, MoeRefine, MoeDone
<1>8. CASE Unreadable \/ BatchStart \/ ThreadStart \/ Publish \/ Finish
  BY <1>8 DEF Unreadable, BatchStart, ThreadStart, Publish, Finish
<1>9. CASE UNCHANGED vars
  BY <1>9 DEF vars
<1>10. QED
  BY <1>1, <1>2, <1>3, <1>4, <1>5, <1>6, <1>7, <1>8, <1>9 DEF Next, Returned

\* The usable end of the bracket never meets its failing end.
THEOREM BracketStaysOrdered == Spec => []BracketOrdered
<1>1. BracketInv => BracketOrdered
  BY DEF BracketInv, BracketOrdered
<1>2. QED
  BY <1>1, TypeCorrect, BracketInitial, BracketInductive, PTL DEF Spec

\* No step looks past a known failure, and every bisection step narrows the
\* interval strictly.
THEOREM BracketShrinks == Spec => BracketOnlyShrinks
<1> DEFINE Shrinks ==
      /\ pc = "dense" /\ bad >= 0 => bad' <= bad /\ lastGood' < bad
      /\ pc = "moe" /\ pc' = "moe" /\ bad >= 0 =>
           bad' >= bad /\ lastGood' \in {lastGood} \cup {n \in Axis : n > bad}
      /\ probes' > probes =>
           \/ bad' - lastGood' \in 1..(bad - lastGood - 1)
           \/ lastGood' - bad' \in 1..(lastGood - bad - 1)
<1>1. TypeOK /\ BracketInv /\ [Next]_vars => [Shrinks]_vars
  <2> SUFFICES ASSUME TypeOK, BracketInv, Next PROVE Shrinks
    OBVIOUS
  <2>0. bad \in Int /\ lastGood \in Int /\ probes \in Int
    BY DEF TypeOK, Axis
  <2>1. ASSUME NEW n \in todo, DenseProbe(n) PROVE Shrinks
    <3>1. pc = "dense" /\ probes' = probes /\ (bad >= 0 => n < bad)
      BY <2>0, <2>1 DEF DenseProbe, BeyondOom, TypeOK, AxisOf
    <3>2. \/ bad' = n /\ lastGood' = lastGood
          \/ bad' = bad /\ lastGood' = n
          \/ bad' = bad /\ lastGood' = lastGood
      BY <2>1 DEF DenseProbe, Boundary, Promote, bracket
    <3>3. n \in Int
      BY <2>1 DEF DenseProbe, TypeOK, AxisOf
    <3>4. QED BY <2>0, <3>1, <3>2, <3>3 DEF BracketInv
  <2>2. ASSUME NEW n \in todo, MoeProbe(n) PROVE Shrinks
    <3>1. pc = "moe" /\ probes' = probes /\ (bad >= 0 => bad < n)
      BY <2>0, <2>2 DEF MoeProbe, BeyondFailure, TypeOK, AxisOf
    <3>2. \/ bad' = n /\ lastGood' = lastGood
          \/ bad' = bad /\ lastGood' = n
          \/ bad' = bad /\ lastGood' = lastGood
      BY <2>2 DEF MoeProbe, Boundary, Promote, Remember
    <3>3. n \in Axis /\ n \in Int
      BY <2>2, ParameterAssumption DEF MoeProbe, TypeOK, AxisOf, Axis
    <3>4. QED BY <2>0, <3>1, <3>2, <3>3
  <2>3. CASE DenseRefine
    <3>1. /\ pc = "dense" /\ bad >= 0 /\ DenseMidpoint \in Int
          /\ lastGood < DenseMidpoint /\ DenseMidpoint < bad
      BY <2>3, MidpointsInRange DEF DenseRefine, DenseRefinable
    <3>2. \/ bad' = DenseMidpoint /\ lastGood' = lastGood
          \/ bad' = bad /\ lastGood' = DenseMidpoint
      BY <2>3 DEF DenseRefine, Boundary, Promote
    <3> HIDE DEF DenseMidpoint
    <3>3. QED BY <2>0, <3>1, <3>2
  <2>4. CASE MoeRefine
    <3>1. /\ pc = "moeRefine" /\ MoeMidpoint \in Int
          /\ bad < MoeMidpoint /\ MoeMidpoint < lastGood
      BY <2>4, MidpointsInRange DEF MoeRefine
    <3>2. \/ bad' = MoeMidpoint /\ lastGood' = lastGood
          \/ bad' = bad /\ lastGood' = MoeMidpoint
      BY <2>4 DEF MoeRefine, Boundary, Promote
    <3>3. QED BY <2>0, <3>1, <3>2
  <2>5. ASSUME NEW n \in todo,
               \/ DenseSkip(n) \/ MoeSkip(n) \/ BatchProbe(n)
               \/ ThreadProbe(n) \/ ThreadSkip(n) \/ Recheck(n)
        PROVE Shrinks
    BY <2>0, <2>5 DEF DenseSkip, MoeSkip, BatchProbe, ThreadProbe, ThreadSkip,
                      Recheck, bracket, BracketInv
  <2>6. CASE \/ Unreadable \/ Baseline \/ DenseDone \/ MoeDone
             \/ ThreadStart \/ Publish \/ Finish
    BY <2>0, <2>6 DEF Unreadable, Baseline, DenseDone, MoeDone, ThreadStart, Publish, Finish,
                      bracket, BracketInv
  <2>7. CASE MoeSwept
    BY <2>0, <2>7 DEF MoeSwept
  <2>8. CASE BatchStart
    BY <2>0, <2>8 DEF BatchStart, LeaveOffload, TypeOK
  <2>9. CASE Returned
    BY <2>0, <2>9 DEF Returned, vars, BracketInv
  <2>10. QED
    BY <2>1, <2>2, <2>3, <2>4, <2>5, <2>6, <2>7, <2>8, <2>9 DEF Next
<1>2. QED
  BY <1>1, TypeCorrect, BracketInitial, BracketInductive, PTL
     DEF Spec, BracketOnlyShrinks

-----------------------------------------------------------------------------
(* The best run and the verdict.                                           *)

\* best scores as much as the best accepted run, and no accepted run was
\* usable while best is not.
Top == /\ Score(best) = kept.score
       /\ Usable(best) \/ (kept.score = UnusableScore /\ ~kept.margin)

\* Stage 5 starts its probes from a usable best only, and whether best is
\* usable no longer changes after outcome.best was assigned.
Verdict ==
  /\ pc = "recheck" /\ todo # {} => Usable(best)
  /\ pc \in {"recheck", "done"} => (Usable(outcome.best) <=> Usable(best))
  /\ pc = "done" => (outcome.success <=> Usable(best))

\* Nothing is accepted before the baseline has run.
Fresh ==
  pc = "baseline" =>
    /\ kept = [score |-> UnusableScore, margin |-> FALSE]
    /\ best = NoResult
    /\ outcome = [best |-> NoResult, success |-> FALSE]

SearchInv ==
  /\ Fresh
  /\ Top
  /\ Verdict

\* Accepting a result, usable or not, keeps best on top.
LEMMA AcceptKeepsTop ==
  ASSUME TypeOK, Top, NEW r \in Result, best' = Better(r), Keep(r)
  PROVE  Top'
<1>1. /\ best \in Result /\ kept \in [score : Int, margin : BOOLEAN]
      /\ Score(best) \in Int /\ Score(r) \in Int
  BY ScoreBound DEF TypeOK
<1>2. CASE ~Usable(r)
  <2>1. Score(r) <= Score(best)
    BY <1>1, <1>2, ScoreBound
  <2>2. best' = best /\ kept' = kept
    BY <1>1, <1>2, <2>1 DEF Better, Keep
  <2>3. QED BY <2>2 DEF Top
<1>3. CASE Usable(r) /\ Score(r) > Score(best)
  <2>1. best' = r /\ kept'.score = Score(r)
    BY <1>1, <1>3 DEF Better, Keep, Top
  <2>2. QED BY <1>3, <2>1 DEF Top
<1>4. CASE Usable(r) /\ ~(Score(r) > Score(best))
  <2>1. best' = best /\ kept'.score = kept.score
    BY <1>1, <1>4 DEF Better, Keep, Top
  <2>2. Usable(best)
    BY <1>1, <1>4, ScoreBound
  <2>3. QED BY <2>1, <2>2 DEF Top
<1>5. QED BY <1>2, <1>3, <1>4

\* Whatever an offload stage makes of a run keeps best on top.
LEMMA StageKeepsTop ==
  ASSUME TypeOK, Top, NEW v, NEW r \in Result,
         \/ Boundary(v) \/ Promote(v, r) \/ Remember(v)
         \/ UNCHANGED <<best, kept>>
  PROVE  Top'
<1>1. CASE Promote(v, r)
  BY <1>1, AcceptKeepsTop DEF Promote
<1>2. CASE ~Promote(v, r)
  BY <1>2 DEF Boundary, Remember, Top
<1>3. QED BY <1>1, <1>2

\* Every step keeps best on top.
LEMMA TopInductive ==
  ASSUME TypeOK, Fresh, Top, [Next]_vars
  PROVE  Top'
<1>0. world \in Worlds /\ todo \subseteq AxisOf(pc) /\ base \in Config
  BY DEF TypeOK
<1>1. CASE Baseline
  <2>1. PICK r \in Runs(BaselineConfig) : best' = r /\ Keep(r)
    BY <1>1 DEF Baseline
  <2>2. r \in Result
    BY <1>0, ConfigsWellFormed, RunsAreResults
  <2>3. kept = [score |-> UnusableScore, margin |-> FALSE]
    BY <1>1 DEF Baseline, Fresh
  <2>4. CASE Usable(r)
    <3>1. Score(r) > UnusableScore
      BY <2>2, <2>4, ScoreBound
    <3>2. kept'.score = Score(r)
      BY <2>1, <2>3, <2>4, <3>1 DEF Keep
    <3>3. QED BY <2>1, <2>4, <3>2 DEF Top
  <2>5. CASE ~Usable(r)
    <3>1. kept' = kept /\ Score(r) = UnusableScore
      BY <2>1, <2>2, <2>5, ScoreBound DEF Keep
    <3>2. QED BY <2>1, <2>3, <3>1 DEF Top
  <2>6. QED BY <2>4, <2>5
<1>2. ASSUME NEW n \in todo, DenseProbe(n) PROVE Top'
  <2>1. PICK r \in Runs(DenseConfig(n)) :
          \/ Boundary(n) \/ Promote(n, r) \/ UNCHANGED <<best, kept>>
    BY <1>2 DEF DenseProbe
  <2>2. r \in Result
    BY <1>0, <1>2, ConfigsWellFormed, RunsAreResults DEF DenseProbe, AxisOf
  <2>3. QED BY <2>1, <2>2, StageKeepsTop
<1>3. ASSUME NEW n \in todo, MoeProbe(n) PROVE Top'
  <2>1. PICK r \in Runs(MoeConfig(n)) :
          \/ Boundary(n) \/ Promote(n, r) \/ Remember(n)
    BY <1>3 DEF MoeProbe
  <2>2. r \in Result
    BY <1>0, <1>3, ConfigsWellFormed, RunsAreResults DEF MoeProbe, AxisOf
  <2>3. QED BY <2>1, <2>2, StageKeepsTop
<1>4. CASE DenseRefine
  <2>1. DenseMidpoint \in 0..Layers
    BY <1>4, MidpointsInRange DEF DenseRefine
  <2>2. PICK r \in Runs(DenseConfig(DenseMidpoint)) :
          Boundary(DenseMidpoint) \/ Promote(DenseMidpoint, r)
    BY <1>4 DEF DenseRefine
  <2>3. r \in Result
    BY <1>0, <2>1, ConfigsWellFormed, RunsAreResults
  <2>4. QED BY <2>2, <2>3, StageKeepsTop
<1>5. CASE MoeRefine
  <2>1. MoeMidpoint \in 0..Layers
    BY <1>5, MidpointsInRange DEF MoeRefine
  <2>2. PICK r \in Runs(MoeConfig(MoeMidpoint)) :
          Boundary(MoeMidpoint) \/ Promote(MoeMidpoint, r)
    BY <1>5 DEF MoeRefine
  <2>3. r \in Result
    BY <1>0, <2>1, ConfigsWellFormed, RunsAreResults
  <2>4. QED BY <2>2, <2>3, StageKeepsTop
<1>6. ASSUME NEW cfg \in Config, Trial(cfg) PROVE Top'
  <2>1. PICK r \in Runs(cfg) :
          \/ UNCHANGED <<best, kept>>
          \/ best' = Better(r) /\ Keep(r)
    BY <1>6 DEF Trial
  <2>2. r \in Result
    BY <1>0, RunsAreResults
  <2>3. CASE UNCHANGED <<best, kept>>
    BY <2>3 DEF Top
  <2>4. QED BY <2>1, <2>2, <2>3, AcceptKeepsTop
<1>7. ASSUME NEW p \in todo, BatchProbe(p) PROVE Top'
  <2>1. [base EXCEPT !.batch = p] \in Config
    BY <1>0, <1>7 DEF BatchProbe, AxisOf, Config
  <2>2. QED BY <1>6, <1>7, <2>1 DEF BatchProbe
<1>8. ASSUME NEW t \in todo, ThreadProbe(t) PROVE Top'
  <2>1. [base EXCEPT !.threads = t] \in Config
    BY <1>0, <1>8 DEF ThreadProbe, AxisOf, Config
  <2>2. QED BY <1>6, <1>8, <2>1 DEF ThreadProbe
<1>9. ASSUME NEW v \in todo, Recheck(v) PROVE Top'
  <2>1. PICK r \in Runs(RecheckConfig(v)) :
          \/ UNCHANGED <<best, kept>>
          \/ best' = (IF Usable(r) THEN Better(r) ELSE best) /\ Keep(r)
    BY <1>9 DEF Recheck
  <2>2. r \in Result
    BY <1>0, <1>9, RecheckConfigOK, RunsAreResults DEF Recheck, AxisOf
  <2>3. CASE Usable(r) /\ best' = Better(r) /\ Keep(r)
    BY <2>2, <2>3, AcceptKeepsTop
  <2>4. CASE UNCHANGED best /\ (UNCHANGED kept \/ (~Usable(r) /\ Keep(r)))
    BY <2>4 DEF Top, Keep
  <2>5. QED BY <2>1, <2>3, <2>4
<1>10. ASSUME UNCHANGED <<best, kept>> PROVE Top'
  BY <1>10 DEF Top
<1>11. ASSUME NEW v \in todo, DenseSkip(v) \/ MoeSkip(v) \/ ThreadSkip(v)
       PROVE Top'
  BY <1>10, <1>11 DEF DenseSkip, MoeSkip, ThreadSkip
<1>12. CASE \/ Unreadable \/ DenseDone \/ MoeSwept \/ MoeDone \/ BatchStart
            \/ ThreadStart \/ Publish \/ Finish \/ UNCHANGED vars
  BY <1>10, <1>12 DEF Unreadable, DenseDone, MoeSwept, MoeDone, BatchStart, ThreadStart,
                      Publish, Finish, vars
<1>13. QED
  BY <1>1, <1>2, <1>3, <1>4, <1>5, <1>7, <1>8, <1>9, <1>11, <1>12
     DEF Next, Returned

\* Every step keeps the verdict in agreement with best.
LEMMA VerdictInductive ==
  ASSUME TypeOK, Fresh, Verdict, [Next]_vars
  PROVE  Verdict'
<1>1. CASE Publish
  <2>1. /\ pc' = "recheck" /\ best' = best /\ outcome'.best = best
        /\ todo' # {} => Usable(best)
    BY <1>1 DEF Publish, Recheckable, TypeOK
  <2>2. QED BY <2>1 DEF Verdict
<1>2. ASSUME NEW v \in todo, Recheck(v) PROVE Verdict'
  <2>1. /\ pc = "recheck" /\ pc' = "recheck" /\ outcome' = outcome
        /\ Usable(best)
    BY <1>2 DEF Recheck, Verdict
  <2>2. best' = best \/ Usable(best')
    BY <1>2 DEF Recheck, Better
  <2>3. QED BY <2>1, <2>2 DEF Verdict
<1>3. CASE Finish
  <2>1. /\ pc' = "done" /\ best' = best /\ outcome'.best = outcome.best
        /\ outcome'.success = Usable(best)
        /\ Usable(outcome.best) <=> Usable(best)
    BY <1>3 DEF Finish, Verdict, TypeOK
  <2>2. QED BY <2>1 DEF Verdict
<1>4. CASE UNCHANGED vars
  BY <1>4 DEF vars, Verdict
<1>5. CASE pc' \notin {"recheck", "done"}
  BY <1>5 DEF Verdict
<1>6. ASSUME NEW v \in todo,
             \/ DenseProbe(v) \/ DenseSkip(v) \/ MoeProbe(v) \/ MoeSkip(v)
             \/ BatchProbe(v) \/ ThreadProbe(v) \/ ThreadSkip(v)
      PROVE pc' \notin {"recheck", "done"}
  BY <1>6 DEF DenseProbe, DenseSkip, MoeProbe, MoeSkip, BatchProbe,
              ThreadProbe, ThreadSkip
<1>7. ASSUME \/ Baseline \/ DenseRefine \/ DenseDone \/ MoeSwept \/ MoeRefine
             \/ MoeDone \/ BatchStart \/ ThreadStart
      PROVE pc' \notin {"recheck", "done"}
  BY <1>7 DEF Baseline, DenseRefine, DenseDone, MoeSwept, MoeRefine, MoeDone,
              BatchStart, ThreadStart
<1>8. CASE Unreadable
  <2>1. /\ pc' = "done" /\ best' = best /\ outcome' = outcome
        /\ best = NoResult
        /\ outcome = [best |-> NoResult, success |-> FALSE]
    BY <1>8 DEF Unreadable, Fresh
  <2>2. QED BY <2>1, NoResultOK DEF Verdict
<1>9. QED
  BY <1>1, <1>2, <1>3, <1>4, <1>5, <1>6, <1>7, <1>8 DEF Next, Returned

\* No accepted run scores above best, and best is usable once one was.
LEMMA SearchInvariant == Spec => []SearchInv
<1>1. Init => SearchInv
  BY NoResultOK, ScoreBound DEF Init, SearchInv, Fresh, Top, Verdict
<1>2. TypeOK /\ SearchInv /\ [Next]_vars => SearchInv'
  <2> SUFFICES ASSUME TypeOK, SearchInv, [Next]_vars PROVE SearchInv'
    OBVIOUS
  <2>1. Fresh'
    <3>1. pc' = "baseline" => UNCHANGED vars
      BY DEF Next, Unreadable, Baseline, DenseProbe, DenseSkip, DenseRefine, DenseDone,
             MoeProbe, MoeSkip, MoeSwept, MoeRefine, MoeDone, BatchStart,
             BatchProbe, ThreadStart, ThreadProbe, ThreadSkip, Publish,
             Recheck, Finish, Returned
    <3>2. QED BY <3>1 DEF SearchInv, Fresh, vars
  <2>2. QED BY <2>1, TopInductive, VerdictInductive DEF SearchInv
<1>3. QED BY <1>1, <1>2, TypeCorrect, PTL DEF Spec

\* After the baseline the running best is the highest-scoring accepted run.
THEOREM BestStaysOnTop == Spec => []BestIsTop
<1>1. SearchInv => BestIsTop
  BY DEF SearchInv, Top, BestIsTop
<1>2. QED BY <1>1, SearchInvariant, PTL

\* A success publishes a usable configuration; a failure means no accepted
\* run of the whole search was usable.
THEOREM VerdictIsRight == Spec => []VerdictMatchesOutcome
<1>1. SearchInv => VerdictMatchesOutcome
  BY DEF SearchInv, Top, Verdict, VerdictMatchesOutcome
<1>2. QED BY <1>1, SearchInvariant, PTL

\* Once a run with VRAM headroom was accepted, the expert-placement stage
\* never makes a run without it the best.
THEOREM MoeStageMargin == Spec => MoeStageKeepsMargin
<1>1. TypeOK /\ SearchInv /\ [Next]_vars =>
        [kept.margin /\ pc \in {"moe", "moeRefine"} =>
           best' = best \/ ~ExceedsHeadroom(best')]_vars
  <2> SUFFICES ASSUME SearchInv, Next, kept.margin, pc \in {"moe", "moeRefine"}
               PROVE  best' = best \/ ~ExceedsHeadroom(best')
    OBVIOUS
  <2>1. Usable(best)
    BY DEF SearchInv, Top
  <2>2. ASSUME NEW v, NEW r, Promote(v, r), Usable(r), ~MoeRejects(r)
        PROVE  best' = best \/ ~ExceedsHeadroom(best')
    BY <2>1, <2>2 DEF Promote, Better, MoeRejects, LacksMargin
  <2>3. ASSUME NEW n \in todo, MoeProbe(n)
        PROVE  best' = best \/ ~ExceedsHeadroom(best')
    BY <2>2, <2>3 DEF MoeProbe, Boundary, Remember
  <2>4. CASE MoeRefine
    BY <2>2, <2>4 DEF MoeRefine, Boundary
  <2>5. CASE Baseline \/ DenseRefine \/ BatchStart \/ ThreadStart \/ Publish
    BY <2>5 DEF Baseline, DenseRefine, BatchStart, ThreadStart, Publish
  <2>6. ASSUME NEW n \in todo,
               \/ DenseProbe(n) \/ DenseSkip(n) \/ MoeSkip(n) \/ BatchProbe(n)
               \/ ThreadProbe(n) \/ ThreadSkip(n) \/ Recheck(n)
        PROVE  best' = best
    BY <2>6 DEF DenseProbe, DenseSkip, MoeSkip, BatchProbe, ThreadProbe,
                ThreadSkip, Recheck
  <2>7. CASE Unreadable \/ DenseDone \/ MoeSwept \/ MoeDone \/ Finish \/ Returned
    BY <2>7 DEF Unreadable, DenseDone, MoeSwept, MoeDone, Finish, Returned, vars
  <2>8. QED BY <2>3, <2>4, <2>5, <2>6, <2>7 DEF Next
<1>2. QED
  BY <1>1, TypeCorrect, SearchInvariant, PTL DEF Spec, MoeStageKeepsMargin

-----------------------------------------------------------------------------
(* Expert placement.                                                       *)

\* The configuration the later stages vary is coherent too, and expert
\* placement is only searched where it is tunable.
Placed ==
  /\ Coherent(best.cfg) /\ Coherent(base) /\ Coherent(outcome.best.cfg)
  /\ pc \in {"moe", "moeRefine"} => MoeTunable

\* Every configuration a stage builds from coherent ones is coherent.
LEMMA CoherentConfigs ==
  ASSUME TypeOK, Placed
  PROVE  /\ Coherent(BaselineConfig)
         /\ \A n \in 0..Layers : Coherent(DenseConfig(n))
         /\ MoeTunable => \A n \in 0..Layers : Coherent(MoeConfig(n))
         /\ \A p \in Pairs : Coherent([base EXCEPT !.batch = p])
         /\ \A t \in ThreadCandidates : Coherent([base EXCEPT !.threads = t])
         /\ \A v \in 0..Layers : Coherent(RecheckConfig(v))
<1>1. base \in Config /\ best.cfg \in Config
  BY DEF TypeOK, Result
<1>2. Coherent(BaselineConfig)
  BY DEF Coherent, BaselineConfig
<1>3. \A n \in 0..Layers : Coherent(DenseConfig(n))
  BY DEF Coherent, DenseConfig, BaselineConfig
<1>4. ASSUME MoeTunable, NEW n \in 0..Layers PROVE Coherent(MoeConfig(n))
  <2>1. DenseConfig(Layers) \in Config /\ DenseConfig(Layers).gpu_layers = Layers
    BY <1>4, ConfigsWellFormed, ParameterAssumption
       DEF DenseConfig, BaselineConfig, MoeTunable
  <2>2. QED BY <1>4, <2>1 DEF Coherent, MoeConfig, Config
<1>5. /\ \A p \in Pairs : Coherent([base EXCEPT !.batch = p])
      /\ \A t \in ThreadCandidates : Coherent([base EXCEPT !.threads = t])
  BY <1>1 DEF Placed, Coherent, Config
<1>6. \A v \in 0..Layers : Coherent(RecheckConfig(v))
  BY <1>1 DEF Placed, Coherent, RecheckConfig, OnMoeAxis, Config
<1>7. QED BY <1>2, <1>3, <1>4, <1>5, <1>6

\* best moves only to the result of a coherent configuration.
LEMMA BestStaysPlaced ==
  ASSUME TypeOK, Placed, NEW cfg, Coherent(cfg), NEW r \in Runs(cfg),
         best' \in {best, r}
  PROVE  Coherent(best'.cfg)
<1>1. r.cfg = cfg
  BY DEF Runs
<1>2. QED BY <1>1 DEF Placed

LEMMA PlacedInductive ==
  ASSUME TypeOK, Placed, [Next]_vars
  PROVE  Placed'
<1>0. todo \subseteq AxisOf(pc)
  BY DEF TypeOK
<1>1. CASE Baseline
  <2>1. PICK r \in Runs(BaselineConfig) : best' = r
    BY <1>1 DEF Baseline
  <2>2. Coherent(best'.cfg)
    BY <2>1, CoherentConfigs, BestStaysPlaced
  <2>3. QED BY <1>1, <2>2 DEF Baseline, Placed
<1>2. ASSUME NEW n \in todo, DenseProbe(n) PROVE Placed'
  <2>1. PICK r \in Runs(DenseConfig(n)) : best' \in {best, r}
    BY <1>2 DEF DenseProbe, Boundary, Promote, Better
  <2>2. Coherent(best'.cfg)
    BY <1>0, <1>2, <2>1, CoherentConfigs, BestStaysPlaced DEF DenseProbe, AxisOf
  <2>3. QED BY <1>2, <2>2 DEF DenseProbe, Placed
<1>3. CASE DenseRefine
  <2>1. PICK r \in Runs(DenseConfig(DenseMidpoint)) : best' \in {best, r}
    BY <1>3 DEF DenseRefine, Boundary, Promote, Better
  <2>2. DenseMidpoint \in 0..Layers
    BY <1>3, MidpointsInRange DEF DenseRefine
  <2>3. Coherent(best'.cfg)
    BY <2>1, <2>2, CoherentConfigs, BestStaysPlaced
  <2>4. QED BY <1>3, <2>3 DEF DenseRefine, Placed
<1>4. ASSUME NEW n \in todo, MoeProbe(n) PROVE Placed'
  <2>1. PICK r \in Runs(MoeConfig(n)) : best' \in {best, r}
    BY <1>4 DEF MoeProbe, Boundary, Promote, Remember, Better
  <2>2. MoeTunable
    BY <1>4 DEF MoeProbe, Placed
  <2>3. Coherent(best'.cfg)
    BY <1>0, <1>4, <2>1, <2>2, CoherentConfigs, BestStaysPlaced
       DEF MoeProbe, AxisOf
  <2>4. QED BY <1>4, <2>3 DEF MoeProbe, Placed
<1>5. CASE MoeRefine
  <2>1. PICK r \in Runs(MoeConfig(MoeMidpoint)) : best' \in {best, r}
    BY <1>5 DEF MoeRefine, Boundary, Promote, Better
  <2>2. MoeTunable /\ MoeMidpoint \in 0..Layers
    BY <1>5, MidpointsInRange DEF MoeRefine, Placed
  <2>3. Coherent(best'.cfg)
    BY <2>1, <2>2, CoherentConfigs, BestStaysPlaced
  <2>4. QED BY <1>5, <2>3 DEF MoeRefine, Placed
<1>6. ASSUME NEW p \in todo, BatchProbe(p) PROVE Placed'
  <2>1. PICK r \in Runs([base EXCEPT !.batch = p]) : best' \in {best, r}
    BY <1>6 DEF BatchProbe, Trial, Better
  <2>2. Coherent(best'.cfg)
    BY <1>0, <1>6, <2>1, CoherentConfigs, BestStaysPlaced DEF BatchProbe, AxisOf
  <2>3. QED BY <1>6, <2>2 DEF BatchProbe, Placed
<1>7. ASSUME NEW t \in todo, ThreadProbe(t) PROVE Placed'
  <2>1. PICK r \in Runs([base EXCEPT !.threads = t]) : best' \in {best, r}
    BY <1>7 DEF ThreadProbe, Trial, Better
  <2>2. Coherent(best'.cfg)
    BY <1>0, <1>7, <2>1, CoherentConfigs, BestStaysPlaced DEF ThreadProbe, AxisOf
  <2>3. QED BY <1>7, <2>2 DEF ThreadProbe, Placed
<1>8. ASSUME NEW v \in todo, Recheck(v) PROVE Placed'
  <2>1. PICK r \in Runs(RecheckConfig(v)) : best' \in {best, r}
    BY <1>8 DEF Recheck, Better
  <2>2. Coherent(best'.cfg)
    BY <1>0, <1>8, <2>1, CoherentConfigs, BestStaysPlaced DEF Recheck, AxisOf
  <2>3. QED BY <1>8, <2>2 DEF Recheck, Placed
<1>9. CASE BatchStart \/ ThreadStart
  BY <1>9 DEF BatchStart, ThreadStart, Placed
<1>10. CASE Publish
  <2>1. outcome'.best = best
    BY <1>10 DEF Publish, TypeOK
  <2>2. QED BY <1>10, <2>1 DEF Publish, Placed
<1>11. CASE Finish
  <2>1. outcome'.best = outcome.best
    BY <1>11 DEF Finish, TypeOK
  <2>2. QED BY <1>11, <2>1 DEF Finish, Placed
<1>12. ASSUME NEW v \in todo, DenseSkip(v) \/ MoeSkip(v) \/ ThreadSkip(v)
       PROVE Placed'
  BY <1>12 DEF DenseSkip, MoeSkip, ThreadSkip, Placed
<1>13. CASE Unreadable \/ DenseDone \/ MoeSwept \/ MoeDone \/ UNCHANGED vars
  BY <1>13 DEF Unreadable, DenseDone, MoeSwept, MoeDone, vars, Placed
<1>14. QED
  BY <1>1, <1>2, <1>3, <1>4, <1>5, <1>6, <1>7, <1>8, <1>9, <1>10, <1>11,
     <1>12, <1>13 DEF Next, Returned

\* Expert placement never meets a configuration it means nothing for.
THEOREM PlacementStaysCoherent == Spec => []PlacementCoherent
<1>1. Init => Placed
  BY DEF Init, Placed, Coherent, NoResult, BaselineConfig
<1>2. Placed => PlacementCoherent
  BY DEF Placed, PlacementCoherent
<1>3. QED BY <1>1, <1>2, TypeCorrect, PlacedInductive, PTL DEF Spec

-----------------------------------------------------------------------------
(* The search implements its promise.                                      *)

\* A step in which best is unchanged or its score rises.
Rises == best' = best \/ (Score(best') \in Int /\ Score(best') > Score(best))

\* Taking the better of two results never lowers the score.
LEMMA BetterRises ==
  ASSUME TypeOK, NEW r \in Result, best' \in {best, Better(r)}
  PROVE  Rises
BY ScoreBound DEF Better, Rises

\* Up to the assignment of the result a step changes nothing but the score of
\* best, which rises.
LEMMA SearchingSteps ==
  ASSUME TypeOK, Fresh, Next, ~Unreadable, ~Publish,
         Phase = "searching"
  PROVE  /\ Phase' = "searching" /\ outcome' = outcome
         /\ Score(best') = Score(best) \/ Rises
<1>0. world \in Worlds /\ todo \subseteq AxisOf(pc) /\ base \in Config
  BY DEF TypeOK
<1>1. CASE Baseline
  <2>1. PICK r \in Runs(BaselineConfig) : best' = r
    BY <1>1 DEF Baseline
  <2>2. r \in Result /\ best \in Result
    BY <1>0, ConfigsWellFormed, RunsAreResults DEF TypeOK
  <2>3. Score(best) = UnusableScore
    BY <1>1, <2>2, NoResultOK, ScoreBound DEF Baseline, Fresh
  <2>4. Score(r) \in Int /\ (Score(r) = UnusableScore \/ Score(r) > UnusableScore)
    BY <2>2, ScoreBound
  <2>5. QED BY <1>1, <2>1, <2>3, <2>4 DEF Baseline, Phase, Rises
<1>2. ASSUME NEW n \in todo, DenseProbe(n)
      PROVE  pc' = "dense" /\ outcome' = outcome /\ Rises
  <2>1. PICK r \in Runs(DenseConfig(n)) : best' \in {best, Better(r)}
    BY <1>2 DEF DenseProbe, Boundary, Promote
  <2>2. r \in Result
    BY <1>0, <1>2, ConfigsWellFormed, RunsAreResults DEF DenseProbe, AxisOf
  <2>3. QED BY <1>2, <2>1, <2>2, BetterRises DEF DenseProbe
<1>3. ASSUME NEW n \in todo, MoeProbe(n)
      PROVE  pc' = "moe" /\ outcome' = outcome /\ Rises
  <2>1. PICK r \in Runs(MoeConfig(n)) : best' \in {best, Better(r)}
    BY <1>3 DEF MoeProbe, Boundary, Promote, Remember
  <2>2. r \in Result
    BY <1>0, <1>3, ConfigsWellFormed, RunsAreResults DEF MoeProbe, AxisOf
  <2>3. QED BY <1>3, <2>1, <2>2, BetterRises DEF MoeProbe
<1>4. CASE DenseRefine
  <2>1. PICK r \in Runs(DenseConfig(DenseMidpoint)) : best' \in {best, Better(r)}
    BY <1>4 DEF DenseRefine, Boundary, Promote
  <2>2. r \in Result
    BY <1>0, <1>4, MidpointsInRange, ConfigsWellFormed, RunsAreResults
       DEF DenseRefine
  <2>3. QED BY <1>4, <2>1, <2>2, BetterRises DEF DenseRefine, Phase
<1>5. CASE MoeRefine
  <2>1. PICK r \in Runs(MoeConfig(MoeMidpoint)) : best' \in {best, Better(r)}
    BY <1>5 DEF MoeRefine, Boundary, Promote
  <2>2. r \in Result
    BY <1>0, <1>5, MidpointsInRange, ConfigsWellFormed, RunsAreResults
       DEF MoeRefine
  <2>3. QED BY <1>5, <2>1, <2>2, BetterRises DEF MoeRefine, Phase
<1>6. ASSUME NEW p \in todo, BatchProbe(p)
      PROVE  pc' = "batch" /\ outcome' = outcome /\ Rises
  <2>1. [base EXCEPT !.batch = p] \in Config
    BY <1>0, <1>6 DEF BatchProbe, AxisOf, Config
  <2>2. PICK r \in Runs([base EXCEPT !.batch = p]) : best' \in {best, Better(r)}
    BY <1>6 DEF BatchProbe, Trial
  <2>3. r \in Result
    BY <1>0, <2>1, RunsAreResults
  <2>4. QED BY <1>6, <2>2, <2>3, BetterRises DEF BatchProbe
<1>7. ASSUME NEW t \in todo, ThreadProbe(t)
      PROVE  pc' = "threads" /\ outcome' = outcome /\ Rises
  <2>1. [base EXCEPT !.threads = t] \in Config
    BY <1>0, <1>7 DEF ThreadProbe, AxisOf, Config
  <2>2. PICK r \in Runs([base EXCEPT !.threads = t]) : best' \in {best, Better(r)}
    BY <1>7 DEF ThreadProbe, Trial
  <2>3. r \in Result
    BY <1>0, <2>1, RunsAreResults
  <2>4. QED BY <1>7, <2>2, <2>3, BetterRises DEF ThreadProbe
<1>8. ASSUME NEW v \in todo, DenseSkip(v) \/ MoeSkip(v) \/ ThreadSkip(v)
      PROVE  pc' = pc /\ outcome' = outcome /\ Rises
  BY <1>8 DEF DenseSkip, MoeSkip, ThreadSkip, Rises
<1>9. CASE DenseDone \/ MoeSwept \/ MoeDone \/ BatchStart \/ ThreadStart
  BY <1>9 DEF DenseDone, MoeSwept, MoeDone, BatchStart, ThreadStart, Phase, Rises
<1>10. pc \notin {"recheck", "done"}
  BY DEF Phase
<1>11. /\ \A v \in todo : ~Recheck(v)
       /\ ~Finish /\ ~Returned
  BY <1>10 DEF Recheck, Finish, Returned
<1>12. QED
  BY <1>1, <1>2, <1>3, <1>4, <1>5, <1>6, <1>7, <1>8, <1>9, <1>10, <1>11
     DEF Next, Phase

\* Afterwards only a search that has a result goes on, and it adopts nothing
\* that scores less.
LEMMA RecheckSteps ==
  ASSUME TypeOK, Verdict, NEW v \in todo, Recheck(v)
  PROVE  /\ Phase = "published" /\ Phase' = "published" /\ outcome' = outcome
         /\ Score(best) > UnusableScore /\ Rises
<1>1. PICK r \in Runs(RecheckConfig(v)) : best' \in {best, Better(r)}
  BY DEF Recheck
<1>2. r \in Result /\ best \in Result
  BY RecheckConfigOK, RunsAreResults DEF Recheck, TypeOK, AxisOf
<1>3. Rises
  BY <1>1, <1>2, BetterRises
<1>4. Usable(best)
  BY DEF Recheck, Verdict
<1>5. QED BY <1>2, <1>3, <1>4, ScoreBound DEF Recheck, Phase

\* The search implements the promise of its interface.
THEOREM SearchKeepsPromise == Spec => KeepsPromise
<1>1. Init => Promise!Init
  BY NoResultOK, ScoreBound DEF Init, Promise!Init, Phase
<1>2. TypeOK /\ SearchInv /\ [Next]_vars => [Promise!Next]_(Promise!vars)
  <2> SUFFICES ASSUME TypeOK, Fresh, Verdict, Next
               PROVE  [Promise!Next]_(Promise!vars)
    BY DEF SearchInv, vars, Promise!vars, Phase
  <2>1. CASE Unreadable
    <3>1. Phase = "searching" /\ Phase' = "done" /\ Score(best) = UnusableScore
      BY <2>1, NoResultOK, ScoreBound DEF Unreadable, Phase, Fresh
    <3>2. QED BY <2>1, <3>1 DEF Unreadable, Promise!Next, Promise!GiveUp
  <2>2. CASE Publish
    <3>1. /\ Phase = "searching" /\ Phase' = "published"
          /\ best' = best /\ outcome'.best = best
          /\ outcome'.success = outcome.success
      BY <2>2 DEF Publish, Phase, TypeOK
    <3>2. QED BY <3>1 DEF Promise!Next, Promise!Publish
  <2>3. ASSUME NEW v \in todo, Recheck(v)
        PROVE  [Promise!Next]_(Promise!vars)
    BY <2>3, RecheckSteps
       DEF Promise!Next, Promise!Improve, Promise!vars, Rises
  <2>4. CASE Finish
    <3>1. /\ Phase = "published" /\ Phase' = "done"
          /\ best' = best /\ outcome'.best = outcome.best
          /\ outcome'.success = Usable(best)
      BY <2>4 DEF Finish, Phase, TypeOK
    <3>2. Usable(best) <=> Score(best) > UnusableScore
      BY ScoreBound DEF TypeOK
    <3>3. outcome'.success = (Score(best) > UnusableScore)
      BY <3>1, <3>2 DEF Usable
    <3>4. QED BY <3>1, <3>3 DEF Promise!Next, Promise!Conclude
  <2>5. CASE Phase = "searching" /\ ~Unreadable /\ ~Publish
    BY <2>5, SearchingSteps
       DEF Promise!Next, Promise!Improve, Promise!vars, Rises
  <2>6. CASE Phase # "searching" /\ ~Finish /\ \A v \in todo : ~Recheck(v)
    <3>1. pc \in {"recheck", "done"}
      BY <2>6 DEF Phase, TypeOK, Stages
    <3>2. Returned
      BY <2>6, <3>1
         DEF Next, Unreadable, Baseline, DenseProbe, DenseSkip, MoeProbe, MoeSkip,
             BatchProbe, ThreadProbe, ThreadSkip, DenseRefine, DenseDone,
             MoeSwept, MoeRefine, MoeDone, BatchStart, ThreadStart, Publish
    <3>3. QED BY <3>2 DEF Returned, vars, Promise!vars, Phase
  <2>7. QED BY <2>1, <2>2, <2>3, <2>4, <2>5, <2>6
<1>3. QED
  BY <1>1, <1>2, TypeCorrect, SearchInvariant, PTL
     DEF Spec, KeepsPromise, Promise!Spec
=============================================================================

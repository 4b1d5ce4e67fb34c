---------------------------- MODULE Insight_proofs ----------------------------
(***************************************************************************)
(* What the firm is told of its accounts and of itself, for any facts,     *)
(* weights, jobs, demands, profiles, sockets and messages: scores are      *)
(* counted, shown and bounded as they are stored (ScoringHolds), heatmaps  *)
(* list the gaps that weigh most and compare them with those before        *)
(* (GapHolds), and a socket is sent what is broadcast (DashboardHolds).    *)
(* The three share no variable and no definition; each has its own         *)
(* inductive invariant.                                                    *)
(***************************************************************************)
EXTENDS ScoreRecomputation, GapAnalysis, Dashboard, Selection_proofs

-----------------------------------------------------------------------------
\* The computation of a score.

Weights == [firmographic : 0..100, technographic : 0..100]
Account == [complete : BOOLEAN, employees : Nat, industry : BOOLEAN, revenue : BOOLEAN, tech : Nat, sources : Nat]

(* Rounding stays between the bounds of the quotient.                      *)
LEMMA RoundedIsBetween ==
    ASSUME NEW n \in Nat, NEW d \in Nat \ {0}, NEW low \in Nat, NEW high \in Nat,
           low * d <= n, n <= high * d
    PROVE  Rounded(n, d) \in low .. high
<1> DEFINE q == n \div d
           m == n % d
<1>1. q \in Int /\ m \in Int /\ 0 <= m /\ m < d /\ n = d * q + m
  OBVIOUS
<1> HIDE DEF q, m
<1>2. low <= q
  <2> SUFFICES ASSUME q + 1 <= low PROVE FALSE
    BY <1>1
  <2>1. d * (q + 1) <= d * low
    BY <1>1
  <2>2. d * (q + 1) = d * q + d
    BY <1>1
  <2> QED
    BY <1>1, <2>1, <2>2
<1>3. q <= high
  <2> SUFFICES ASSUME high + 1 <= q PROVE FALSE
    BY <1>1
  <2>1. d * (high + 1) <= d * q
    BY <1>1
  <2>2. d * (high + 1) = d * high + d
    BY <1>1
  <2> QED
    BY <1>1, <2>1, <2>2
<1>4. q = high => m = 0
  <2> SUFFICES ASSUME q = high PROVE m = 0
    OBVIOUS
  <2>1. d * q = high * d
    BY <1>1
  <2> QED
    BY <1>1, <2>1
<1>5. Rounded(n, d) = IF 2 * m < d \/ (2 * m = d /\ q % 2 = 0) THEN q ELSE q + 1
  BY DEF Rounded, q, m
<1> QED
  BY <1>1, <1>2, <1>3, <1>4, <1>5

(* A weighted total lies between any bounds of the factors that have a     *)
(* weight, and is 0 when none has.                                         *)
LEMMA WeightedTotalIsBetween ==
    ASSUME NEW factors, NEW weights, NEW low \in Nat, NEW high \in Nat,
           IsFiniteSet(DOMAIN factors),
           \A f \in Available(factors) : factors[f] \in Nat /\ weights[f] \in Nat,
           \A f \in Available(factors) : weights[f] > 0 => factors[f] \in low .. high
    PROVE  IF \E f \in Available(factors) : weights[f] > 0
           THEN WeightedTotal(factors, weights) \in low .. high
           ELSE WeightedTotal(factors, weights) = 0
<1> DEFINE S == Available(factors)
           product == [f \in DOMAIN factors |-> factors[f] * weights[f]]
           available == Total(weights, S)
           weighed == Total(product, S)
<1>1. IsFiniteSet(S) /\ S \subseteq DOMAIN factors
  BY FS_Subset DEF Available
<1>2. \A f \in S : product[f] = factors[f] * weights[f] /\ product[f] \in Nat
  <2>1. \A f \in S : factors[f] * weights[f] \in Nat
    OBVIOUS
  <2>2. \A f \in S : product[f] = factors[f] * weights[f]
    BY <1>1
  <2> QED
    BY <2>1, <2>2
<1>3. WeightedTotal(factors, weights) = IF available = 0 THEN 0 ELSE Rounded(weighed, available)
  BY DEF WeightedTotal
<1> HIDE DEF product
<1>4. \A f \in S : low * weights[f] <= product[f] /\ product[f] <= high * weights[f]
  <2> TAKE f \in S
  <2>1. factors[f] \in Nat /\ weights[f] \in Nat
    OBVIOUS
  <2>2. CASE weights[f] = 0
    BY <1>2, <2>1, <2>2
  <2>3. CASE weights[f] > 0
    <3>1. low <= factors[f] /\ factors[f] <= high
      BY <2>3
    <3>2. low * weights[f] <= factors[f] * weights[f]
      BY <2>1, <3>1
    <3>3. factors[f] * weights[f] <= high * weights[f]
      BY <2>1, <3>1
    <3> QED
      BY <1>2, <3>2, <3>3
  <2> QED
    BY <2>1, <2>2, <2>3
<1>5. available \in Nat /\ \A f \in S : weights[f] <= available
  BY <1>1, TotalIsSum
<1>6. weighed \in Nat
  BY <1>1, <1>2, TotalIsSum
<1>7. low * available <= weighed /\ weighed <= high * available
  BY <1>1, <1>2, <1>4, TotalIsBetween
<1>8. CASE \E f \in S : weights[f] > 0
  <2>1. available \in Nat \ {0}
    BY <1>5, <1>8
  <2> HIDE DEF available, weighed
  <2>2. Rounded(weighed, available) \in low .. high
    BY <1>6, <1>7, <2>1, RoundedIsBetween
  <2> QED
    BY <1>3, <1>8, <2>1, <2>2
<1>9. CASE ~ \E f \in S : weights[f] > 0
  <2>1. \A f \in S : 0 * weights[f] <= weights[f] /\ weights[f] <= 0 * weights[f]
    BY <1>9
  <2>2. available <= 0 * available
    BY <1>1, <2>1, TotalIsBetween
  <2>3. available = 0
    BY <1>5, <2>2
  <2> QED
    BY <1>3, <1>9, <2>3
<1> QED
  BY <1>8, <1>9

(* The bonus of the sources is at most 30.                                 *)
LEMMA BonusIsSmall == \A n \in Nat : Bonus(n) \in 0 .. 30
BY DEF Bonus, Least, MULTI_SOURCE_BONUS_MAX, MULTI_SOURCE_BONUS_PER_SOURCE

(* The factors of an account are percentages or missing.                   *)
LEMMA FactorsArePercentages ==
    ASSUME NEW f \in Account
    PROVE  /\ DOMAIN Factors(f) = {"firmographic", "technographic"}
           /\ IsFiniteSet(DOMAIN Factors(f))
           /\ Available(Factors(f)) \subseteq {"firmographic", "technographic"}
           /\ \A n \in Available(Factors(f)) : Factors(f)[n] \in 0 .. 100
<1>1. Firmographic(f) \in (0 .. 100) \cup {Missing}
  <2> DEFINE size == CASE f.employees \in 50..500 -> 20
                       [] f.employees \in 501..5000 -> 15
                       [] f.employees > 5000 -> 10
                       [] OTHER -> 5
             sum == 50 + size + (IF f.industry THEN 10 ELSE 0) + (IF f.revenue THEN 10 ELSE 0)
  <2>1. size \in 5 .. 20
    BY DEF Account
  <2>2. Firmographic(f) = IF ~f.complete \/ f.employees = 0 THEN Missing ELSE Least(sum, 100)
    BY DEF Firmographic
  <2> HIDE DEF size
  <2>3. sum \in 0 .. 100
    BY <2>1
  <2> HIDE DEF sum
  <2> QED
    BY <2>2, <2>3 DEF Least
<1>2. Technographic(f) \in (0 .. 100) \cup {Missing}
  BY DEF Account, Technographic, Least, Missing
<1>3. DOMAIN Factors(f) = {"firmographic", "technographic"}
  BY DEF Factors
<1>4. Factors(f)["firmographic"] = Firmographic(f) /\ Factors(f)["technographic"] = Technographic(f)
  BY DEF Factors
<1>5. IsFiniteSet({"firmographic", "technographic"})
  <2>1. IsFiniteSet({"firmographic"} \cup {"technographic"})
    BY FS_Singleton, FS_AddElement
  <2>2. {"firmographic"} \cup {"technographic"} = {"firmographic", "technographic"}
    OBVIOUS
  <2> QED
    BY <2>1, <2>2
<1> QED
  BY <1>1, <1>2, <1>3, <1>4, <1>5 DEF Available

(* A score lies between the factors that have a weight, with the bonus.    *)
Weighty(f, weights) == {m \in Available(Factors(f)) : weights[m] > 0}

(* A score lies between the factors that have a weight, the upper one      *)
(* raised by the bonus, and is the bonus when none has.                    *)
LEMMA ScoreIsBetween ==
    ASSUME NEW f \in Account, NEW weights \in Weights
    PROVE  /\ ScoreOf(f, weights) \in 0 .. 100
           /\ LET values == {Factors(f)[n] : n \in Weighty(f, weights)}
                  bonus == Bonus(f.sources)
              IN  IF values = {} THEN ScoreOf(f, weights) = bonus
                  ELSE /\ Min(values) <= ScoreOf(f, weights)
                       /\ ScoreOf(f, weights) <= Least(Max(values) + bonus, 100)
<1> DEFINE values == {Factors(f)[n] : n \in Weighty(f, weights)}
           bonus == Bonus(f.sources)
           total == WeightedTotal(Factors(f), weights)
<1>0. f.sources \in Nat /\ bonus \in 0 .. 30
  <2>1. f.sources \in Nat
    BY DEF Account
  <2> QED
    BY <2>1, BonusIsSmall
<1>1. ScoreOf(f, weights) = Least(total + bonus, 100)
  BY DEF ScoreOf, ComputeScore
<1>2. /\ IsFiniteSet(DOMAIN Factors(f))
      /\ \A n \in Available(Factors(f)) : Factors(f)[n] \in 0 .. 100 /\ Factors(f)[n] \in Nat /\ weights[n] \in Nat
  BY FactorsArePercentages DEF Weights
<1>3. CASE values = {}
  <2>1. ~ \E n \in Available(Factors(f)) : weights[n] > 0
    BY <1>3 DEF Weighty
  <2>2. total = 0
    BY <1>2, <2>1, WeightedTotalIsBetween
  <2> HIDE DEF total, values, bonus
  <2>3. ScoreOf(f, weights) = bonus
    BY <1>0, <1>1, <2>2 DEF Least
  <2> QED
    BY <1>0, <1>3, <2>3 DEF values, bonus
<1>4. CASE values # {}
  <2>1. values \subseteq 0 .. 100
    BY <1>2 DEF Weighty
  <2>2. Min(values) \in values /\ \A v \in values : Min(values) <= v
    <3>1. \E v \in values : \A w \in values : v <= w
      <4> HIDE DEF values
      <4> DEFINE Upper == {n \in Nat : \A w \in values : n <= w}
      <4>1. SUFFICES ASSUME \A v \in values : \E w \in values : w < v PROVE FALSE
        BY <2>1
      <4>2. 0 \in Upper
        BY <2>1
      <4>3. ASSUME NEW n \in Upper PROVE n + 1 \in Upper
        <5>1. n \notin values
          BY <2>1, <4>1
        <5> QED
          BY <2>1, <5>1
      <4>4. Upper = Nat
        <5> HIDE DEF Upper
        <5>1. Upper \in SUBSET Nat
          BY DEF Upper
        <5> QED
          BY <4>2, <4>3, <5>1, Induction
      <4>5. 101 \in Upper
        BY <4>4
      <4>6. PICK v \in values : v \in 0 .. 100
        BY <1>4, <2>1
      <4> QED
        BY <4>5, <4>6
    <3> HIDE DEF values
    <3> QED
      BY <3>1 DEF Min
  <2>3. Max(values) \in values /\ \A v \in values : v <= Max(values)
    <3>1. \E v \in values : \A w \in values : v >= w
      <4> HIDE DEF values
      <4> DEFINE Lower == {n \in Nat : \A w \in values : n <= 100 - w}
      <4>1. SUFFICES ASSUME \A v \in values : \E w \in values : w > v PROVE FALSE
        BY <2>1
      <4>2. 0 \in Lower
        BY <2>1
      <4>3. ASSUME NEW n \in Lower PROVE n + 1 \in Lower
        <5>1. 100 - n \notin values
          BY <2>1, <4>1
        <5> QED
          BY <2>1, <5>1
      <4>4. Lower = Nat
        <5> HIDE DEF Lower
        <5>1. Lower \in SUBSET Nat
          BY DEF Lower
        <5> QED
          BY <4>2, <4>3, <5>1, Induction
      <4>5. 101 \in Lower
        BY <4>4
      <4>6. PICK v \in values : v \in 0 .. 100
        BY <1>4, <2>1
      <4> QED
        BY <4>5, <4>6
    <3> HIDE DEF values
    <3> QED
      BY <3>1 DEF Max
  <2>4. \E n \in Available(Factors(f)) : weights[n] > 0
    BY <1>4 DEF Weighty
  <2>5. \A n \in Available(Factors(f)) : weights[n] > 0 => Factors(f)[n] \in values
    BY DEF Weighty
  <2> HIDE DEF values
  <2>6. \A n \in Available(Factors(f)) : weights[n] > 0 => Factors(f)[n] \in Min(values) .. Max(values)
    BY <1>2, <2>1, <2>2, <2>3, <2>5
  <2>7. Min(values) \in Nat /\ Max(values) \in Nat /\ Min(values) <= 100
    <3>1. Min(values) \in 0 .. 100 /\ Max(values) \in 0 .. 100
      BY <2>1, <2>2, <2>3
    <3> QED
      BY <3>1
  <2>8. total \in Min(values) .. Max(values)
    BY <1>2, <2>4, <2>6, <2>7, WeightedTotalIsBetween
  <2> HIDE DEF total, bonus
  <2>9. /\ ScoreOf(f, weights) \in 0 .. 100
        /\ Min(values) <= ScoreOf(f, weights)
        /\ ScoreOf(f, weights) <= Least(Max(values) + bonus, 100)
    BY <1>0, <1>1, <2>7, <2>8 DEF Least
  <2> QED
    BY <1>4, <2>9 DEF values, bonus
<1> QED
  BY <1>3, <1>4

-----------------------------------------------------------------------------
\* The invariant.

Score == (0 .. 100) \cup {NoScore}
ScoreRow == [prospect : Scored, facts : Facts, current : Score]
Write == [prospect : Scored, total : 0 .. 100, facts : Facts, weights : Weights]
ScoreJob == [pc : {"idle", "scoring", "commit", "done", "raised"}, rows : Seq(ScoreRow), next : Nat,
             written : Seq(Write), aborted : BOOLEAN, recomputed : Nat, stored : Nat, changed : Nat,
             errors : Nat]

(* The places of the rows whose score a job has written and not committed. *)
Touches(j, p) == \E i \in 1 .. Len(Job(j).written) : Job(j).written[i].prospect = p

JobOK(j) ==
    /\ Job(j).next \in 1 .. Len(Job(j).rows) + 1
    /\ Job(j).pc = "scoring" => Job(j).next <= Len(Job(j).rows)
    /\ Job(j).pc \in {"idle", "done", "raised"} => Job(j).written = <<>>
    /\ Job(j).changed <= Job(j).recomputed
    /\ Job(j).aborted => Job(j).errors > 0
    /\ Job(j).errors = 0 /\ Job(j).pc # "raised" =>
         Job(j).stored + Len(Job(j).written) = Job(j).recomputed
    /\ \A a, b \in 1 .. Len(Job(j).rows) : Job(j).rows[a].prospect = Job(j).rows[b].prospect => a = b

(* What a job writes are the scores of rows before the next one, each once.*)
WritesOK(j) ==
    /\ \A i \in 1 .. Len(Job(j).written) :
        /\ Job(j).written[i].total = ScoreOf(Job(j).written[i].facts, Job(j).written[i].weights)
        /\ \E r \in 1 .. Job(j).next - 1 : Job(j).rows[r].prospect = Job(j).written[i].prospect
    /\ \A a, b \in 1 .. Len(Job(j).written) :
         Job(j).written[a].prospect = Job(j).written[b].prospect => a = b

(* While jobs have not overlapped and nothing has failed: what the single  *)
(* job has still to write it knows, and what is shown is what will be      *)
(* stored.                                                                 *)
SoloOK(j) ==
    /\ ~ Job(j).aborted
    /\ \A i \in 1 .. Len(Job(j).written) : shown[Job(j).written[i].prospect] = Job(j).written[i].total
    /\ \A p \in Scored : ~ Touches(j, p) => shown[p] = score[p]
    /\ \A r \in 1 .. Len(Job(j).rows) :
         r >= Job(j).next => Job(j).rows[r].current = score[Job(j).rows[r].prospect]

BasisOK(p) ==
    score[p] # NoScore =>
        /\ basis[p].facts \in Facts /\ basis[p].weights \in Weights
        /\ score[p] = ScoreOf(basis[p].facts, basis[p].weights)

ScoreTypes ==
    /\ facts \in [Scored -> Facts]
    /\ score \in [Scored -> Score]
    /\ shown \in [Scored -> Score]
    /\ scoreJob \in [ScoreJobs -> ScoreJob]
    /\ DOMAIN basis = Scored
    /\ losses \in Nat
    /\ mixed \in BOOLEAN

ScoreInv ==
    /\ ScoreTypes
    /\ \A j \in ScoreJobs : JobOK(j) /\ WritesOK(j)
    /\ \A j, k \in ScoreJobs : j # k => \A p \in Scored : ~ (Touches(j, p) /\ Touches(k, p))
    /\ \A p \in Scored : BasisOK(p)
    /\ ~ mixed => \A j, k \in ScoreJobs : Working(j) /\ Working(k) => j = k
    /\ ~ mixed /\ losses = 0 =>
        /\ (\A j \in ScoreJobs : ~ Working(j)) => shown = score
        /\ \A j \in ScoreJobs : Working(j) => SoloOK(j)

(* What the assumption says, in the terms of the proof.                    *)
LEMMA ScoredFacts ==
    /\ Prospects \in Seq(Scored)
    /\ \A f \in Facts : f \in Account
    /\ \A j \in ScoreJobs : WeightsOf[j] \in Weights
    /\ SCORE_BATCH \in Nat \ {0}
    /\ FirstFacts \in [Scored -> Facts]
BY ScoreAssumption DEF Scored, Account, Weights

(* No job has begun and no score is stored.                                *)
LEMMA ScoreInitInv == ScoreInit => ScoreInv
<1> SUFFICES ASSUME ScoreInit PROVE ScoreInv
  OBVIOUS
<1>1. \A j \in ScoreJobs : Job(j) = NoScoreJob
  BY DEF ScoreInit, Job
<1>2. NoScoreJob \in ScoreJob
  BY DEF NoScoreJob, ScoreJob
<1>3. ScoreTypes
  BY <1>2, ScoredFacts DEF ScoreInit, ScoreTypes, Score
<1>4. \A j \in ScoreJobs : JobOK(j) /\ WritesOK(j) /\ ~ Working(j) /\ \A p \in Scored : ~ Touches(j, p)
  BY <1>1 DEF JobOK, WritesOK, Touches, NoScoreJob, Working
<1>5. shown = score /\ \A p \in Scored : BasisOK(p)
  BY DEF ScoreInit, BasisOK
<1> QED
  BY <1>3, <1>4, <1>5 DEF ScoreInv

-----------------------------------------------------------------------------
\* The steps.

(* A job goes on: what the invariant asks of it and of the others, for a   *)
(* step that commits nothing.                                              *)
LEMMA JobGoesOn ==
    ASSUME ScoreInv, NEW j \in ScoreJobs, NEW job \in ScoreJob, SetJob(j, job),
           UNCHANGED <<facts, score, basis>>,
           shown' \in [Scored -> Score], losses' \in Nat, mixed' \in BOOLEAN,
           JobOK(j)', WritesOK(j)',
           \A p \in Scored : \A k \in ScoreJobs \ {j} : Touches(j, p)' => ~ Touches(k, p),
           ~ mixed' => ~ mixed,
           ~ mixed' /\ Working(j)' => \A k \in ScoreJobs \ {j} : ~ Working(k),
           ~ mixed' /\ losses' = 0 /\ Working(j)' => SoloOK(j)',
           ~ mixed' /\ losses' = 0 /\ ~ Working(j)' =>
                shown' = shown /\ losses = 0 /\ ((\A k \in ScoreJobs \ {j} : ~ Working(k)) => shown = score)
    PROVE  ScoreInv'
<1>1. /\ scoreJob' \in [ScoreJobs -> ScoreJob]
      /\ Job(j)' = job
      /\ \A k \in ScoreJobs \ {j} : Job(k)' = Job(k)
  BY DEF ScoreInv, ScoreTypes, SetJob, Job
<1>2. ScoreTypes'
  BY <1>1 DEF ScoreInv, ScoreTypes
<1>3. ASSUME NEW k \in ScoreJobs \ {j}
      PROVE  /\ JobOK(k)' /\ WritesOK(k)'
             /\ Working(k)' <=> Working(k)
             /\ \A p : Touches(k, p)' <=> Touches(k, p)
             /\ shown' = shown => (SoloOK(k)' <=> SoloOK(k))
  <2>1. Job(k)' = Job(k)
    BY <1>1
  <2>2. JobOK(k)' /\ WritesOK(k)'
    BY <2>1 DEF ScoreInv, JobOK, WritesOK
  <2>3. Working(k)' <=> Working(k)
    BY <2>1 DEF Working
  <2>4. \A p : Touches(k, p)' <=> Touches(k, p)
    BY <2>1 DEF Touches
  <2>5. ASSUME shown' = shown PROVE SoloOK(k)' <=> SoloOK(k)
    BY <2>1, <2>4, <2>5 DEF SoloOK
  <2> QED
    BY <2>2, <2>3, <2>4, <2>5
<1>4. \A k \in ScoreJobs : JobOK(k)' /\ WritesOK(k)'
  BY <1>3
<1>5. \A i, k \in ScoreJobs : i # k => \A p \in Scored : ~ (Touches(i, p)' /\ Touches(k, p)')
  BY <1>3 DEF ScoreInv
<1>6. \A p \in Scored : BasisOK(p)'
  BY DEF ScoreInv, BasisOK
<1>7. ~ mixed' => \A i, k \in ScoreJobs : Working(i)' /\ Working(k)' => i = k
  BY <1>3 DEF ScoreInv
<1>8. ASSUME ~ mixed', losses' = 0
      PROVE  /\ (\A k \in ScoreJobs : ~ Working(k)') => shown' = score'
             /\ \A k \in ScoreJobs : Working(k)' => SoloOK(k)'
  <2>1. CASE Working(j)'
    BY <1>3, <1>8, <2>1
  <2>2. CASE ~ Working(j)'
    <3>1. shown' = shown /\ losses = 0 /\ ((\A k \in ScoreJobs \ {j} : ~ Working(k)) => shown = score)
      BY <1>8, <2>2
    <3>2. \A k \in ScoreJobs \ {j} : Working(k)' => SoloOK(k)'
      BY <1>3, <1>8, <3>1 DEF ScoreInv
    <3>3. (\A k \in ScoreJobs : ~ Working(k)') => shown' = score'
      BY <1>3, <3>1
    <3> QED
      BY <2>2, <3>2, <3>3
  <2> QED
    BY <2>1, <2>2
<1> QED
  BY <1>2, <1>4, <1>5, <1>6, <1>7, <1>8 DEF ScoreInv

(* A job that loads finds each prospect once, and what is stored is what   *)
(* it reads as the current score.                                          *)
LEMMA LoadInv ==
    ASSUME ScoreInv, NEW j \in ScoreJobs, Load(j)
    PROVE  ScoreInv'
<1> DEFINE keep == IF Single[j] # NoProspect THEN {Single[j]} ELSE Scored \ Terminal
           read == Kept(Prospects, keep)
           rows == [i \in DOMAIN read |-> [prospect |-> read[i], facts |-> facts[read[i]],
                                           current |-> score[read[i]]]]
           job == [NoScoreJob EXCEPT !.pc = IF rows = <<>> THEN "done" ELSE "scoring", !.rows = rows]
<1>1. /\ Job(j).pc = "idle" /\ SetJob(j, job)
      /\ mixed' = (mixed \/ \E k \in ScoreJobs \ {j} : Working(k))
      /\ UNCHANGED <<facts, score, basis, shown, updates, losses>>
  BY DEF Load
<1>2. /\ read \in Seq(Scored)
      /\ \A a, b \in 1 .. Len(read) : read[a] = read[b] => a = b
  <2>1. \A a, b \in 1 .. Len(Prospects) : Prospects[a] = Prospects[b] => a = b
    BY ScoredFacts, ScoreAssumption
  <2> HIDE DEF keep
  <2>2. Prospects \in Seq(Scored)
    BY ScoredFacts
  <2>3. read \in Seq(Scored)
    BY <2>2, KeptProperties
  <2>4. \A a, b \in 1 .. Len(read) : read[a] = read[b] => a = b
    BY <2>1, <2>2, KeptDistinct
  <2> QED
    BY <2>3, <2>4
<1> HIDE DEF read
<1>3. /\ rows \in Seq(ScoreRow) /\ Len(rows) = Len(read)
      /\ \A i \in 1 .. Len(rows) : rows[i].prospect = read[i] /\ rows[i].current = score[read[i]]
  <2>1. DOMAIN read = 1 .. Len(read) /\ Len(read) \in Nat
    BY <1>2
  <2>2. \A i \in 1 .. Len(read) :
          [prospect |-> read[i], facts |-> facts[read[i]], current |-> score[read[i]]] \in ScoreRow
    BY <1>2 DEF ScoreInv, ScoreTypes, ScoreRow
  <2>3. rows \in [1 .. Len(read) -> ScoreRow]
    BY <2>1, <2>2
  <2>4. rows \in Seq(ScoreRow) /\ Len(rows) = Len(read)
    BY <2>1, <2>3
  <2> QED
    BY <2>1, <2>4
<1> HIDE DEF rows
<1>4. /\ job.pc = IF rows = <<>> THEN "done" ELSE "scoring"
      /\ job.rows = rows /\ job.next = 1 /\ job.written = <<>> /\ job.aborted = FALSE
      /\ job.recomputed = 0 /\ job.stored = 0 /\ job.changed = 0 /\ job.errors = 0
  BY DEF NoScoreJob
<1>5. job \in ScoreJob
  <2> DEFINE pc == IF rows = <<>> THEN "done" ELSE "scoring"
  <2>1. job = [NoScoreJob EXCEPT !.pc = pc, !.rows = rows] /\ pc \in {"done", "scoring"}
    OBVIOUS
  <2> HIDE DEF pc, job
  <2>2. NoScoreJob \in ScoreJob
    BY DEF NoScoreJob, ScoreJob
  <2> QED
    BY <1>3, <2>1, <2>2 DEF ScoreJob
<1> HIDE DEF job
<1>6. Job(j)' = job
  BY <1>1 DEF SetJob, Job, ScoreInv, ScoreTypes
<1>7. JobOK(j)'
  BY <1>2, <1>3, <1>4, <1>6 DEF JobOK
<1>8. WritesOK(j)' /\ \A p : ~ Touches(j, p)'
  BY <1>4, <1>6 DEF WritesOK, Touches
<1>9. ~ mixed' => ~ mixed /\ \A k \in ScoreJobs \ {j} : ~ Working(k)
  BY <1>1
<1>10. ~ mixed' /\ losses' = 0 => shown = score
  <2>1. ~ Working(j)
    BY <1>1 DEF Working
  <2> QED
    BY <1>1, <1>9, <2>1 DEF ScoreInv
<1>11. ~ mixed' /\ losses' = 0 => SoloOK(j)'
  BY <1>1, <1>2, <1>3, <1>4, <1>6, <1>8, <1>10 DEF SoloOK
<1>12. shown' \in [Scored -> Score] /\ losses' \in Nat /\ mixed' \in BOOLEAN
  BY <1>1 DEF ScoreInv, ScoreTypes
<1> QED
  BY <1>1, <1>5, <1>7, <1>8, <1>9, <1>10, <1>11, <1>12, JobGoesOn

(* What a job has after its next row.                                      *)
LEMMA SteppedFacts ==
    ASSUME NEW job \in ScoreJob, job.next \in 1 .. Len(job.rows)
    PROVE  /\ Stepped(job) \in ScoreJob
           /\ Stepped(job).next = job.next + 1
           /\ Stepped(job).pc \in {"scoring", "commit"}
           /\ Stepped(job).pc = "scoring" => Stepped(job).next <= Len(job.rows)
           /\ Stepped(job).rows = job.rows /\ Stepped(job).written = job.written
           /\ Stepped(job).aborted = job.aborted /\ Stepped(job).recomputed = job.recomputed
           /\ Stepped(job).stored = job.stored /\ Stepped(job).changed = job.changed
           /\ Stepped(job).errors = job.errors
<1>1. job.next \in Nat /\ Len(job.rows) \in Nat
  BY DEF ScoreJob
<1>2. ~ BatchEnds(job.next, job.rows) => job.next # Len(job.rows)
  BY DEF BatchEnds
<1> QED
  <2> DEFINE pc == IF BatchEnds(job.next, job.rows) THEN "commit" ELSE "scoring"
  <2>1. Stepped(job) = [job EXCEPT !.next = job.next + 1, !.pc = pc]
    BY DEF Stepped
  <2>2. pc \in {"scoring", "commit"} /\ (pc = "scoring" => job.next + 1 <= Len(job.rows))
    BY <1>1, <1>2
  <2> HIDE DEF pc
  <2>3. /\ Stepped(job).next = job.next + 1 /\ Stepped(job).pc = pc
        /\ Stepped(job).rows = job.rows /\ Stepped(job).written = job.written
        /\ Stepped(job).aborted = job.aborted /\ Stepped(job).recomputed = job.recomputed
        /\ Stepped(job).stored = job.stored /\ Stepped(job).changed = job.changed
        /\ Stepped(job).errors = job.errors
    BY <2>1 DEF ScoreJob
  <2>4. Stepped(job) \in ScoreJob
    <3>1. job.next + 1 \in Nat /\ pc \in {"idle", "scoring", "commit", "done", "raised"}
      BY <1>1, <2>2
    <3> QED
      BY <2>1, <3>1 DEF ScoreJob
  <2> QED
    BY <2>2, <2>3, <2>4

(* A write is of a row that no open transaction holds, has the score of    *)
(* the facts that were read, and is shown when it changes that score.      *)
LEMMA UpsertInv ==
    ASSUME ScoreInv, NEW j \in ScoreJobs, Upsert(j)
    PROVE  ScoreInv'
<1> DEFINE old == Job(j)
           row == old.rows[old.next]
           total == ScoreOf(row.facts, WeightsOf[j])
           changed == Changed(row, total)
           write == [prospect |-> row.prospect, total |-> total, facts |-> row.facts, weights |-> WeightsOf[j]]
           counted == [old EXCEPT !.written = Append(@, write), !.recomputed = @ + 1,
                                  !.changed = IF changed THEN @ + 1 ELSE @]
           job == Stepped(counted)
<1>1. /\ old.pc = "scoring" /\ ~ old.aborted
      /\ \A k \in ScoreJobs \ {j} : row.prospect \notin Locked(k)
      /\ SetJob(j, job)
      /\ \/ /\ shown' = IF changed THEN [shown EXCEPT ![row.prospect] = total] ELSE shown
            /\ losses' = losses
         \/ losses' = losses + 1 /\ shown' = shown
      /\ UNCHANGED <<facts, score, basis, updates, mixed>>
  BY DEF Upsert
<1>2. old \in ScoreJob /\ JobOK(j) /\ WritesOK(j)
  BY DEF ScoreInv, ScoreTypes, Job
<1>3. old.rows \in Seq(ScoreRow) /\ old.next \in 1 .. Len(old.rows) /\ old.written \in Seq(Write)
  BY <1>1, <1>2 DEF JobOK, ScoreJob
<1>4. row \in ScoreRow
  BY <1>3
<1>5. total \in 0 .. 100 /\ write \in Write
  <2>1. row.facts \in Account /\ row.facts \in Facts /\ row.prospect \in Scored /\ WeightsOf[j] \in Weights
    BY <1>4, ScoredFacts DEF ScoreRow
  <2>2. total \in 0 .. 100
    BY <2>1, ScoreIsBetween
  <2> HIDE DEF total
  <2> QED
    BY <2>1, <2>2 DEF Write
<1>6. write.total = ScoreOf(write.facts, write.weights) /\ write.prospect = row.prospect /\ write.total = total
  OBVIOUS
<1>7. changed \in BOOLEAN /\ (~ changed => row.current = total)
  BY DEF Changed
<1> HIDE DEF row, total, changed, write
<1>8. /\ counted \in ScoreJob
      /\ counted.written = Append(old.written, write) /\ counted.recomputed = old.recomputed + 1
      /\ counted.changed = (IF changed THEN old.changed + 1 ELSE old.changed)
      /\ counted.next = old.next /\ counted.rows = old.rows
      /\ counted.aborted = old.aborted /\ counted.stored = old.stored /\ counted.errors = old.errors
  <2>1. Append(old.written, write) \in Seq(Write)
    BY <1>3, <1>5
  <2> DEFINE written == Append(old.written, write)
             tally == IF changed THEN old.changed + 1 ELSE old.changed
  <2>2. counted = [old EXCEPT !.written = written, !.recomputed = old.recomputed + 1, !.changed = tally]
    OBVIOUS
  <2>3. tally \in Nat /\ written \in Seq(Write)
    BY <1>2, <2>1 DEF ScoreJob
  <2> HIDE DEF old, written, tally, counted
  <2>5. counted \in ScoreJob
    <3>1. old.recomputed + 1 \in Nat
      BY <1>2 DEF ScoreJob
    <3> QED
      BY <1>2, <2>2, <2>3, <3>1 DEF ScoreJob
  <2>4. /\ counted.written = written /\ counted.recomputed = old.recomputed + 1 /\ counted.changed = tally
        /\ counted.next = old.next /\ counted.rows = old.rows
        /\ counted.aborted = old.aborted /\ counted.stored = old.stored /\ counted.errors = old.errors
    BY <1>2, <2>2 DEF ScoreJob
  <2> QED
    BY <2>4, <2>5 DEF written, tally
<1> HIDE DEF counted
<1>9. /\ job \in ScoreJob
      /\ job.next = old.next + 1 /\ job.pc \in {"scoring", "commit"}
      /\ job.pc = "scoring" => job.next <= Len(old.rows)
      /\ job.rows = old.rows /\ job.written = Append(old.written, write)
      /\ job.aborted = old.aborted /\ job.recomputed = old.recomputed + 1
      /\ job.changed = (IF changed THEN old.changed + 1 ELSE old.changed)
      /\ job.stored = old.stored /\ job.errors = old.errors
  BY <1>3, <1>8, SteppedFacts
<1> HIDE DEF job
<1>10. Job(j)' = job
  BY <1>1 DEF SetJob, Job, ScoreInv, ScoreTypes
<1>11. /\ Len(job.written) = Len(old.written) + 1
       /\ \A i \in 1 .. Len(old.written) : job.written[i] = old.written[i]
       /\ job.written[Len(old.written) + 1] = write
  BY <1>3, <1>5, <1>9
<1>12. \A i \in 1 .. Len(job.written) : i \in 1 .. Len(old.written) \/ i = Len(old.written) + 1
  BY <1>3, <1>11
<1> USE DEF old
<1>13. JobOK(j)'
  <2>1. job.changed <= job.recomputed
    BY <1>2, <1>7, <1>9 DEF JobOK, ScoreJob
  <2>2. job.errors = 0 => job.stored + Len(job.written) = job.recomputed
    BY <1>1, <1>2, <1>3, <1>9, <1>11 DEF JobOK, ScoreJob
  <2>3. job.next \in 1 .. Len(job.rows) + 1
    BY <1>3, <1>9
  <2> QED
    BY <1>1, <1>2, <1>9, <1>10, <2>1, <2>2, <2>3 DEF JobOK
<1>14. ~ Touches(j, row.prospect)
  BY <1>2, <1>3 DEF JobOK, WritesOK, Touches, row
<1>15. WritesOK(j)'
  <2>1. ASSUME NEW i \in 1 .. Len(job.written)
        PROVE  /\ job.written[i].total = ScoreOf(job.written[i].facts, job.written[i].weights)
               /\ \E r \in 1 .. job.next - 1 : job.rows[r].prospect = job.written[i].prospect
    <3>1. CASE i \in 1 .. Len(old.written)
      BY <1>2, <1>3, <1>9, <1>11, <3>1 DEF WritesOK
    <3>2. CASE i = Len(old.written) + 1
      <4>1. old.next \in 1 .. job.next - 1 /\ job.rows[old.next].prospect = write.prospect
        BY <1>3, <1>6, <1>9 DEF row
      <4> QED
        BY <1>6, <1>11, <3>2, <4>1
    <3> QED
      BY <1>12, <3>1, <3>2
  <2>2. ASSUME NEW a \in 1 .. Len(job.written), NEW b \in 1 .. Len(job.written),
               job.written[a].prospect = job.written[b].prospect
        PROVE  a = b
    BY <1>2, <1>6, <1>11, <1>12, <1>14, <2>2 DEF WritesOK, Touches
  <2> QED
    BY <1>10, <2>1, <2>2 DEF WritesOK
<1>16. \A p : Touches(j, p)' <=> Touches(j, p) \/ p = row.prospect
  <2> TAKE p
  <2>1. Touches(j, p)' <=> \E i \in 1 .. Len(job.written) : job.written[i].prospect = p
    BY <1>10 DEF Touches
  <2>2. Len(old.written) + 1 \in 1 .. Len(job.written) /\ \A i \in 1 .. Len(old.written) : i \in 1 .. Len(job.written)
    BY <1>3, <1>11
  <2> QED
    BY <1>6, <1>11, <1>12, <2>1, <2>2 DEF Touches
<1>17. \A k \in ScoreJobs \ {j} : ~ Touches(k, row.prospect)
  <2> TAKE k \in ScoreJobs \ {j}
  <2>1. Job(k).written \in Seq(Write)
    BY DEF ScoreInv, ScoreTypes, ScoreJob, Job
  <2>2. DOMAIN Job(k).written = 1 .. Len(Job(k).written)
    BY <2>1
  <2>3. row.prospect \notin Locked(k)
    BY <1>1
  <2> QED
    BY <2>2, <2>3 DEF Locked, Touches
<1>18. \A p \in Scored : \A k \in ScoreJobs \ {j} : Touches(j, p)' => ~ Touches(k, p)
  BY <1>16, <1>17 DEF ScoreInv
<1>19. shown' \in [Scored -> Score] /\ losses' \in Nat /\ mixed' \in BOOLEAN
  BY <1>1, <1>5 DEF ScoreInv, ScoreTypes, Score
<1>20. Working(j) /\ Working(j)'
  BY <1>1, <1>9, <1>10 DEF Working
<1>21. ~ mixed' => \A k \in ScoreJobs \ {j} : ~ Working(k)
  BY <1>1, <1>20 DEF ScoreInv
<1>22. ASSUME ~ mixed', losses' = 0 PROVE SoloOK(j)'
  <2>1. losses = 0 /\ SoloOK(j) /\ shown' = IF changed THEN [shown EXCEPT ![row.prospect] = total] ELSE shown
    BY <1>1, <1>20, <1>22 DEF ScoreInv, ScoreTypes
  <2>2. row.current = score[row.prospect] /\ shown[row.prospect] = score[row.prospect] /\ row.prospect \in Scored
    BY <1>3, <1>4, <1>14, <2>1 DEF SoloOK, ScoreRow, row
  <2>3. shown'[row.prospect] = total /\ \A p \in Scored : p # row.prospect => shown'[p] = shown[p]
    BY <1>7, <2>1, <2>2 DEF ScoreInv, ScoreTypes
  <2>4. ASSUME NEW i \in 1 .. Len(job.written) PROVE shown'[job.written[i].prospect] = job.written[i].total
    <3>1. CASE i \in 1 .. Len(old.written)
      <4>1. old.written[i].prospect \in Scored /\ old.written[i].prospect # row.prospect
        <5>1. old.written[i] \in Write
          BY <1>3, <3>1
        <5> QED
          BY <1>14, <3>1, <5>1 DEF Touches, Write
      <4> QED
        BY <1>11, <2>1, <2>3, <3>1, <4>1 DEF SoloOK
    <3>2. CASE i = Len(old.written) + 1
      BY <1>6, <1>11, <2>3, <3>2
    <3> QED
      BY <1>12, <3>1, <3>2
  <2>5. \A p \in Scored : ~ Touches(j, p)' => shown'[p] = score[p]
    BY <1>16, <2>1, <2>3 DEF SoloOK
  <2>6. \A r \in 1 .. Len(job.rows) : r >= job.next => job.rows[r].current = score[job.rows[r].prospect]
    BY <1>3, <1>9, <2>1 DEF SoloOK
  <2> QED
    BY <1>1, <1>9, <1>10, <2>1, <2>4, <2>5, <2>6 DEF SoloOK
<1> QED
  BY <1>1, <1>9, <1>13, <1>15, <1>18, <1>19, <1>20, <1>21, <1>22, JobGoesOn

(* A prospect that fails is counted, whether the transaction is aborted or *)
(* not.                                                                    *)
LEMMA UpsertFailsInv ==
    ASSUME ScoreInv, NEW j \in ScoreJobs, UpsertFails(j)
    PROVE  ScoreInv'
<1> DEFINE old == Job(j)
<1>0. PICK statement \in BOOLEAN :
        SetJob(j, Stepped([old EXCEPT !.aborted = @ \/ statement, !.errors = @ + 1]))
  BY DEF UpsertFails
<1> DEFINE failed == [old EXCEPT !.aborted = @ \/ statement, !.errors = @ + 1]
           job == Stepped(failed)
<1>1. /\ old.pc = "scoring" /\ SetJob(j, job)
      /\ losses' = IF old.aborted THEN losses ELSE losses + 1
      /\ UNCHANGED <<facts, score, basis, shown, updates, mixed>>
  BY <1>0 DEF UpsertFails
<1>2. old \in ScoreJob /\ JobOK(j) /\ WritesOK(j)
  BY DEF ScoreInv, ScoreTypes, Job
<1>3. old.next \in 1 .. Len(old.rows) /\ old.next \in Nat /\ Len(old.rows) \in Nat
  BY <1>1, <1>2 DEF JobOK, ScoreJob
<1>4. /\ failed.next = old.next /\ failed.rows = old.rows /\ failed.written = old.written
      /\ failed.aborted \in BOOLEAN /\ failed.errors = old.errors + 1
      /\ failed.recomputed = old.recomputed /\ failed.stored = old.stored /\ failed.changed = old.changed
  BY <1>2 DEF ScoreJob
<1>5. failed \in ScoreJob
  <2>1. old.errors + 1 \in Nat /\ (old.aborted \/ statement) \in BOOLEAN
    BY <1>2 DEF ScoreJob
  <2> QED
    BY <1>2, <2>1 DEF ScoreJob
<1> HIDE DEF failed
<1>6. /\ job \in ScoreJob
      /\ job.next = old.next + 1 /\ job.pc \in {"scoring", "commit"}
      /\ job.pc = "scoring" => job.next <= Len(old.rows)
      /\ job.rows = old.rows /\ job.written = old.written 
      /\ job.errors = old.errors + 1
      /\ job.recomputed = old.recomputed /\ job.stored = old.stored /\ job.changed = old.changed
  BY <1>3, <1>4, <1>5, SteppedFacts
<1> HIDE DEF job
<1>7. Job(j)' = job
  BY <1>1 DEF SetJob, Job, ScoreInv, ScoreTypes
<1>8. old.errors \in Nat /\ old.errors + 1 > 0
  BY <1>2 DEF ScoreJob
<1>9. JobOK(j)'
  <2>1. job.next \in 1 .. Len(job.rows) + 1
    BY <1>3, <1>6
  <2>2. \A x, y \in 1 .. Len(job.rows) : job.rows[x].prospect = job.rows[y].prospect => x = y
    BY <1>2, <1>6 DEF JobOK
  <2>3. job.changed <= job.recomputed
    BY <1>2, <1>6 DEF JobOK
  <2>4. job.errors > 0 /\ job.errors # 0
    BY <1>6, <1>8
  <2> HIDE DEF old
  <2> QED
    BY <1>6, <1>7, <2>1, <2>2, <2>3, <2>4 DEF JobOK
<1>10. WritesOK(j)'
  <2>1. \A r : r \in 1 .. old.next - 1 => r \in 1 .. job.next - 1
    BY <1>3, <1>6
  <2>2. \A i \in 1 .. Len(job.written) :
          /\ job.written[i].total = ScoreOf(job.written[i].facts, job.written[i].weights)
          /\ \E r \in 1 .. job.next - 1 : job.rows[r].prospect = job.written[i].prospect
    <3>1. \A i \in 1 .. Len(old.written) :
            /\ old.written[i].total = ScoreOf(old.written[i].facts, old.written[i].weights)
            /\ \E r \in 1 .. old.next - 1 : old.rows[r].prospect = old.written[i].prospect
      BY <1>2 DEF WritesOK
    <3>2. job.rows = old.rows /\ job.written = old.written
      BY <1>6
    <3> HIDE DEF old
    <3> QED
      BY <2>1, <3>1, <3>2
  <2>3. \A a, b \in 1 .. Len(job.written) : job.written[a].prospect = job.written[b].prospect => a = b
    BY <1>2, <1>6 DEF WritesOK
  <2> QED
    BY <1>7, <2>2, <2>3 DEF WritesOK
<1>11. \A p : Touches(j, p)' <=> Touches(j, p)
  BY <1>6, <1>7 DEF Touches
<1>12. \A p \in Scored : \A k \in ScoreJobs \ {j} : Touches(j, p)' => ~ Touches(k, p)
  BY <1>11 DEF ScoreInv
<1>13. Working(j) /\ Working(j)'
  BY <1>1, <1>6, <1>7 DEF Working
<1>14. ~ mixed' => \A k \in ScoreJobs \ {j} : ~ Working(k)
  BY <1>1, <1>13 DEF ScoreInv
<1>15. losses' # 0 \/ mixed'
  <2>1. losses \in Nat
    BY DEF ScoreInv, ScoreTypes
  <2>2. ~ mixed /\ losses = 0 => ~ old.aborted
    BY <1>13 DEF ScoreInv, SoloOK
  <2> QED
    BY <1>1, <2>1, <2>2
<1>16. shown' \in [Scored -> Score] /\ losses' \in Nat /\ mixed' \in BOOLEAN
  BY <1>1 DEF ScoreInv, ScoreTypes
<1> QED
  BY <1>1, <1>6, <1>9, <1>10, <1>12, <1>13, <1>14, <1>15, <1>16, JobGoesOn

(* A job that raises at its commit has no open write any more.             *)
LEMMA CommitRaisesInv ==
    ASSUME ScoreInv, NEW j \in ScoreJobs, CommitRaises(j)
    PROVE  ScoreInv'
<1> DEFINE old == Job(j)
           job == [old EXCEPT !.written = <<>>, !.pc = "raised"]
<1>1. /\ old.pc = "commit" /\ SetJob(j, job) /\ losses' = losses + 1
      /\ UNCHANGED <<facts, score, basis, shown, updates, mixed>>
  BY DEF CommitRaises
<1>2. old \in ScoreJob /\ JobOK(j)
  BY DEF ScoreInv, ScoreTypes, Job
<1>3. /\ job.pc = "raised" /\ job.written = <<>>
      /\ job.next = old.next /\ job.rows = old.rows /\ job.aborted = old.aborted /\ job.errors = old.errors
      /\ job.changed = old.changed /\ job.recomputed = old.recomputed
  BY <1>2 DEF ScoreJob
<1>8. job \in ScoreJob
  <2>1. <<>> \in Seq(Write)
    OBVIOUS
  <2> QED
    BY <1>2, <2>1 DEF ScoreJob
<1> HIDE DEF job
<1>4. Job(j)' = job
  BY <1>1 DEF SetJob, Job, ScoreInv, ScoreTypes
<1>5. JobOK(j)'
  BY <1>2, <1>3, <1>4 DEF JobOK
<1>6. WritesOK(j)' /\ ~ Working(j)' /\ \A p : ~ Touches(j, p)'
  BY <1>3, <1>4 DEF WritesOK, Working, Touches
<1>7. shown' \in [Scored -> Score] /\ losses' \in Nat /\ losses' # 0 /\ mixed' \in BOOLEAN
  BY <1>1 DEF ScoreInv, ScoreTypes
<1> QED
  BY <1>1, <1>3, <1>5, <1>6, <1>7, <1>8, JobGoesOn

(* The scores that a transaction makes visible.                            *)
LEMMA CommitInv ==
    ASSUME ScoreInv, NEW j \in ScoreJobs, Commit(j)
    PROVE  ScoreInv'
<1> DEFINE old == Job(j)
           written == IF old.aborted THEN <<>> ELSE old.written
           ended == old.next > Len(old.rows)
           touched == {w.prospect : w \in Range(written)}
           write(p) == CHOOSE w \in Range(written) : w.prospect = p
           job == [old EXCEPT !.stored = @ + Len(written), !.written = <<>>, !.aborted = FALSE,
                              !.pc = IF ended THEN "done" ELSE "scoring"]
<1>1. /\ old.pc = "commit" /\ SetJob(j, job)
      /\ score' = [p \in Scored |-> IF p \in touched THEN write(p).total ELSE score[p]]
      /\ basis' = [p \in Scored |-> IF p \in touched THEN write(p) ELSE basis[p]]
      /\ UNCHANGED <<facts, shown, updates, losses, mixed>>
  BY DEF Commit
<1>2. old \in ScoreJob /\ JobOK(j) /\ WritesOK(j)
  BY DEF ScoreInv, ScoreTypes, Job
<1>3. /\ old.rows \in Seq(ScoreRow) /\ old.written \in Seq(Write) /\ old.next \in 1 .. Len(old.rows) + 1
      /\ {old.next, old.stored, old.recomputed, old.errors, old.changed} \subseteq Nat
  BY <1>2 DEF JobOK, ScoreJob
<1>4. /\ written \in Seq(Write) /\ Len(written) \in Nat
      /\ ~ old.aborted => written = old.written
      /\ old.aborted => written = <<>>
  BY <1>3
<1> HIDE DEF written
<1>5. /\ job \in ScoreJob
      /\ job.pc = (IF ended THEN "done" ELSE "scoring")
      /\ job.written = <<>> /\ job.aborted = FALSE /\ job.stored = old.stored + Len(written)
      /\ job.next = old.next /\ job.rows = old.rows
      /\ job.recomputed = old.recomputed /\ job.changed = old.changed /\ job.errors = old.errors
  <2> DEFINE pc == IF ended THEN "done" ELSE "scoring"
             stored == old.stored + Len(written)
  <2>1. job = [old EXCEPT !.stored = stored, !.written = <<>>, !.aborted = FALSE, !.pc = pc]
    OBVIOUS
  <2>2. stored \in Nat /\ pc \in {"done", "scoring"}
    BY <1>3, <1>4
  <2> HIDE DEF pc, stored, job
  <2>3. job \in ScoreJob
    <3>1. <<>> \in Seq(Write)
      OBVIOUS
    <3> QED
      BY <1>2, <2>1, <2>2, <3>1 DEF ScoreJob
  <2>4. /\ job.pc = pc /\ job.stored = stored
        /\ job.written = <<>> /\ job.aborted = FALSE
        /\ job.next = old.next /\ job.rows = old.rows
        /\ job.recomputed = old.recomputed /\ job.changed = old.changed /\ job.errors = old.errors
    BY <1>2, <2>1 DEF ScoreJob
  <2> QED
    BY <2>3, <2>4 DEF pc, stored
<1> HIDE DEF job
<1>6. /\ scoreJob' \in [ScoreJobs -> ScoreJob] /\ Job(j)' = job
      /\ \A k \in ScoreJobs \ {j} : Job(k)' = Job(k)
  BY <1>1, <1>5 DEF SetJob, Job, ScoreInv, ScoreTypes
\* The writes of the transaction, one of each prospect.
<1>7. ASSUME NEW p \in touched
      PROVE  /\ write(p) \in Write /\ write(p).prospect = p
             /\ \E a \in 1 .. Len(old.written) : write(p) = old.written[a]
             /\ write(p).total = ScoreOf(write(p).facts, write(p).weights)
  <2>1. Range(written) = {written[a] : a \in 1 .. Len(written)}
    BY <1>4 DEF Range
  <2>2. \E w \in Range(written) : w.prospect = p
    OBVIOUS
  <2>3. write(p) \in Range(written) /\ write(p).prospect = p
    BY <2>2
  <2> HIDE DEF write
  <2>4. PICK a \in 1 .. Len(written) : write(p) = written[a]
    BY <2>1, <2>3
  <2>5. written = old.written
    BY <1>4, <2>4
  <2> QED
    BY <1>2, <1>4, <2>3, <2>4, <2>5 DEF WritesOK
<1>8. \A p : ~ old.aborted => (p \in touched <=> Touches(j, p))
  <2>1. Range(written) = {written[a] : a \in 1 .. Len(written)}
    BY <1>4 DEF Range
  <2> QED
    BY <1>4, <2>1 DEF Touches
<1> HIDE DEF touched, write
<1>9. \A p \in Scored : score'[p] \in Score
  <2> TAKE p \in Scored
  <2>1. CASE p \in touched
    BY <1>1, <1>7, <2>1 DEF Write, Score
  <2>2. CASE p \notin touched
    BY <1>1, <2>2 DEF ScoreInv, ScoreTypes
  <2> QED
    BY <2>1, <2>2
<1>10. score' \in [Scored -> Score] /\ DOMAIN basis' = Scored
  BY <1>1, <1>9
<1>11. ScoreTypes'
  BY <1>1, <1>6, <1>10 DEF ScoreInv, ScoreTypes
<1>12. JobOK(j)'
  <2>1. job.errors = 0 => job.stored + 0 = job.recomputed
    BY <1>1, <1>2, <1>3, <1>4, <1>5 DEF JobOK
  <2>2. Len(job.written) = 0
    BY <1>5
  <2>3. job.pc = "scoring" => job.next <= Len(job.rows)
    BY <1>3, <1>5
  <2> QED
    BY <1>2, <1>5, <1>6, <2>1, <2>2, <2>3 DEF JobOK
<1>13. WritesOK(j)' /\ \A p : ~ Touches(j, p)'
  BY <1>5, <1>6 DEF WritesOK, Touches
<1>14. ASSUME NEW k \in ScoreJobs \ {j}
       PROVE  /\ JobOK(k)' /\ WritesOK(k)'
              /\ Working(k)' <=> Working(k)
              /\ \A p : Touches(k, p)' <=> Touches(k, p)
  <2>1. Job(k)' = Job(k)
    BY <1>6
  <2>2. JobOK(k)' /\ WritesOK(k)'
    BY <2>1 DEF ScoreInv, JobOK, WritesOK
  <2>3. Working(k)' <=> Working(k)
    BY <2>1 DEF Working
  <2>4. \A p : Touches(k, p)' <=> Touches(k, p)
    BY <2>1 DEF Touches
  <2> QED
    BY <2>2, <2>3, <2>4
<1>15. \A i, k \in ScoreJobs : i # k => \A p \in Scored : ~ (Touches(i, p)' /\ Touches(k, p)')
  BY <1>13, <1>14 DEF ScoreInv
<1>16. \A p \in Scored : BasisOK(p)'
  <2> TAKE p \in Scored
  <2>1. CASE p \in touched
    BY <1>1, <1>7, <2>1 DEF BasisOK, Write
  <2>2. CASE p \notin touched
    BY <1>1, <2>2 DEF ScoreInv, BasisOK
  <2> QED
    BY <2>1, <2>2
<1>17. Working(j)
  BY <1>1 DEF Working
<1>18. ~ mixed' => \A k \in ScoreJobs \ {j} : ~ Working(k) /\ ~ Working(k)'
  BY <1>1, <1>14, <1>17 DEF ScoreInv
<1>19. ASSUME ~ mixed', losses' = 0
       PROVE  shown' = score' /\ (Working(j)' => SoloOK(j)')
  <2>1. SoloOK(j) /\ ~ old.aborted
    BY <1>1, <1>17, <1>19 DEF ScoreInv, SoloOK
  <2>2. \A p \in Scored : shown[p] = score'[p]
    <3> TAKE p \in Scored
    <3>1. CASE p \in touched
      BY <1>1, <1>7, <2>1, <3>1 DEF SoloOK
    <3>2. CASE p \notin touched
      BY <1>1, <1>8, <2>1, <3>2 DEF SoloOK
    <3> QED
      BY <3>1, <3>2
  <2>3. shown' = score'
    BY <1>1, <1>10, <2>2 DEF ScoreInv, ScoreTypes
  <2>4. ASSUME NEW r \in 1 .. Len(old.rows), r >= old.next
        PROVE  old.rows[r].current = score'[old.rows[r].prospect]
    <3>1. ~ Touches(j, old.rows[r].prospect)
      <4>1. \A q \in 1 .. old.next - 1 : q \in 1 .. Len(old.rows) /\ q # r
        BY <1>3, <2>4
      <4>2. \A q \in 1 .. old.next - 1 : old.rows[q].prospect # old.rows[r].prospect
        BY <1>2, <4>1 DEF JobOK
      <4> QED
        BY <1>2, <4>2 DEF WritesOK, Touches
    <3>2. old.rows[r].prospect \in Scored
      <4>1. old.rows[r] \in ScoreRow
        BY <1>3
      <4> QED
        BY <4>1 DEF ScoreRow
    <3> QED
      BY <1>1, <1>8, <2>1, <2>4, <3>1, <3>2 DEF SoloOK
  <2>5. SoloOK(j)'
    BY <1>1, <1>5, <1>6, <2>2, <2>4 DEF SoloOK
  <2> QED
    BY <2>3, <2>5
<1>20. ~ mixed' => \A i, k \in ScoreJobs : Working(i)' /\ Working(k)' => i = k
  BY <1>18
<1>21. ~ mixed' /\ losses' = 0 =>
         /\ (\A k \in ScoreJobs : ~ Working(k)') => shown' = score'
         /\ \A k \in ScoreJobs : Working(k)' => SoloOK(k)'
  BY <1>18, <1>19
<1> QED
  BY <1>11, <1>12, <1>13, <1>14, <1>15, <1>16, <1>20, <1>21 DEF ScoreInv

(* What others write to the tables changes nothing that a job has read or  *)
(* stored.                                                                 *)
LEMMA UpdateFactsInv ==
    ASSUME ScoreInv, UpdateFacts
    PROVE  ScoreInv'
<1>1. facts' \in [Scored -> Facts]
  BY DEF ScoreInv, ScoreTypes, UpdateFacts
<1>2. ScoreTypes'
  BY <1>1 DEF ScoreInv, ScoreTypes, UpdateFacts
<1> QED
  BY <1>2 DEF ScoreInv, UpdateFacts, Job, JobOK, WritesOK, Touches, Working, SoloOK, BasisOK

(* Every step of the jobs keeps the invariant.                             *)
LEMMA ScoreNextInv == ScoreInv /\ [ScoreNext]_scoreVars => ScoreInv'
<1> SUFFICES ASSUME ScoreInv, [ScoreNext]_scoreVars PROVE ScoreInv'
  OBVIOUS
<1>1. ASSUME NEW j \in ScoreJobs,
             Load(j) \/ Upsert(j) \/ UpsertFails(j) \/ Commit(j) \/ CommitRaises(j)
      PROVE  ScoreInv'
  BY <1>1, LoadInv, UpsertInv, UpsertFailsInv, CommitInv, CommitRaisesInv
<1>2. CASE UpdateFacts
  BY <1>2, UpdateFactsInv
<1>3. CASE UNCHANGED scoreVars
  BY <1>3 DEF scoreVars, ScoreInv, ScoreTypes, Job, JobOK, WritesOK, Touches, Working, SoloOK, BasisOK
<1> QED
  BY <1>1, <1>2, <1>3 DEF ScoreNext

(* Scores are percentages, and no prospect is in two open transactions.    *)
LEMMA ScoreTypesHold == ASSUME ScoreInv PROVE ScoreTypeOK
<1>1. \A p \in Scored : facts[p] \in Facts /\ {score[p], shown[p]} \subseteq 0..100 \cup {NoScore}
  BY DEF ScoreInv, ScoreTypes, Score
<1>2. ASSUME NEW j \in ScoreJobs
      PROVE  /\ Job(j).pc \in {"idle", "scoring", "commit", "done", "raised"}
             /\ Job(j).next \in 1..Len(Job(j).rows) + 1
             /\ Job(j).changed <= Job(j).recomputed
  BY DEF ScoreInv, ScoreTypes, ScoreJob, Job, JobOK
<1>3. ASSUME NEW j \in ScoreJobs, NEW p \in Locked(j) PROVE p \in Scored /\ Touches(j, p)
  <2>1. Job(j).written \in Seq(Write)
    BY DEF ScoreInv, ScoreTypes, ScoreJob, Job
  <2>2. PICK i \in 1 .. Len(Job(j).written) : p = Job(j).written[i].prospect
    BY <2>1 DEF Locked
  <2>3. Job(j).written[i] \in Write
    BY <2>1
  <2> QED
    BY <2>2, <2>3 DEF Touches, Write
<1>4. \A j \in ScoreJobs : \A k \in ScoreJobs \ {j} : Locked(j) \cap Locked(k) = {}
  BY <1>3 DEF ScoreInv
<1> QED
  BY <1>1, <1>2, <1>4 DEF ScoreTypeOK

(* A job that ends without errors has stored what it counts.               *)
LEMMA CountedHolds == ASSUME ScoreInv PROVE CountedIsStored
<1> SUFFICES ASSUME NEW j \in ScoreJobs, Job(j).pc = "done", Job(j).errors = 0
             PROVE  Job(j).stored = Job(j).recomputed
  BY DEF CountedIsStored
<1>1. Job(j) \in ScoreJob /\ JobOK(j)
  BY DEF ScoreInv, ScoreTypes, Job
<1>2. Len(Job(j).written) = 0 /\ Job(j).stored \in Nat
  BY <1>1 DEF JobOK, ScoreJob
<1> QED
  BY <1>1, <1>2 DEF JobOK

(* A stored score is that of the facts and weights of its write, and so    *)
(* within their bounds.                                                    *)
LEMMA BoundsHold == ASSUME ScoreInv PROVE ScoreIsBounded
<1> SUFFICES ASSUME NEW p \in Scored, score[p] # NoScore
             PROVE  LET factors == Factors(basis[p].facts)
                        values == {factors[n] : n \in {m \in Available(factors) : basis[p].weights[m] > 0}}
                        bonus == Bonus(basis[p].facts.sources)
                    IN  IF values = {} THEN score[p] = bonus
                        ELSE /\ Min(values) <= score[p]
                             /\ score[p] <= Least(Max(values) + bonus, 100)
  BY DEF ScoreIsBounded
<1>1. basis[p].facts \in Account /\ basis[p].weights \in Weights
      /\ score[p] = ScoreOf(basis[p].facts, basis[p].weights)
  BY ScoredFacts DEF ScoreInv, BasisOK
<1> QED
  BY <1>1, ScoreIsBetween DEF Weighty

(* What the jobs count and show is what they stored, and what they stored  *)
(* is within the factors (ScoringSafety), whatever jobs overlap and        *)
(* whichever of their statements fail.                                     *)
THEOREM ScoringHolds == ScoreSpec => []ScoringSafety
<1>1. ScoreInv => ScoringSafety
  <2>1. ScoreInv => ShownIsStored
    BY DEF ScoreInv, ShownIsStored
  <2> QED
    BY <2>1, ScoreTypesHold, CountedHolds, BoundsHold DEF ScoringSafety
<1> QED
  BY ScoreInitInv, ScoreNextInv, <1>1, PTL DEF ScoreSpec

-----------------------------------------------------------------------------
\* The computation of a heatmap.

LevelNames == {"absent", "junior", "mid", "senior"}
Level == [Skills -> LevelNames]

(* The inputs of a computation: stored demands and the values of their     *)
(* opportunities.                                                          *)
Inputs(demand, value) ==
    /\ DOMAIN demand \subseteq Opportunities
    /\ \A o \in DOMAIN demand : demand[o] \in SUBSET Skills /\ value[o] \in Nat

(* The weight of a skill in the heatmap of somebody with these levels.     *)
Worth(k, demand, value, level) ==
    Weight(BlockedValue(k, demand, value), k \in SingleBlockers(demand, level))

(* The window holds finitely many opportunities.                           *)
LEMMA OpportunitiesAreFinite == IsFiniteSet(Opportunities) /\ Recency \in Seq(Opportunities)
<1>1. Recency \in Seq(Opportunities)
  BY GapAssumption DEF Opportunities
<1> DEFINE n == Len(Recency)
<1>2. n \in Nat /\ DOMAIN Recency = 1 .. n
  BY <1>1
<1> HIDE DEF n
<1>3. Recency \in Surjection(1 .. n, Opportunities)
  BY <1>1, <1>2 DEF Surjection, Opportunities, Range
<1>4. IsFiniteSet(1 .. n)
  BY <1>2, FS_Interval
<1> QED
  BY <1>1, <1>3, <1>4, FS_Surjection

(* The firm has of each skill the highest level of a consultant.           *)
LEMMA FirmHasTheHighest ==
    ASSUME NEW levels \in [Consultants -> Level], NEW k \in Skills
    PROVE  /\ FirmLevels(levels)[k] \in LevelNames
           /\ FirmLevels(levels) \in Level
           /\ \A c \in Consultants :
                ProficiencyRank(levels[c][k]) <= ProficiencyRank(FirmLevels(levels)[k])
<1> DEFINE known(q) == {"absent"} \cup {levels[c][q] : c \in Consultants}
           best(q) == CHOOSE l \in known(q) : \A m \in known(q) : ProficiencyRank(l) >= ProficiencyRank(m)
<1>1. \A l \in LevelNames : ProficiencyRank(l) \in 0 .. 3
  BY DEF LevelNames, ProficiencyRank
<1>2. ASSUME NEW q \in Skills
      PROVE  /\ best(q) \in known(q) /\ known(q) \subseteq LevelNames
             /\ \A m \in known(q) : ProficiencyRank(best(q)) >= ProficiencyRank(m)
  <2>1. known(q) \subseteq LevelNames /\ "absent" \in known(q)
    BY DEF Level, LevelNames
  <2> HIDE DEF known
  <2>2. \E l \in known(q) : \A m \in known(q) : ProficiencyRank(l) >= ProficiencyRank(m)
    <3>1. CASE "senior" \in known(q)
      BY <2>1, <3>1 DEF LevelNames, ProficiencyRank
    <3>2. CASE "senior" \notin known(q) /\ "mid" \in known(q)
      BY <2>1, <3>2 DEF LevelNames, ProficiencyRank
    <3>3. CASE "senior" \notin known(q) /\ "mid" \notin known(q) /\ "junior" \in known(q)
      BY <2>1, <3>3 DEF LevelNames, ProficiencyRank
    <3>4. CASE "senior" \notin known(q) /\ "mid" \notin known(q) /\ "junior" \notin known(q)
      BY <2>1, <3>4 DEF LevelNames, ProficiencyRank
    <3> QED
      BY <3>1, <3>2, <3>3, <3>4
  <2> QED
    BY <2>1, <2>2
<1>3. FirmLevels(levels) = [q \in Skills |-> best(q)]
  BY DEF FirmLevels
<1>4. \A c \in Consultants : levels[c][k] \in known(k)
  OBVIOUS
<1> HIDE DEF best, known
<1>5. \A q \in Skills : best(q) \in LevelNames
  BY <1>2
<1>6. FirmLevels(levels) \in Level
  BY <1>3, <1>5 DEF Level
<1>7. FirmLevels(levels)[k] = best(k)
  BY <1>3
<1> QED
  BY <1>1, <1>2, <1>4, <1>5, <1>6, <1>7

(* Each consultant and the firm have a level of each skill.                *)
LEMMA LevelsOfIsLevel ==
    ASSUME NEW levels \in [Consultants -> Level], NEW b \in Beneficiaries
    PROVE  LevelsOf(b, levels) \in Level
<1>1. CASE Skills = {}
  BY <1>1 DEF LevelsOf, Beneficiaries, FirmLevels, Level
<1>2. CASE Skills # {}
  BY <1>2, FirmHasTheHighest DEF LevelsOf, Beneficiaries
<1> QED
  BY <1>1, <1>2

(* Those who require a skill are finitely many, and so is their value.     *)
LEMMA Amounts ==
    ASSUME NEW demand, NEW value, Inputs(demand, value), NEW k
    PROVE  /\ Cardinality(Requiring(k, demand)) \in Nat
           /\ BlockedValue(k, demand, value) \in Nat
           /\ Requiring(k, demand) = {} => BlockedValue(k, demand, value) = 0
           /\ \A level : Worth(k, demand, value, level) \in Nat
<1>1. IsFiniteSet(Requiring(k, demand))
  BY OpportunitiesAreFinite, FS_Subset DEF Inputs, Requiring
<1>2. \A o \in Requiring(k, demand) : value[o] \in Nat
  BY DEF Inputs, Requiring
<1>3. BlockedValue(k, demand, value) \in Nat
  BY <1>1, <1>2, TotalIsSum DEF BlockedValue
<1>4. Requiring(k, demand) = {} => BlockedValue(k, demand, value) = 0
  BY <1>1, <1>2, TotalIsSum DEF BlockedValue
<1>5. \A level : Worth(k, demand, value, level) \in Nat
  BY <1>3, GapAssumption DEF Worth, Weight
<1> QED
  BY <1>1, <1>3, <1>4, <1>5, FS_CardinalityType

(* A skill is a single blocker when it is all that some opportunity lacks. *)
LEMMA Blockers ==
    ASSUME NEW demand, NEW value, Inputs(demand, value), NEW level, NEW k
    PROVE  k \in SingleBlockers(demand, level)
             <=> \E o \in DOMAIN demand : {j \in demand[o] : level[j] = "absent"} = {k}
<1> DEFINE unmet(o) == {j \in demand[o] : Absent(level[j])}
<1>1. ASSUME NEW o \in DOMAIN demand PROVE IsFiniteSet(unmet(o))
  <2>1. unmet(o) \in SUBSET Skills
    BY DEF Inputs
  <2> QED
    BY <2>1, GapAssumption, FS_Subset
<1>2. \A o : unmet(o) = {j \in demand[o] : level[j] = "absent"}
  BY DEF Absent
<1>3. k \in SingleBlockers(demand, level) <=> \E o \in DOMAIN demand : Cardinality(unmet(o)) = 1 /\ k \in unmet(o)
  BY DEF SingleBlockers
<1> HIDE DEF unmet
<1>4. \A o \in DOMAIN demand : (Cardinality(unmet(o)) = 1 /\ k \in unmet(o)) <=> unmet(o) = {k}
  <2> TAKE o \in DOMAIN demand
  <2>1. ASSUME Cardinality(unmet(o)) = 1, k \in unmet(o) PROVE unmet(o) = {k}
    <3>1. PICK x : unmet(o) = {x}
      BY <1>1, <2>1, FS_Singleton
    <3> QED
      BY <2>1, <3>1
  <2>2. ASSUME unmet(o) = {k} PROVE Cardinality(unmet(o)) = 1 /\ k \in unmet(o)
    BY <2>2, FS_Singleton
  <2> QED
    BY <2>1, <2>2
<1> QED
  BY <1>2, <1>3, <1>4

(* The gap in a skill.                                                     *)
GapOf(k, demand, value, level) ==
    LET blocked == BlockedValue(k, demand, value)
        sole == k \in SingleBlockers(demand, level)
    IN  [name |-> k, kind |-> ClassifyGap(level[k]), count |-> Cardinality(Requiring(k, demand)),
         blocked |-> blocked, sole |-> sole, weight |-> Weight(blocked, sole)]

(* The skills in which there is a gap.                                     *)
Lacked(demand, level) == {k \in Skills : IsGap(level[k]) /\ Requiring(k, demand) # {}}

GapRecords == [name : Skills, kind : {"hard", "soft"}, count : Nat, blocked : Nat, sole : BOOLEAN, weight : Nat]

(* The gaps are finitely many, one for each skill that is lacked.          *)
LEMMA Gaps ==
    ASSUME NEW demand, NEW value, Inputs(demand, value), NEW level
    PROVE  /\ IsFiniteSet(WeightedGaps(demand, value, level))
           /\ WeightedGaps(demand, value, level) = {GapOf(k, demand, value, level) : k \in Lacked(demand, level)}
           /\ WeightedGaps(demand, value, level) \subseteq GapRecords
<1> DEFINE gaps == WeightedGaps(demand, value, level)
<1>1. gaps = {GapOf(k, demand, value, level) : k \in Lacked(demand, level)}
  BY DEF WeightedGaps, GapOf, Lacked
<1>2. IsFiniteSet(gaps)
  <2> DEFINE f == [k \in Lacked(demand, level) |-> GapOf(k, demand, value, level)]
  <2>1. f \in Surjection(Lacked(demand, level), gaps)
    BY <1>1 DEF Surjection
  <2>2. IsFiniteSet(Lacked(demand, level))
    BY GapAssumption, FS_Subset DEF Lacked
  <2> HIDE DEF f, gaps
  <2> QED
    BY <2>1, <2>2, FS_Surjection
<1>3. ASSUME NEW k \in Lacked(demand, level) PROVE GapOf(k, demand, value, level) \in GapRecords
  <2>1. /\ Cardinality(Requiring(k, demand)) \in Nat
        /\ BlockedValue(k, demand, value) \in Nat
        /\ Weight(BlockedValue(k, demand, value), k \in SingleBlockers(demand, level)) \in Nat
    BY Amounts DEF Worth
  <2>2. k \in Skills /\ ClassifyGap(level[k]) \in {"hard", "soft"}
    BY DEF Lacked, ClassifyGap
  <2> QED
    BY <2>1, <2>2 DEF GapOf, GapRecords
<1> QED
  BY <1>1, <1>2, <1>3

(* A heatmap: entries with names of their own, not more than the maximum.  *)
IsHeatmap(h) ==
    \/ h = NoHeatmap
    \/ /\ IsFiniteSet(h)
       /\ Cardinality(h) <= ENTRIES
       /\ \A e \in h : e \in Entries
       /\ \A d, e \in h : d.name = e.name => d = e

(* The heatmap that is stored when these gaps are kept.                    *)
MapOf(kept, before) == {WithTrend(g, before) : g \in kept}

(* What is kept of the gaps makes a heatmap with as many entries.          *)
LEMMA KeptGaps ==
    ASSUME NEW demand, NEW value, Inputs(demand, value), NEW level, NEW before,
           NEW kept \in Ranked(WeightedGaps(demand, value, level))
    PROVE  /\ IsFiniteSet(kept) /\ kept \subseteq WeightedGaps(demand, value, level)
           /\ IsHeatmap(MapOf(kept, before))
           /\ Cardinality(MapOf(kept, before)) = Cardinality(kept)
<1> DEFINE gaps == WeightedGaps(demand, value, level)
           map == MapOf(kept, before)
           f == [g \in kept |-> WithTrend(g, before)]
<1>1. kept \subseteq gaps /\ IsFiniteSet(gaps) /\ IsFiniteSet(kept)
  BY Gaps, FS_Subset DEF Ranked
<1>2. Cardinality(kept) <= ENTRIES
  <2>1. Cardinality(gaps) \in Nat
    BY <1>1, FS_CardinalityType
  <2>2. Cardinality(kept) = IF Cardinality(gaps) < ENTRIES THEN Cardinality(gaps) ELSE ENTRIES
    BY DEF Ranked
  <2> QED
    BY <2>1, <2>2, GapAssumption
<1>3. ASSUME NEW g \in kept, NEW h \in kept, g.name = h.name PROVE g = h
  BY <1>1, <1>3, Gaps DEF GapOf
<1>4. f \in Surjection(kept, map) /\ f \in Injection(kept, map)
  <2>1. f \in Surjection(kept, map)
    BY DEF Surjection, MapOf
  <2>2. \A g \in kept : f[g].name = g.name
    BY DEF WithTrend
  <2> HIDE DEF f, map
  <2> QED
    BY <1>3, <2>1, <2>2 DEF Injection, IsInjective, Surjection
<1>5. IsFiniteSet(map) /\ Cardinality(map) = Cardinality(kept)
  <2> HIDE DEF f, map
  <2> QED
    BY <1>1, <1>4, FS_Surjection
<1>6. ASSUME NEW g \in kept PROVE WithTrend(g, before) \in Entries
  <2>1. g \in GapRecords
    BY <1>1, Gaps
  <2>2. Trend(g, before) \in {"new", "growing", "shrinking", "none"}
    BY DEF Trend
  <2> QED
    BY <2>1, <2>2 DEF GapRecords, Entries, WithTrend
<1>7. \A d, e \in map : d.name = e.name => d = e
  BY <1>3 DEF MapOf, WithTrend
<1>8. \A e \in map : e \in Entries
  BY <1>6 DEF MapOf
<1> QED
  BY <1>1, <1>2, <1>5, <1>7, <1>8 DEF IsHeatmap

(* An entry has the trend that its value has since the heatmap before.     *)
LEMMA KeptTrends ==
    ASSUME NEW kept, NEW before, NEW e \in MapOf(kept, before)
    PROVE  e.trend = Trend(e, before)
BY DEF MapOf, WithTrend, Trend

(* What the firm loses for want of a skill: nothing when it has it.        *)
LossOf(k, demand, value, level) ==
    IF IsGap(level[k]) THEN Worth(k, demand, value, level) ELSE 0

(* What is left out of the gaps does not outrank what is kept: of a skill  *)
(* outside the heatmap the loss is 0, or the heatmap is full and each of   *)
(* its entries loses as much.                                              *)
LEMMA KeptOutrank ==
    ASSUME NEW demand, NEW value, Inputs(demand, value), NEW level \in Level, NEW before,
           NEW kept \in Ranked(WeightedGaps(demand, value, level)),
           NEW k \in Skills, \A g \in kept : g.name # k
    PROVE  /\ LossOf(k, demand, value, level) > 0 => Cardinality(kept) = ENTRIES
           /\ \A g \in kept : LossOf(k, demand, value, level) <= LossOf(g.name, demand, value, level)
<1> DEFINE gaps == WeightedGaps(demand, value, level)
<1>1. \A q : LossOf(q, demand, value, level) \in Nat
  BY Amounts DEF LossOf
<1>2. \A g \in gaps : g.weight = LossOf(g.name, demand, value, level) /\ g.weight \in Nat
  <2> TAKE g \in gaps
  <2>1. PICK q \in Lacked(demand, level) : g = GapOf(q, demand, value, level)
    BY Gaps
  <2>2. g.weight = Worth(q, demand, value, level) /\ g.name = q
    BY <2>1 DEF GapOf, Worth
  <2> QED
    BY <2>2, Amounts DEF LossOf, Lacked
<1>3. CASE k \in Lacked(demand, level)
  <2> DEFINE h == GapOf(k, demand, value, level)
  <2>1. h \in gaps /\ h.name = k /\ h \notin kept
    BY <1>3, Gaps DEF GapOf
  <2> HIDE DEF h
  <2>2. \A g \in kept : g \in gaps /\ g.weight >= h.weight
    BY <2>1 DEF Ranked
  <2>3. Cardinality(kept) = ENTRIES
    <3>1. IsFiniteSet(gaps) /\ Cardinality(gaps) \in Nat /\ kept \in SUBSET gaps
      BY Gaps, FS_CardinalityType DEF Ranked
    <3>2. Cardinality(kept) # Cardinality(gaps)
      BY <2>1, <3>1, FS_Subset
    <3> QED
      BY <3>2 DEF Ranked
  <2> QED
    BY <1>1, <1>2, <2>1, <2>2, <2>3
<1>4. CASE k \notin Lacked(demand, level)
  <2>1. LossOf(k, demand, value, level) = 0
    <3>1. CASE ~ IsGap(level[k])
      BY <3>1 DEF LossOf
    <3>2. CASE IsGap(level[k])
      <4>1. Requiring(k, demand) = {}
        BY <1>4, <3>2 DEF Lacked
      <4>2. BlockedValue(k, demand, value) = 0
        BY <4>1, Amounts
      <4> QED
        BY <4>2, GapAssumption DEF LossOf, Worth, Weight
    <3> QED
      BY <3>1, <3>2
  <2> QED
    BY <1>1, <2>1
<1> QED
  BY <1>3, <1>4

-----------------------------------------------------------------------------
\* The invariant.

Asking == {"none", "asking", "failed", "caching", "conflict", "extracted"}
Extraction == [pc : Asking, of : Opportunities \cup {"none"}, reply : Demands \cup {NoRow, {}},
               timeouts : Nat, limits : Nat, attempts : Nat]
Rows == [Opportunities -> Demands \cup {NoRow}]

(* An extraction: the attempts of both kinds stay below their maxima while *)
(* the model is asked, and what it answered is stored before it is cached. *)
ExtractionOK(p) ==
    LET x == extracting[p] IN
    /\ x.pc # "none" => x.of \in Opportunities
    /\ x.attempts = x.timeouts + x.limits
    /\ x.pc = "asking" => x.timeouts < TIMEOUT_TRIES /\ x.limits < LIMIT_TRIES
    /\ x.attempts <= TIMEOUT_TRIES + LIMIT_TRIES - 1
    /\ x.pc \in {"caching", "extracted"} => demanded[x.of] # NoRow
    /\ x.pc = "caching" => x.reply = demanded[x.of]

HeatmapOK(b) ==
    /\ IsHeatmap(heatmap[b].last)
    /\ IsHeatmap(heatmap[b].before)
    /\ heatmap[b].last # NoHeatmap => \A e \in heatmap[b].last : e.trend = Trend(e, heatmap[b].before)

NightRecord ==
    night = [pc |-> night.pc, todo |-> night.todo, broken |-> night.broken, extracted |-> night.extracted,
             demand |-> night.demand, value |-> night.value, levels |-> night.levels, left |-> night.left,
             stored |-> night.stored]

(* What the cycle has loaded, and that the heatmaps which it has stored    *)
(* are made of it.                                                         *)
LoadedOK ==
    /\ Inputs(night.demand, night.value)
    /\ night.levels \in [Consultants -> Level]
    /\ night.left \subseteq Consultants
    /\ night.stored \subseteq Beneficiaries
    /\ \A o \in night.extracted :
        /\ o \in Opportunities
        /\ demanded[o] # NoRow
        /\ \A k \in demanded[o] : o \in Requiring(k, night.demand)
    /\ \A b \in night.stored :
        \E kept \in Ranked(WeightedGaps(night.demand, night.value, LevelsOf(b, night.levels))) :
            heatmap[b].last = MapOf(kept, heatmap[b].before)

NightOK ==
    /\ NightRecord
    /\ night.pc \in {"idle", "extracting", "mapping", "mapped"}
    /\ night.todo \in Seq(Opportunities)
    /\ night.broken \in BOOLEAN
    /\ extracting["night"].pc # "none" => night.pc = "extracting" /\ night.todo # <<>>
    /\ night.pc = "extracting" => \A o \in night.extracted : o \in Opportunities /\ demanded[o] # NoRow
    /\ night.pc \in {"idle", "extracting"} => night.stored = {}
    /\ night.pc \in {"mapping", "mapped"} => LoadedOK

GapInv ==
    /\ demanded \in Rows
    /\ cached \in Rows
    /\ profile \in [Consultants -> Level]
    /\ extracting \in [Extractors -> Extraction]
    /\ DOMAIN heatmap = Beneficiaries
    /\ CachedIsStored
    /\ \A p \in Extractors : ExtractionOK(p)
    /\ \A b \in Beneficiaries : HeatmapOK(b)
    /\ NightOK

(* Nothing is extracted and no cycle has begun.                            *)
LEMMA GapInitInv == GapInit => GapInv
<1> SUFFICES ASSUME GapInit PROVE GapInv
  OBVIOUS
<1>1. demanded \in Rows /\ cached \in Rows /\ CachedIsStored
  BY DEF GapInit, Rows, CachedIsStored
<1>2. profile \in [Consultants -> Level]
  BY GapAssumption DEF GapInit, Level, LevelNames
<1>3. extracting \in [Extractors -> Extraction] /\ \A p \in Extractors : ExtractionOK(p)
  BY GapAssumption DEF GapInit, Extraction, Asking, NoExtraction, ExtractionOK
<1>4. DOMAIN heatmap = Beneficiaries /\ \A b \in Beneficiaries : HeatmapOK(b)
  BY DEF GapInit, HeatmapOK, IsHeatmap
<1>5. NightOK
  BY DEF GapInit, NightOK, NightRecord, NoNight, NoExtraction, Extractors
<1> QED
  BY <1>1, <1>2, <1>3, <1>4, <1>5 DEF GapInv

-----------------------------------------------------------------------------
\* The steps of an extraction.

(* An extraction goes on and no row is changed.                            *)
LEMMA ExtractionGoesOn ==
    ASSUME GapInv, NEW p \in Extractors, NEW x \in Extraction, SetExtraction(p, x),
           UNCHANGED <<demanded, cached, profile, heatmap, night>>,
           ExtractionOK(p)',
           p = "night" /\ x.pc # "none" => night.pc = "extracting" /\ night.todo # <<>>
    PROVE  GapInv'
<1>1. extracting' \in [Extractors -> Extraction]
  BY DEF GapInv, SetExtraction
<1>2. extracting'[p] = x /\ \A q \in Extractors \ {p} : extracting'[q] = extracting[q]
  BY DEF GapInv, SetExtraction
<1>3. \A q \in Extractors : ExtractionOK(q)'
  BY <1>2 DEF GapInv, ExtractionOK
<1>4. NightOK'
  <2>1. extracting'["night"].pc # "none" => night.pc = "extracting" /\ night.todo # <<>>
    BY <1>2 DEF GapInv, NightOK, Extractors
  <2> QED
    BY <2>1 DEF GapInv, NightOK, NightRecord, LoadedOK
<1>5. \A b \in Beneficiaries : HeatmapOK(b)'
  BY DEF GapInv, HeatmapOK
<1> QED
  BY <1>1, <1>3, <1>4, <1>5 DEF GapInv, CachedIsStored

(* A look-up ends with the cached extraction or goes on to ask the model.  *)
LEMMA LookupInv ==
    ASSUME GapInv, NEW p \in Extractors, NEW o \in Opportunities, Lookup(p, o),
           UNCHANGED <<demanded, cached, profile, heatmap, night>>,
           p = "night" => night.pc = "extracting" /\ night.todo # <<>>
    PROVE  GapInv'
<1> DEFINE x == IF cached[o] # NoRow THEN [NoExtraction EXCEPT !.pc = "extracted", !.of = o, !.reply = cached[o]]
                ELSE [NoExtraction EXCEPT !.pc = "asking", !.of = o]
<1>1. x \in Extraction
  BY DEF GapInv, Rows, NoExtraction, Extraction, Asking
<1>2. SetExtraction(p, x)
  BY DEF Lookup
<1>3. extracting'[p] = x
  BY <1>2 DEF GapInv, SetExtraction
<1>4. ExtractionOK(p)'
  BY <1>3, GapAssumption DEF GapInv, Rows, ExtractionOK, NoExtraction, CachedIsStored
<1> HIDE DEF x
<1> QED
  BY <1>1, <1>2, <1>4, ExtractionGoesOn

(* A delay counts against the maximum of its kind and ends the extraction  *)
(* at it.                                                                  *)
LEMMA ModelDelaysInv ==
    ASSUME GapInv, NEW p \in Extractors, ModelDelays(p)
    PROVE  GapInv'
<1> DEFINE asked == [extracting[p] EXCEPT !.attempts = @ + 1]
           late == [asked EXCEPT !.timeouts = @ + 1,
                                 !.pc = IF asked.timeouts + 1 >= TIMEOUT_TRIES THEN "failed" ELSE "asking"]
           limited == [asked EXCEPT !.limits = @ + 1,
                                    !.pc = IF asked.limits + 1 >= LIMIT_TRIES THEN "failed" ELSE "asking"]
<1>1. extracting[p] \in Extraction /\ extracting[p].pc = "asking" /\ ExtractionOK(p)
  BY DEF GapInv, ModelDelays
<1>2. late \in Extraction /\ limited \in Extraction
  <2>1. asked \in Extraction
    BY <1>1 DEF Extraction, Asking
  <2> HIDE DEF asked
  <2> DEFINE counted == [asked EXCEPT !.timeouts = @ + 1]
             counted2 == [asked EXCEPT !.limits = @ + 1]
  <2>2. counted \in Extraction /\ counted2 \in Extraction
    BY <2>1 DEF Extraction, Asking
  <2>3. /\ late = [counted EXCEPT !.pc = IF asked.timeouts + 1 >= TIMEOUT_TRIES THEN "failed" ELSE "asking"]
        /\ limited = [counted2 EXCEPT !.pc = IF asked.limits + 1 >= LIMIT_TRIES THEN "failed" ELSE "asking"]
    OBVIOUS
  <2> HIDE DEF counted, counted2, late, limited
  <2> QED
    BY <2>2, <2>3 DEF Extraction, Asking
<1>3. PICK x \in {late, limited} : SetExtraction(p, x)
  BY DEF ModelDelays
<1>4. extracting'[p] = x
  BY <1>3 DEF GapInv, SetExtraction
<1>5. /\ x.of = extracting[p].of
      /\ x.pc \in {"asking", "failed"}
      /\ x.attempts = extracting[p].attempts + 1
      /\ \/ x.timeouts = extracting[p].timeouts + 1 /\ x.limits = extracting[p].limits
         \/ x.limits = extracting[p].limits + 1 /\ x.timeouts = extracting[p].timeouts
      /\ x.pc = "asking" => x.timeouts < TIMEOUT_TRIES /\ x.limits < LIMIT_TRIES
  <2>1. CASE x = late
    BY <1>1, <2>1, GapAssumption DEF ExtractionOK, Extraction
  <2>2. CASE x = limited
    BY <1>1, <2>2, GapAssumption DEF ExtractionOK, Extraction
  <2> QED
    BY <1>3, <2>1, <2>2
<1>6. x \in Extraction
  BY <1>2, <1>3
<1> HIDE DEF late, limited
<1>7. ExtractionOK(p)'
  <2>1. /\ extracting[p].timeouts \in Nat /\ extracting[p].limits \in Nat
        /\ extracting[p].attempts = extracting[p].timeouts + extracting[p].limits
        /\ extracting[p].timeouts < TIMEOUT_TRIES /\ extracting[p].limits < LIMIT_TRIES
        /\ extracting[p].of \in Opportunities
    BY <1>1 DEF ExtractionOK, Extraction
  <2>2. x.attempts = x.timeouts + x.limits /\ x.attempts <= TIMEOUT_TRIES + LIMIT_TRIES - 1
    <3>1. TIMEOUT_TRIES \in Nat /\ LIMIT_TRIES \in Nat
      BY GapAssumption
    <3>2. x.timeouts \in Nat /\ x.limits \in Nat
      BY <1>5, <2>1
    <3> QED
      BY <1>5, <2>1, <3>1, <3>2
  <2> QED
    BY <1>4, <1>5, <2>1, <2>2 DEF ExtractionOK
<1>8. p = "night" => night.pc = "extracting" /\ night.todo # <<>>
  BY <1>1 DEF GapInv, NightOK
<1> QED
  BY <1>3, <1>6, <1>7, <1>8, ExtractionGoesOn DEF ModelDelays

(* A failure ends an extraction and stores nothing.                        *)
LEMMA ExtractionFailsInv ==
    ASSUME GapInv, NEW p \in Extractors, ExtractionFails(p)
    PROVE  GapInv'
<1> DEFINE x == [extracting[p] EXCEPT !.pc = "failed"]
<1>1. extracting[p] \in Extraction /\ extracting[p].pc \in {"asking", "caching"} /\ ExtractionOK(p)
  BY DEF GapInv, ExtractionFails
<1>2. x \in Extraction /\ SetExtraction(p, x)
  BY <1>1 DEF Extraction, Asking, ExtractionFails
<1>3. extracting'[p] = x
  BY <1>2 DEF GapInv, SetExtraction
<1>4. ExtractionOK(p)'
  BY <1>1, <1>3 DEF ExtractionOK, Extraction, ExtractionFails
<1>5. p = "night" => night.pc = "extracting" /\ night.todo # <<>>
  BY <1>1 DEF GapInv, NightOK
<1> HIDE DEF x
<1> QED
  BY <1>2, <1>4, <1>5, ExtractionGoesOn DEF ExtractionFails

(* A row is stored once and stays: nothing that is cached, answered or     *)
(* extracted contradicts it.                                               *)
LEMMA StoreExtractionInv ==
    ASSUME GapInv, NEW p \in Extractors, StoreExtraction(p)
    PROVE  GapInv'
<1>0. extracting[p] \in Extraction /\ extracting[p].pc = "asking" /\ ExtractionOK(p)
  BY DEF GapInv, StoreExtraction
<1> DEFINE o == extracting[p].of
<1>1. o \in Opportunities
  BY <1>0 DEF ExtractionOK
<1>2. p = "night" => night.pc = "extracting" /\ night.todo # <<>>
  BY <1>0 DEF GapInv, NightOK
<1>3. PICK reply \in Demands :
        /\ demanded[o] = NoRow
        /\ demanded' = [demanded EXCEPT ![o] = reply]
        /\ SetExtraction(p, [extracting[p] EXCEPT !.reply = reply, !.pc = "caching"])
  BY DEF StoreExtraction
<1>4. GapInv'
  <2> DEFINE x == [extracting[p] EXCEPT !.reply = reply, !.pc = "caching"]
  <2>1. x \in Extraction /\ SetExtraction(p, x) /\ reply # NoRow
    BY <1>0, <1>3, GapAssumption DEF Extraction, Asking, NoRow
  <2>2. extracting' \in [Extractors -> Extraction] /\ extracting'[p] = x
        /\ \A q \in Extractors \ {p} : extracting'[q] = extracting[q]
    BY <2>1 DEF GapInv, SetExtraction
  <2>3. demanded' \in Rows /\ demanded'[o] = reply /\ \A q \in Opportunities \ {o} : demanded'[q] = demanded[q]
    BY <1>1, <1>3 DEF GapInv, Rows
  <2>4. \A q \in Opportunities : demanded[q] # NoRow => demanded'[q] = demanded[q]
    BY <1>3, <2>3
  <2>5. x.of = o /\ x.pc = "caching" /\ x.reply = reply /\ x.attempts = extracting[p].attempts
        /\ x.timeouts = extracting[p].timeouts /\ x.limits = extracting[p].limits
    BY <1>0 DEF Extraction
  <2> HIDE DEF x
  <2>6. ASSUME NEW q \in Extractors PROVE ExtractionOK(q)'
    <3>1. CASE q = p
      BY <1>0, <1>1, <2>1, <2>2, <2>3, <2>5, <3>1 DEF ExtractionOK
    <3>2. CASE q # p
      BY <2>2, <2>4, <3>2 DEF GapInv, ExtractionOK
    <3> QED
      BY <3>1, <3>2
  <2>7. CachedIsStored'
    BY <2>4 DEF GapInv, CachedIsStored, StoreExtraction
  <2>8. NightOK'
    <3>1. extracting'["night"].pc # "none" => night.pc = "extracting" /\ night.todo # <<>>
      BY <1>2, <2>2 DEF GapInv, NightOK, Extractors
    <3> QED
      BY <2>4, <3>1 DEF GapInv, NightOK, NightRecord, LoadedOK, StoreExtraction
  <2>9. \A b \in Beneficiaries : HeatmapOK(b)'
    BY DEF GapInv, HeatmapOK, StoreExtraction
  <2> QED
    BY <2>2, <2>3, <2>6, <2>7, <2>8, <2>9 DEF GapInv, StoreExtraction
<1> QED
  BY <1>4

(* A refused flush ends an extraction and stores nothing.                  *)
LEMMA StoreConflictsInv ==
    ASSUME GapInv, NEW p \in Extractors, StoreConflicts(p)
    PROVE  GapInv'
<1> DEFINE x == [extracting[p] EXCEPT !.pc = "conflict"]
<1>1. extracting[p] \in Extraction /\ extracting[p].pc = "asking" /\ ExtractionOK(p)
  BY DEF GapInv, StoreConflicts
<1>2. x \in Extraction /\ SetExtraction(p, x)
  BY <1>1 DEF Extraction, Asking, StoreConflicts
<1>3. extracting'[p] = x
  BY <1>2 DEF GapInv, SetExtraction
<1>4. ExtractionOK(p)'
  BY <1>1, <1>3 DEF ExtractionOK, Extraction, StoreConflicts
<1>5. p = "night" => night.pc = "extracting" /\ night.todo # <<>>
  BY <1>1 DEF GapInv, NightOK
<1> HIDE DEF x
<1> QED
  BY <1>2, <1>4, <1>5, ExtractionGoesOn DEF StoreConflicts

(* What is cached is what was stored, and it was not cached otherwise      *)
(* before.                                                                 *)
LEMMA CacheExtractionInv ==
    ASSUME GapInv, NEW p \in Extractors, CacheExtraction(p)
    PROVE  GapInv'
<1>0. extracting[p] \in Extraction /\ extracting[p].pc = "caching" /\ ExtractionOK(p)
  BY DEF GapInv, CacheExtraction
<1> DEFINE o == extracting[p].of
           x == [extracting[p] EXCEPT !.pc = "extracted"]
<1>1. o \in Opportunities /\ extracting[p].reply = demanded[o] /\ demanded[o] # NoRow
  BY <1>0 DEF ExtractionOK
<1>2. p = "night" => night.pc = "extracting" /\ night.todo # <<>>
  BY <1>0 DEF GapInv, NightOK
<1>3. x \in Extraction /\ SetExtraction(p, x)
  BY <1>0 DEF Extraction, Asking, CacheExtraction
<1>4. extracting' \in [Extractors -> Extraction] /\ extracting'[p] = x
      /\ \A q \in Extractors \ {p} : extracting'[q] = extracting[q]
  BY <1>3 DEF GapInv, SetExtraction
<1>5. cached' = [cached EXCEPT ![o] = demanded[o]]
  BY <1>1 DEF CacheExtraction
<1>6. cached' \in Rows /\ CachedIsStored'
  BY <1>1, <1>5 DEF GapInv, Rows, CachedIsStored, CacheExtraction
<1>7. \A q \in Extractors : ExtractionOK(q)'
  BY <1>0, <1>1, <1>4 DEF GapInv, ExtractionOK, Extraction, CacheExtraction
<1>8. NightOK'
  <2>1. extracting'["night"].pc # "none" => night.pc = "extracting" /\ night.todo # <<>>
    BY <1>2, <1>4 DEF GapInv, NightOK, Extractors
  <2> QED
    BY <2>1 DEF GapInv, NightOK, NightRecord, LoadedOK, CacheExtraction
<1>9. \A b \in Beneficiaries : HeatmapOK(b)'
  BY DEF GapInv, HeatmapOK, CacheExtraction
<1> QED
  BY <1>4, <1>6, <1>7, <1>8, <1>9 DEF GapInv, CacheExtraction

-----------------------------------------------------------------------------
\* The steps of the cycle.

(* A step that changes nothing but the locals of the cycle.                *)
LEMMA NightGoesOn ==
    ASSUME GapInv, NightOK', UNCHANGED <<demanded, cached, profile, heatmap, extracting>>
    PROVE  GapInv'
<1>1. \A p \in Extractors : ExtractionOK(p)'
  BY DEF GapInv, ExtractionOK
<1>2. \A b \in Beneficiaries : HeatmapOK(b)'
  BY DEF GapInv, HeatmapOK
<1> QED
  BY <1>1, <1>2 DEF GapInv, CachedIsStored

(* A cycle begins with opportunities of the window and no heatmap of its   *)
(* own.                                                                    *)
LEMMA SelectBatchInv ==
    ASSUME GapInv, SelectBatch
    PROVE  GapInv'
<1> DEFINE eligible == Kept(Recency, {o \in Opportunities : IsEligible(o)})
           n == IF Len(eligible) < EXTRACTIONS THEN Len(eligible) ELSE EXTRACTIONS
           batch == SubSeq(eligible, 1, n)
<1>1. eligible \in Seq(Opportunities)
  BY OpportunitiesAreFinite, KeptProperties
<1>2. night' = [NoNight EXCEPT !.pc = "extracting", !.todo = batch]
  BY DEF SelectBatch
<1> HIDE DEF eligible
<1>3. n \in 0 .. Len(eligible)
  BY <1>1, GapAssumption
<1> HIDE DEF n
<1>4. batch \in Seq(Opportunities)
  BY <1>1, <1>3
<1> HIDE DEF batch
<1>5. NightOK'
  BY <1>2, <1>4 DEF GapInv, NightOK, NightRecord, NoNight, SelectBatch
<1> QED
  BY <1>5, NightGoesOn DEF SelectBatch

(* The cycle goes on to the next opportunity of its batch.                 *)
LEMMA ExtractNextInv ==
    ASSUME GapInv, ExtractNext
    PROVE  GapInv'
<1>1. Head(night.todo) \in Opportunities
  BY DEF GapInv, NightOK, ExtractNext
<1> QED
  BY <1>1, LookupInv DEF ExtractNext, Extractors

(* An opportunity without a text is left out of what the cycle counts.     *)
LEMMA SkipNextInv ==
    ASSUME GapInv, SkipNext
    PROVE  GapInv'
<1>1. Tail(night.todo) \in Seq(Opportunities)
  BY DEF GapInv, NightOK, SkipNext
<1>2. NightOK'
  BY <1>1 DEF GapInv, NightOK, NightRecord, SkipNext
<1> QED
  BY <1>2, NightGoesOn DEF SkipNext

(* What the cycle counts as extracted is stored.                           *)
LEMMA EndExtractionInv ==
    ASSUME GapInv, EndExtraction
    PROVE  GapInv'
<1> DEFINE x == extracting["night"]
<1>1. "night" \in Extractors /\ x.pc \in {"extracted", "failed", "conflict"} /\ x \in Extraction
      /\ ExtractionOK("night")
  BY DEF GapInv, EndExtraction, Extractors
<1>2. night.pc = "extracting" /\ night.todo # <<>>
  BY <1>1 DEF GapInv, NightOK
<1>3. Tail(night.todo) \in Seq(Opportunities)
  BY <1>2 DEF GapInv, NightOK
<1>4. extracting' \in [Extractors -> Extraction] /\ extracting'["night"] = NoExtraction
      /\ \A q \in Extractors \ {"night"} : extracting'[q] = extracting[q]
  BY <1>1 DEF GapInv, SetExtraction, EndExtraction, NoExtraction, Extraction, Asking
<1>5. \A q \in Extractors : ExtractionOK(q)'
  <2>1. ExtractionOK("night")'
    BY <1>4, GapAssumption DEF ExtractionOK, NoExtraction
  <2>2. \A q \in Extractors \ {"night"} : ExtractionOK(q)'
    BY <1>4 DEF GapInv, ExtractionOK, EndExtraction
  <2> QED
    BY <2>1, <2>2
<1>6. \A b \in Beneficiaries : HeatmapOK(b)'
  BY DEF GapInv, HeatmapOK, EndExtraction
<1>7. NightOK'
  <2>1. x.pc = "extracted" => x.of \in Opportunities /\ demanded[x.of] # NoRow
    BY <1>1 DEF ExtractionOK
  <2>2. /\ night'.pc = "extracting" /\ night'.todo = Tail(night.todo) /\ night'.broken \in BOOLEAN
        /\ night'.extracted = IF x.pc = "extracted" THEN night.extracted \cup {x.of} ELSE night.extracted
        /\ night'.stored = night.stored
        /\ NightRecord'
    BY <1>1 DEF GapInv, NightOK, NightRecord, EndExtraction
  <2>3. \A o \in night'.extracted : o \in Opportunities /\ demanded[o] # NoRow
    BY <1>2, <2>1, <2>2 DEF GapInv, NightOK
  <2>4. night.stored = {}
    BY <1>2 DEF GapInv, NightOK
  <2> QED
    BY <1>3, <1>4, <2>2, <2>3, <2>4 DEF NightOK, NoExtraction, EndExtraction
<1> QED
  BY <1>4, <1>5, <1>6, <1>7 DEF GapInv, CachedIsStored, EndExtraction

(* What is loaded has every skill of what the cycle has extracted.         *)
LEMMA LoadDemandInv ==
    ASSUME GapInv, LoadDemand
    PROVE  GapInv'
<1> DEFINE stored == {o \in Opportunities : demanded[o] \notin {NoRow, {}}}
           left == {c \in Consultants : \E k \in Skills : ~Absent(profile[c][k])}
<1>1. night' = [night EXCEPT !.pc = "mapping",
                             !.demand = [o \in stored |-> demanded[o]],
                             !.value = [o \in stored |-> OpportunityValue(standing[o])],
                             !.levels = profile,
                             !.left = left]
  BY DEF LoadDemand
<1>2. /\ night'.pc = "mapping" /\ night'.todo = night.todo /\ night'.broken = night.broken
      /\ night'.extracted = night.extracted
      /\ night'.demand = [o \in stored |-> demanded[o]]
      /\ night'.value = [o \in stored |-> OpportunityValue(standing[o])]
      /\ night'.levels = profile /\ night'.left \subseteq Consultants /\ night'.stored = night.stored
      /\ NightRecord'
  BY <1>1 DEF GapInv, NightOK, NightRecord
<1>3. Inputs(night'.demand, night'.value)
  <2>1. \A o \in stored : demanded[o] \in SUBSET Skills
    BY GapAssumption DEF GapInv, Rows
  <2>2. \A o : OpportunityValue(standing[o]) \in Nat
    BY DEF OpportunityValue
  <2>3. \A o \in stored : night'.demand[o] = demanded[o] /\ night'.value[o] = OpportunityValue(standing[o])
    BY <1>2
  <2>4. DOMAIN night'.demand = stored
    BY <1>2
  <2> QED
    BY <2>1, <2>2, <2>3, <2>4 DEF Inputs
<1>4. night.stored = {} /\ \A o \in night.extracted : o \in Opportunities /\ demanded[o] # NoRow
  BY DEF GapInv, NightOK, LoadDemand
<1>5. ASSUME NEW o \in night'.extracted
      PROVE  o \in Opportunities /\ demanded'[o] # NoRow /\ \A k \in demanded'[o] : o \in Requiring(k, night'.demand)
  <2>1. o \in Opportunities /\ demanded[o] # NoRow /\ demanded' = demanded
    BY <1>2, <1>4 DEF LoadDemand
  <2>2. CASE demanded[o] = {}
    BY <2>1, <2>2
  <2>3. CASE demanded[o] # {}
    <3>1. o \in DOMAIN night'.demand /\ night'.demand[o] = demanded[o]
      BY <1>2, <2>1, <2>3
    <3> QED
      BY <2>1, <3>1 DEF Requiring
  <2> QED
    BY <2>2, <2>3
<1>6. LoadedOK'
  <2>1. profile \in [Consultants -> Level] /\ night'.stored = {}
    BY <1>2, <1>4 DEF GapInv
  <2> HIDE DEF stored, left
  <2> QED
    BY <1>2, <1>3, <1>5, <2>1 DEF LoadedOK
<1>7. extracting["night"].pc = "none"
  BY DEF GapInv, NightOK, LoadDemand
<1>8. NightOK'
  BY <1>2, <1>6, <1>7 DEF GapInv, NightOK, LoadDemand
<1> QED
  BY <1>8, NightGoesOn DEF LoadDemand

(* The cycle ends, before or after the heatmaps.                           *)
LEMMA CycleEnds ==
    ASSUME GapInv, night' = NoNight, extracting["night"].pc = "none",
           UNCHANGED <<demanded, cached, profile, heatmap, extracting>>
    PROVE  GapInv'
<1>1. NightOK'
  BY DEF NightOK, NightRecord, NoNight
<1> QED
  BY <1>1, NightGoesOn

(* A heatmap is stored of what the cycle has loaded.                       *)
LEMMA StoreHeatmapInv ==
    ASSUME GapInv, NEW b \in Beneficiaries, StoreHeatmap(b)
    PROVE  GapInv'
<1> DEFINE level == LevelsOf(b, night.levels)
           old == heatmap[b].last
<1>0. night.pc = "mapping" /\ LoadedOK /\ HeatmapOK(b)
  BY DEF GapInv, NightOK, StoreHeatmap
<1>1. PICK kept \in Ranked(WeightedGaps(night.demand, night.value, level)) :
        heatmap' = [heatmap EXCEPT ![b] = [last |-> MapOf(kept, old), before |-> old]]
  BY DEF StoreHeatmap, MapOf
<1>2. IsHeatmap(MapOf(kept, old)) /\ IsHeatmap(old)
  BY <1>0, KeptGaps DEF LoadedOK, HeatmapOK
<1>3. \A e \in MapOf(kept, old) : e.trend = Trend(e, old)
  BY KeptTrends
<1>4. /\ DOMAIN heatmap' = Beneficiaries
      /\ heatmap'[b].last = MapOf(kept, old) /\ heatmap'[b].before = old
      /\ \A c \in Beneficiaries \ {b} : heatmap'[c] = heatmap[c]
  BY <1>1 DEF GapInv
<1>5. \A c \in Beneficiaries : HeatmapOK(c)'
  BY <1>2, <1>3, <1>4 DEF GapInv, HeatmapOK
<1>6. /\ night'.pc \in {"mapping", "mapped"} /\ night'.todo = night.todo /\ night'.broken = night.broken
      /\ night'.extracted = night.extracted /\ night'.demand = night.demand /\ night'.value = night.value
      /\ night'.levels = night.levels /\ night'.left \subseteq night.left
      /\ night'.stored = night.stored \cup {b}
      /\ NightRecord'
  BY <1>0 DEF GapInv, NightOK, NightRecord, StoreHeatmap
<1>7. LoadedOK'
  <2>1. \A c \in night'.stored :
          \E some \in Ranked(WeightedGaps(night.demand, night.value, LevelsOf(c, night.levels))) :
              heatmap'[c].last = MapOf(some, heatmap'[c].before)
    <3> TAKE c \in night'.stored
    <3>1. CASE c = b
      BY <1>1, <1>4, <3>1
    <3>2. CASE c # b
      BY <1>0, <1>4, <1>6, <3>2 DEF LoadedOK
    <3> QED
      BY <3>1, <3>2
  <2>2. demanded' = demanded
    BY DEF StoreHeatmap
  <2> QED
    BY <1>0, <1>6, <2>1, <2>2 DEF LoadedOK
<1>8. NightOK'
  BY <1>0, <1>6, <1>7 DEF GapInv, NightOK, StoreHeatmap
<1>9. \A p \in Extractors : ExtractionOK(p)'
  BY DEF GapInv, ExtractionOK, StoreHeatmap
<1> QED
  BY <1>4, <1>5, <1>8, <1>9 DEF GapInv, CachedIsStored, StoreHeatmap

(* A heatmap that fails is not among those the cycle has stored.           *)
LEMMA HeatmapFailsInv ==
    ASSUME GapInv, NEW b \in Beneficiaries, HeatmapFails(b)
    PROVE  GapInv'
<1>0. night.pc = "mapping" /\ LoadedOK
  BY DEF GapInv, NightOK, HeatmapFails
<1>1. /\ night'.pc \in {"mapping", "mapped"} /\ night'.todo = night.todo /\ night'.broken = TRUE
      /\ night'.extracted = night.extracted /\ night'.demand = night.demand /\ night'.value = night.value
      /\ night'.levels = night.levels /\ night'.left \subseteq night.left
      /\ night'.stored = night.stored
      /\ NightRecord'
  BY <1>0 DEF GapInv, NightOK, NightRecord, HeatmapFails
<1>2. LoadedOK'
  BY <1>0, <1>1 DEF LoadedOK, HeatmapFails
<1>3. NightOK'
  BY <1>0, <1>1, <1>2 DEF GapInv, NightOK, HeatmapFails
<1> QED
  BY <1>3, NightGoesOn DEF HeatmapFails

(* The end of a request leaves the rows and the cycle alone.               *)
LEMMA EndRequestInv ==
    ASSUME GapInv, EndRequest
    PROVE  GapInv'
<1>1. "request" \in Extractors /\ NoExtraction \in Extraction
  BY DEF Extractors, NoExtraction, Extraction, Asking
<1>2. extracting'["request"] = NoExtraction
  BY <1>1 DEF GapInv, EndRequest, SetExtraction
<1>3. ExtractionOK("request")'
  BY <1>2, GapAssumption DEF ExtractionOK, NoExtraction
<1> QED
  BY <1>1, <1>3, ExtractionGoesOn DEF EndRequest

(* Standings and profiles that change do not change what a cycle has       *)
(* loaded, and an entry that is dropped disagrees with nothing.            *)
LEMMA ChangeInputsInv ==
    ASSUME GapInv, ChangeInputs
    PROVE  GapInv'
<1>1. profile' \in [Consultants -> Level]
  BY GapAssumption DEF GapInv, ChangeInputs, Level, LevelNames
<1>2. cached' \in Rows /\ CachedIsStored'
  BY DEF GapInv, ChangeInputs, Rows, CachedIsStored
<1>3. \A p \in Extractors : ExtractionOK(p)'
  BY DEF GapInv, ExtractionOK, ChangeInputs
<1>4. \A b \in Beneficiaries : HeatmapOK(b)'
  BY DEF GapInv, HeatmapOK, ChangeInputs
<1>5. NightOK'
  BY DEF GapInv, NightOK, NightRecord, LoadedOK, ChangeInputs
<1> QED
  BY <1>1, <1>2, <1>3, <1>4, <1>5 DEF GapInv, ChangeInputs

(* Every step of the cycle, the request and the others keeps the           *)
(* invariant.                                                              *)
LEMMA GapNextInv == GapInv /\ [GapNext]_gapVars => GapInv'
<1> SUFFICES ASSUME GapInv, [GapNext]_gapVars PROVE GapInv'
  OBVIOUS
<1>1. ASSUME NEW p \in Extractors, \/ ModelDelays(p) \/ ExtractionFails(p)
                                   \/ StoreExtraction(p) \/ StoreConflicts(p) \/ CacheExtraction(p)
      PROVE  GapInv'
  BY <1>1, ModelDelaysInv, ExtractionFailsInv, StoreExtractionInv, StoreConflictsInv, CacheExtractionInv
<1>2. CASE SelectBatch \/ ExtractNext \/ SkipNext \/ EndExtraction \/ LoadDemand
  BY <1>2, SelectBatchInv, ExtractNextInv, SkipNextInv, EndExtractionInv, LoadDemandInv
<1>3. CASE LoadRaises \/ Summarize
  <2>1. extracting["night"].pc = "none"
    BY <1>3 DEF GapInv, NightOK, LoadRaises, Summarize
  <2> QED
    BY <1>3, <2>1, CycleEnds DEF LoadRaises, Summarize
<1>4. ASSUME NEW b \in Beneficiaries, StoreHeatmap(b) \/ HeatmapFails(b)
      PROVE  GapInv'
  BY <1>4, StoreHeatmapInv, HeatmapFailsInv
<1>5. CASE AskOnDemand
  <2>1. PICK o \in Opportunities : Lookup("request", o)
    BY <1>5 DEF AskOnDemand
  <2> QED
    BY <1>5, <2>1, LookupInv DEF AskOnDemand, Extractors
<1>6. CASE EndRequest
  BY <1>6, EndRequestInv
<1>7. CASE ChangeInputs
  BY <1>7, ChangeInputsInv
<1>8. CASE UNCHANGED gapVars
  BY <1>8 DEF gapVars, GapInv, CachedIsStored, ExtractionOK, HeatmapOK, NightOK, NightRecord, LoadedOK
<1> QED
  BY <1>1, <1>2, <1>3, <1>4, <1>5, <1>6, <1>7, <1>8 DEF GapNext

-----------------------------------------------------------------------------
\* What the invariant implies.

(* Rows and heatmaps have their types and an extraction its bound of       *)
(* attempts.                                                               *)
LEMMA GapTypesHold == ASSUME GapInv PROVE GapTypeOK
<1>1. ASSUME NEW o \in Opportunities PROVE {demanded[o], cached[o]} \subseteq (SUBSET Skills) \cup {NoRow}
  <2> DEFINE Sets == SUBSET Skills
  <2>1. Demands \subseteq Sets
    BY GapAssumption
  <2>2. demanded[o] \in Demands \cup {NoRow} /\ cached[o] \in Demands \cup {NoRow}
    BY DEF GapInv, Rows
  <2> HIDE DEF Sets
  <2>3. {demanded[o], cached[o]} \subseteq Sets \cup {NoRow}
    BY <2>1, <2>2
  <2> QED
    BY <2>3 DEF Sets
<1>2. ASSUME NEW b \in Beneficiaries, NEW h \in {heatmap[b].last, heatmap[b].before}
      PROVE  h = NoHeatmap \/ (Cardinality(h) <= ENTRIES /\ \A e \in h : e \in Entries)
  BY DEF GapInv, HeatmapOK, IsHeatmap
<1>3. \A p \in Extractors : extracting[p].attempts <= TIMEOUT_TRIES + LIMIT_TRIES - 1
  BY DEF GapInv, ExtractionOK
<1> QED
  BY <1>1, <1>2, <1>3 DEF GapTypeOK

(* What the cycle has kept for somebody whose heatmap it has stored.       *)
LEMMA StoredHeatmaps ==
    ASSUME GapInv, NEW b \in night.stored
    PROVE  /\ b \in Beneficiaries
           /\ Inputs(night.demand, night.value)
           /\ night.levels \in [Consultants -> Level]
           /\ LevelsOf(b, night.levels) \in Level
           /\ heatmap[b].last # NoHeatmap
           /\ \E kept \in Ranked(WeightedGaps(night.demand, night.value, LevelsOf(b, night.levels))) :
                heatmap[b].last = MapOf(kept, heatmap[b].before)
<1>1. LoadedOK
  BY DEF GapInv, NightOK
<1>2. b \in Beneficiaries
  BY <1>1 DEF LoadedOK
<1>3. LevelsOf(b, night.levels) \in Level
  BY <1>1, <1>2, LevelsOfIsLevel DEF LoadedOK
<1>4. PICK kept \in Ranked(WeightedGaps(night.demand, night.value, LevelsOf(b, night.levels))) :
        heatmap[b].last = MapOf(kept, heatmap[b].before)
  BY <1>1 DEF LoadedOK
<1>5. heatmap[b].last # NoHeatmap
  <2>1. \A e \in heatmap[b].last : "trend" \in DOMAIN e
    BY <1>4 DEF MapOf, WithTrend
  <2>2. [name |-> "none"] \in NoHeatmap /\ "trend" \notin DOMAIN [name |-> "none"]
    BY DEF NoHeatmap
  <2> QED
    BY <2>1, <2>2
<1> QED
  BY <1>1, <1>2, <1>3, <1>4, <1>5 DEF LoadedOK

(* The heatmaps of a cycle are rankings of the gaps of what it loaded, so  *)
(* nothing left out outranks an entry.                                     *)
LEMMA NothingOutranksHolds == ASSUME GapInv PROVE NothingOutranks
<1> SUFFICES ASSUME NEW b \in night.stored, NEW k \in Skills \ Listed(heatmap[b].last)
             PROVE  /\ ValueLost(b, k) > 0 => Cardinality(heatmap[b].last) = ENTRIES
                    /\ \A e \in heatmap[b].last : ValueLost(b, k) <= ValueLost(b, e.name)
  BY DEF NothingOutranks
<1> DEFINE level == LevelsOf(b, night.levels)
           last == heatmap[b].last
<1>1. Inputs(night.demand, night.value) /\ level \in Level /\ last # NoHeatmap
  BY StoredHeatmaps
<1>2. PICK kept \in Ranked(WeightedGaps(night.demand, night.value, level)) :
        last = MapOf(kept, heatmap[b].before)
  BY StoredHeatmaps
<1>3. Cardinality(last) = Cardinality(kept) /\ kept \subseteq WeightedGaps(night.demand, night.value, level)
  BY <1>1, <1>2, KeptGaps
<1>4. \A g \in kept : g.name \in Skills
  BY <1>1, <1>3, Gaps DEF GapRecords
<1>5. ASSUME NEW q \in Skills PROVE ValueLost(b, q) = LossOf(q, night.demand, night.value, level)
  <2> DEFINE lost == BlockedValue(q, night.demand, night.value)
             sole == \E o \in DOMAIN night.demand : {j \in night.demand[o] : level[j] = "absent"} = {q}
  <2>1. sole <=> q \in SingleBlockers(night.demand, level)
    BY <1>1, Blockers
  <2>2. ValueLost(b, q) = CASE level[q] \notin {"absent", "junior"} -> 0 [] sole -> BLOCKER_WEIGHT * lost [] OTHER -> lost
    BY DEF ValueLost, BlockedValue, Requiring
  <2>3. LossOf(q, night.demand, night.value, level) =
          IF level[q] \in {"absent", "junior"}
          THEN (IF q \in SingleBlockers(night.demand, level) THEN BLOCKER_WEIGHT * lost ELSE lost) ELSE 0
    BY DEF LossOf, Worth, Weight, IsGap, Absent
  <2>0. sole => level[q] = "absent"
    OBVIOUS
  <2> HIDE DEF sole, lost, level
  <2>4. CASE level[q] \notin {"absent", "junior"}
    BY <2>0, <2>2, <2>3, <2>4
  <2>5. CASE level[q] \in {"absent", "junior"} /\ sole
    BY <2>1, <2>2, <2>3, <2>5
  <2>6. CASE level[q] \in {"absent", "junior"} /\ ~ sole
    BY <2>1, <2>2, <2>3, <2>6
  <2> QED
    BY <2>4, <2>5, <2>6
<1>6. /\ \A g \in kept : \E e \in last : e.name = g.name
      /\ \A e \in last : \E g \in kept : e.name = g.name
  <2> DEFINE entry(g) == WithTrend(g, heatmap[b].before)
  <2>1. last = {entry(g) : g \in kept}
    BY <1>2 DEF MapOf
  <2>2. \A g \in kept : entry(g).name = g.name
    BY DEF WithTrend
  <2> HIDE DEF entry, last
  <2>3. \A g \in kept : entry(g) \in last
    BY <2>1
  <2>4. \A e \in last : \E g \in kept : e = entry(g)
    BY <2>1
  <2> QED
    BY <2>2, <2>3, <2>4
<1>7. \A g \in kept : g.name # k
  BY <1>1, <1>6 DEF Listed
<1>8. /\ LossOf(k, night.demand, night.value, level) > 0 => Cardinality(kept) = ENTRIES
      /\ \A g \in kept : LossOf(k, night.demand, night.value, level) <= LossOf(g.name, night.demand, night.value, level)
  BY <1>1, <1>7, KeptOutrank
<1> QED
  BY <1>3, <1>4, <1>5, <1>6, <1>8

(* The firm lacks what its best consultant lacks, so every consultant      *)
(* lacks it.                                                               *)
LEMMA FirmGapsHold == ASSUME GapInv PROVE FirmGapsAreEveryones
<1> SUFFICES ASSUME Firm \in night.stored, NEW e \in heatmap[Firm].last, NEW c \in Consultants
             PROVE  night.levels[c][e.name] \in IF e.kind = "hard" THEN {"absent"} ELSE {"absent", "junior"}
  BY DEF FirmGapsAreEveryones
<1> DEFINE level == FirmLevels(night.levels)
<1>1. /\ Inputs(night.demand, night.value) /\ night.levels \in [Consultants -> Level]
      /\ LevelsOf(Firm, night.levels) = level
  BY StoredHeatmaps DEF LevelsOf
<1>2. PICK kept \in Ranked(WeightedGaps(night.demand, night.value, level)) :
        heatmap[Firm].last = MapOf(kept, heatmap[Firm].before)
  BY <1>1, StoredHeatmaps
<1> HIDE DEF level
<1>3. PICK g \in kept : e = WithTrend(g, heatmap[Firm].before)
  BY <1>2 DEF MapOf
<1>4. PICK k \in Lacked(night.demand, level) : g = GapOf(k, night.demand, night.value, level)
  BY <1>1, Gaps DEF Ranked
<1>5. e.name = k /\ e.kind = ClassifyGap(level[k]) /\ k \in Skills /\ IsGap(level[k])
  BY <1>3, <1>4 DEF WithTrend, GapOf, Lacked
<1>6. ProficiencyRank(night.levels[c][k]) <= ProficiencyRank(level[k]) /\ level[k] \in LevelNames
  BY <1>1, <1>5, FirmHasTheHighest DEF level
<1>7. night.levels[c][k] \in LevelNames
  BY <1>1, <1>5 DEF Level
<1>8. \A l, m \in LevelNames : ProficiencyRank(l) <= ProficiencyRank(m) =>
        (m = "absent" => l = "absent") /\ (m = "junior" => l \in {"absent", "junior"})
  BY DEF ProficiencyRank, LevelNames
<1> QED
  BY <1>5, <1>6, <1>7, <1>8 DEF ClassifyGap, IsGap, Absent

(* An entry has the trend of its value, since a heatmap lists a skill      *)
(* once.                                                                   *)
LEMMA TrendsHold == ASSUME GapInv PROVE TrendsAreOfValues
<1> SUFFICES ASSUME NEW b \in Beneficiaries, heatmap[b].last # NoHeatmap, NEW e \in heatmap[b].last
             PROVE  LET known == {d \in (IF heatmap[b].before = NoHeatmap THEN {} ELSE heatmap[b].before) : d.name = e.name}
                    IN  /\ e.trend = "new" <=> known = {}
                        /\ \A d \in known : /\ e.trend = "growing" <=> e.blocked > d.blocked
                                            /\ e.trend = "shrinking" <=> e.blocked < d.blocked
  BY DEF TrendsAreOfValues
<1> DEFINE before == heatmap[b].before
           known == {d \in (IF before = NoHeatmap THEN {} ELSE before) : d.name = e.name}
<1>1. IsHeatmap(before) /\ e.trend = Trend(e, before) /\ e \in Entries
  BY DEF GapInv, HeatmapOK, IsHeatmap
<1>2. e.name \in Listed(before) <=> known # {}
  BY DEF Listed
<1>3. CASE known = {}
  BY <1>1, <1>2, <1>3 DEF Trend
<1>4. CASE known # {}
  <2>1. PICK d \in known : TRUE
    BY <1>4
  <2>2. before # NoHeatmap /\ d \in before /\ d \in Entries /\ d.name = e.name
    BY <1>1, <2>1 DEF IsHeatmap
  <2>3. \A f \in before : f.name = e.name => f = d
    BY <1>1, <2>2 DEF IsHeatmap
  <2>4. Entry(e.name, before) = d /\ known = {d}
    BY <2>1, <2>2, <2>3 DEF Entry
  <2>5. e.trend = CASE e.blocked > d.blocked -> "growing" [] e.blocked < d.blocked -> "shrinking" [] OTHER -> "none"
    BY <1>1, <1>2, <1>4, <2>4 DEF Trend
  <2>6. e.blocked \in Nat /\ d.blocked \in Nat
    BY <1>1, <2>2 DEF Entries
  <2> HIDE DEF known
  <2>7. /\ e.trend # "new"
        /\ e.trend = "growing" <=> e.blocked > d.blocked
        /\ e.trend = "shrinking" <=> e.blocked < d.blocked
    BY <2>5, <2>6
  <2> QED
    BY <1>4, <2>4, <2>7 DEF known
<1> QED
  BY <1>3, <1>4

(* Rows, caches and heatmaps agree with one another (GapSafety): two       *)
(* callers extract an opportunity once, a heatmap lists what weighs most   *)
(* and its trends are those of the values.                                 *)
THEOREM GapHolds == GapSpec => []GapSafety
<1>1. GapInv => GapSafety
  <2>1. GapInv => CachedIsStored /\ ExtractedIsMapped
    BY DEF GapInv, NightOK, LoadedOK, ExtractedIsMapped
  <2> QED
    BY <2>1, GapTypesHold, NothingOutranksHolds, FirmGapsHold, TrendsHold DEF GapSafety
<1> QED
  BY GapInitInv, GapNextInv, <1>1, PTL DEF GapSpec

-----------------------------------------------------------------------------
\* The inductive invariant.

Distinct(list) == \A i, j \in 1 .. Len(list) : list[i] = list[j] => i = j

(* Every list is of its user, not empty and without repetition.            *)
DictOK(dict) ==
    /\ dict = [u \in DOMAIN dict |-> dict[u]]
    /\ DOMAIN dict \subseteq Users
    /\ \A u \in DOMAIN dict :
        /\ dict[u] \in Seq(Sockets) /\ dict[u] # <<>> /\ Distinct(dict[u])
        /\ \A i \in 1 .. Len(dict[u]) : UserOf[dict[u][i]] = u

Rounds == [pc : {"idle", "sending"}, message : Messages \cup {"none"}, todo : SUBSET Users,
           user : Users \cup {"none"}, target : Sockets \cup {"none"}, index : Nat,
           detached : BOOLEAN, disturbed : BOOLEAN, dead : SUBSET Sockets, owed : SUBSET Sockets]

Types ==
    /\ socket \in [Sockets -> {"new", "open", "broken", "closed"}]
    /\ subscribed \in {"no", "yes", "stopped"}
    /\ inbox \in Seq(published)
    /\ round \in [Senders -> Rounds]
    /\ published \subseteq Messages
    /\ got \in [Sockets -> [Messages -> Nat]]
    /\ refused \subseteq Sockets
    /\ passed \subseteq [socket : Sockets, disturbed : BOOLEAN]

(* The target of a walk is of its user and not behind its place; a walk    *)
(* that was not disturbed is at its place of the list, with what it owes   *)
(* there or after.                                                         *)
Walk(r, dict, sock) ==
    /\ r.message \in Messages
    /\ r.user \in Users /\ r.user \notin r.todo
    /\ r.target \in Sockets /\ UserOf[r.target] = r.user /\ sock[r.target] # "new"
    /\ r.index # 0
    /\ ~ r.detached =>
        /\ r.user \in DOMAIN dict
        /\ \A j \in 1 .. Len(dict[r.user]) : r.index < j => dict[r.user][j] # r.target
    /\ ~ r.disturbed =>
        /\ ~ r.detached
        /\ r.index <= Len(dict[r.user]) /\ dict[r.user][r.index] = r.target
        /\ \A s \in r.owed : \E j \in 1 .. Len(dict[r.user]) : r.index <= j /\ dict[r.user][j] = s

RoundOK(r, dict, sock) ==
    /\ r.pc = "idle" => r.target = "none" /\ r.dead = {}
    /\ r.pc = "sending" => Walk(r, dict, sock)

(* The round may still send its message to s.                              *)
Ahead(r, s, dict, sock) ==
    /\ r.pc = "sending"
    /\ \/ UserOf[s] \in r.todo
       \/ s = r.target
       \/ /\ UserOf[s] = r.user /\ ~ r.detached
          /\ \/ sock[s] = "new"
             \/ \E j \in 1 .. Len(dict[r.user]) : r.index < j /\ dict[r.user][j] = s

(* The subscriber, or the call that broadcasts the heatmap, may still send *)
(* m to s.                                                                 *)
SubscriberMay(s, m) ==
    \/ m \notin published
    \/ \E i \in 1 .. Len(inbox) : inbox[i] = m
    \/ round["subscriber"].message = m /\ Ahead(round["subscriber"], s, conns, socket)

CallMay(s, m) ==
    /\ m \in Heatmaps
    /\ m \notin published \/ Ahead(round[m], s, conns, socket)

One(may) == IF may THEN 1 ELSE 0

SentOrMay ==
    \A s \in Sockets, m \in Messages :
        got[s][m] + One(SubscriberMay(s, m)) + One(CallMay(s, m)) <= IF m \in Heatmaps THEN 2 ELSE 1

(* A message is queued once, and not while it is forwarded; a heatmap is   *)
(* sent by its own call.                                                   *)
Queued ==
    /\ Distinct(inbox)
    /\ round["subscriber"].pc = "sending" =>
        /\ round["subscriber"].message \in published
        /\ \A i \in 1 .. Len(inbox) : inbox[i] # round["subscriber"].message
    /\ \A h \in Heatmaps : round[h].pc = "sending" => h \in published /\ round[h].message = h

(* Who is registered has connected, and so has who refused.                *)
RegisteredConnected ==
    /\ \A u \in DOMAIN conns : \A i \in 1 .. Len(conns[u]) : socket[conns[u][i]] # "new"
    /\ \A s \in refused : socket[s] # "new"

DashInv ==
    /\ Types /\ DictOK(conns) /\ RegisteredConnected
    /\ \A b \in Senders : RoundOK(round[b], conns, socket)
    /\ Queued /\ SentOrMay
    /\ PassedOverByARemoval /\ RefusedIsRemoved

-----------------------------------------------------------------------------
\* Lists and rounds when connections are removed.

(* What disconnect leaves of the lists: every connection that stays has    *)
(* moved up or kept its place; lists without a removal stay as they are;   *)
(* a list without connections is gone.                                     *)
LEMMA Removal ==
    ASSUME NEW dict, DictOK(dict), NEW gone
    PROVE  /\ DictOK(Disconnected(dict, gone))
           /\ DOMAIN Disconnected(dict, gone) \subseteq DOMAIN dict
           /\ \A u \in DOMAIN Disconnected(dict, gone) : \A j \in 1 .. Len(Disconnected(dict, gone)[u]) :
                 /\ Disconnected(dict, gone)[u][j] \notin gone
                 /\ \E k \in 1 .. Len(dict[u]) : j <= k /\ dict[u][k] = Disconnected(dict, gone)[u][j]
           /\ \A u \in DOMAIN dict : (\A k \in 1 .. Len(dict[u]) : dict[u][k] \notin gone) =>
                 u \in DOMAIN Disconnected(dict, gone) /\ Disconnected(dict, gone)[u] = dict[u]
           /\ \A u \in DOMAIN dict : (\E k \in 1 .. Len(dict[u]) : dict[u][k] \notin gone) =>
                 u \in DOMAIN Disconnected(dict, gone)
<1> DEFINE new == Disconnected(dict, gone)
           keep == Sockets \ gone
<1>1. ASSUME NEW u \in DOMAIN dict
      PROVE  /\ dict[u] \in Seq(Sockets) /\ dict[u] # <<>> /\ Distinct(dict[u])
             /\ \A i \in 1 .. Len(dict[u]) : UserOf[dict[u][i]] = u /\ dict[u][i] \in Sockets
             /\ Len(dict[u]) \in Nat
  BY DEF DictOK
<1>2. /\ new = [u \in DOMAIN new |-> new[u]]
      /\ DOMAIN new = {u \in DOMAIN dict : Kept(dict[u], keep) # <<>>}
      /\ \A u \in DOMAIN new : new[u] = Kept(dict[u], keep)
  BY DEF Disconnected
<1> HIDE DEF new
<1>3. ASSUME NEW u \in DOMAIN dict
      PROVE  /\ Kept(dict[u], keep) \in Seq(Sockets) /\ Distinct(Kept(dict[u], keep))
             /\ \A j \in 1 .. Len(Kept(dict[u], keep)) :
                   /\ Kept(dict[u], keep)[j] \in keep
                   /\ \E k \in 1 .. Len(dict[u]) : j <= k /\ dict[u][k] = Kept(dict[u], keep)[j]
             /\ \A k \in 1 .. Len(dict[u]) : dict[u][k] \in keep =>
                   \E j \in 1 .. Len(Kept(dict[u], keep)) : Kept(dict[u], keep)[j] = dict[u][k]
  <2> HIDE DEF keep
  <2>1. Kept(dict[u], keep) \in Seq(Sockets)
    BY <1>1, KeptProperties
  <2>2. Distinct(Kept(dict[u], keep))
    BY <1>1, KeptDistinct DEF Distinct
  <2>3. PICK at : Remains(Kept(dict[u], keep), at, dict[u], keep, Len(dict[u]))
    BY <1>1, KeptProperties
  <2>4. ASSUME NEW j \in 1 .. Len(Kept(dict[u], keep))
        PROVE  /\ Kept(dict[u], keep)[j] \in keep
               /\ \E k \in 1 .. Len(dict[u]) : j <= k /\ dict[u][k] = Kept(dict[u], keep)[j]
    <3>1. /\ at[j] \in 1 .. Len(dict[u]) /\ j <= at[j] /\ Kept(dict[u], keep)[j] = dict[u][at[j]]
          /\ Kept(dict[u], keep)[j] \in keep
      BY <2>3 DEF Remains
    <3> QED
      BY <3>1
  <2>5. ASSUME NEW k \in 1 .. Len(dict[u]), dict[u][k] \in keep
        PROVE  \E j \in 1 .. Len(Kept(dict[u], keep)) : Kept(dict[u], keep)[j] = dict[u][k]
    <3>1. PICK j \in 1 .. Len(Kept(dict[u], keep)) : at[j] = k
      BY <2>3, <2>5 DEF Remains
    <3> QED
      BY <2>3, <3>1 DEF Remains
  <2> QED
    BY <2>1, <2>2, <2>4, <2>5
<1>4. ASSUME NEW u \in DOMAIN new
      PROVE  /\ u \in DOMAIN dict
             /\ new[u] \in Seq(Sockets) /\ new[u] # <<>> /\ Distinct(new[u])
             /\ \A j \in 1 .. Len(new[u]) :
                   /\ new[u][j] \notin gone /\ UserOf[new[u][j]] = u
                   /\ \E k \in 1 .. Len(dict[u]) : j <= k /\ dict[u][k] = new[u][j]
  <2>1. u \in DOMAIN dict /\ new[u] = Kept(dict[u], keep) /\ new[u] # <<>>
    BY <1>2
  <2> DEFINE kept == Kept(dict[u], keep)
  <2>2. kept \in Seq(Sockets) /\ Distinct(kept)
    BY <1>3, <2>1
  <2>3. ASSUME NEW j \in 1 .. Len(kept)
        PROVE  /\ kept[j] \notin gone /\ UserOf[kept[j]] = u
               /\ \E k \in 1 .. Len(dict[u]) : j <= k /\ dict[u][k] = kept[j]
    <3>1. kept[j] \in keep /\ \E k \in 1 .. Len(dict[u]) : j <= k /\ dict[u][k] = kept[j]
      BY <1>3, <2>1
    <3> QED
      BY <1>1, <2>1, <3>1
  <2> HIDE DEF kept
  <2>4. new[u] = kept
    BY <2>1 DEF kept
  <2> QED
    BY <2>1, <2>2, <2>3, <2>4
<1>5. DictOK(new)
  BY <1>2, <1>4 DEF DictOK
<1>6. ASSUME NEW u \in DOMAIN dict, NEW k \in 1 .. Len(dict[u]), dict[u][k] \notin gone
      PROVE  u \in DOMAIN new
  <2>1. dict[u][k] \in keep
    BY <1>1, <1>6
  <2>2. PICK j \in 1 .. Len(Kept(dict[u], keep)) : Kept(dict[u], keep)[j] = dict[u][k]
    BY <1>3, <2>1
  <2>3. Kept(dict[u], keep) # <<>>
    BY <2>2
  <2> QED
    BY <1>2, <2>3
<1>7. ASSUME NEW u \in DOMAIN dict, \A k \in 1 .. Len(dict[u]) : dict[u][k] \notin gone
      PROVE  u \in DOMAIN new /\ new[u] = dict[u]
  <2>1. \A k \in 1 .. Len(dict[u]) : dict[u][k] \in keep
    BY <1>1, <1>7
  <2>2. Kept(dict[u], keep) = dict[u]
    BY <1>1, <2>1, KeptAll
  <2> QED
    BY <1>1, <1>2, <2>2
<1> QED
  BY <1>4, <1>5, <1>6, <1>7 DEF new

(* A round when these connections are removed.                             *)
Shaken(r, dict, gone) ==
    LET list == Range(ListOf(dict, r.user)) IN
    IF list \cap gone = {} THEN r
    ELSE [r EXCEPT !.disturbed = TRUE, !.detached = @ \/ list \subseteq gone, !.owed = @ \ gone]

(* The elements of a list.                                                 *)
LEMMA RangeOfList ==
    ASSUME NEW dict, DictOK(dict), NEW u
    PROVE  /\ u \in DOMAIN dict => Range(ListOf(dict, u)) = {dict[u][k] : k \in 1 .. Len(dict[u])}
           /\ u \notin DOMAIN dict => Range(ListOf(dict, u)) = {}
<1>1. CASE u \in DOMAIN dict
  <2>1. dict[u] \in Seq(Sockets)
    BY <1>1 DEF DictOK
  <2>2. DOMAIN dict[u] = 1 .. Len(dict[u])
    BY <2>1
  <2> QED
    BY <1>1, <2>2 DEF ListOf, Range
<1>2. CASE u \notin DOMAIN dict
  BY <1>2 DEF ListOf, Range
<1> QED
  BY <1>1, <1>2

(* A removal may disturb a round, but the round stays on its way, and has  *)
(* nobody new ahead.                                                       *)
LEMMA ShakenOK ==
    ASSUME NEW dict, DictOK(dict), NEW gone, NEW r \in Rounds, NEW sock, NEW sock2,
           RoundOK(r, dict, sock), \A s \in Sockets : sock2[s] = "new" <=> sock[s] = "new"
    PROVE  /\ Shaken(r, dict, gone) \in Rounds
           /\ RoundOK(Shaken(r, dict, gone), Disconnected(dict, gone), sock2)
           /\ Shaken(r, dict, gone).pc = r.pc /\ Shaken(r, dict, gone).message = r.message
           /\ Shaken(r, dict, gone).dead = r.dead
           /\ \A s \in Sockets :
                 Ahead(Shaken(r, dict, gone), s, Disconnected(dict, gone), sock2) => Ahead(r, s, dict, sock)
<1> DEFINE q == Shaken(r, dict, gone)
           new == Disconnected(dict, gone)
           list == Range(ListOf(dict, r.user))
<1>1. /\ q \in Rounds /\ q.pc = r.pc /\ q.message = r.message /\ q.todo = r.todo /\ q.user = r.user
      /\ q.target = r.target /\ q.index = r.index /\ q.dead = r.dead
      /\ q.disturbed = (r.disturbed \/ list \cap gone # {})
      /\ q.detached = (r.detached \/ (list \cap gone # {} /\ list \subseteq gone))
      /\ q.owed \subseteq r.owed
  <2>1. CASE list \cap gone = {}
    <3>1. q = r
      BY <2>1 DEF Shaken
    <3> HIDE DEF q, list
    <3> QED
      BY <2>1, <3>1 DEF Rounds
  <2>2. CASE list \cap gone # {}
    <3> DEFINE d == r.detached \/ list \subseteq gone
    <3>1. q = [r EXCEPT !.disturbed = TRUE, !.detached = d, !.owed = @ \ gone]
      BY <2>2 DEF Shaken
    <3>2. d \in BOOLEAN
      BY DEF Rounds
    <3> HIDE DEF q, d
    <3>3. q \in Rounds
      BY <3>1, <3>2 DEF Rounds
    <3>4. /\ q.pc = r.pc /\ q.message = r.message /\ q.todo = r.todo /\ q.user = r.user
          /\ q.target = r.target /\ q.index = r.index /\ q.dead = r.dead
          /\ q.disturbed = TRUE /\ q.detached = d /\ q.owed = r.owed \ gone
      BY <3>1 DEF Rounds
    <3> HIDE DEF list
    <3> QED
      BY <2>2, <3>3, <3>4 DEF d
  <2> QED
    BY <2>1, <2>2
<1>2. /\ DictOK(new) /\ DOMAIN new \subseteq DOMAIN dict
      /\ \A u \in DOMAIN new : \A j \in 1 .. Len(new[u]) :
           /\ new[u][j] \notin gone
           /\ \E k \in 1 .. Len(dict[u]) : j <= k /\ dict[u][k] = new[u][j]
      /\ \A u \in DOMAIN dict : (\A k \in 1 .. Len(dict[u]) : dict[u][k] \notin gone) =>
           u \in DOMAIN new /\ new[u] = dict[u]
      /\ \A u \in DOMAIN dict : (\E k \in 1 .. Len(dict[u]) : dict[u][k] \notin gone) => u \in DOMAIN new
  BY Removal
<1>3. r.user \in DOMAIN dict => list = {dict[r.user][k] : k \in 1 .. Len(dict[r.user])}
  BY RangeOfList
<1> HIDE DEF q, new, list
<1>4. ASSUME r.pc = "sending" PROVE Walk(q, new, sock2)
  <2>1. Walk(r, dict, sock)
    BY <1>4 DEF RoundOK
  <2>2. /\ q.message \in Messages /\ q.user \in Users /\ q.user \notin q.todo
        /\ q.target \in Sockets /\ UserOf[q.target] = q.user /\ sock2[q.target] # "new" /\ q.index # 0
    BY <1>1, <2>1 DEF Walk
  <2>3. ASSUME ~ q.detached
        PROVE  /\ q.user \in DOMAIN new
               /\ \A j \in 1 .. Len(new[q.user]) : q.index < j => new[q.user][j] # q.target
    <3>1. ~ r.detached /\ r.user \in DOMAIN dict
      BY <1>1, <2>1, <2>3 DEF Walk
    <3>2. list \cap gone = {} \/ ~ (list \subseteq gone)
      BY <1>1, <2>3
    <3>3. list # {}
      <4>1. 1 \in 1 .. Len(dict[r.user])
        BY <3>1 DEF DictOK
      <4> QED
        BY <1>3, <3>1, <4>1
    <3>4. \E k \in 1 .. Len(dict[r.user]) : dict[r.user][k] \notin gone
      BY <1>3, <3>1, <3>2, <3>3
    <3>5. q.user \in DOMAIN new
      BY <1>1, <1>2, <3>1, <3>4
    <3>6. ASSUME NEW j \in 1 .. Len(new[q.user]), q.index < j PROVE new[q.user][j] # q.target
      <4>1. PICK k \in 1 .. Len(dict[q.user]) : j <= k /\ dict[q.user][k] = new[q.user][j]
        BY <1>2, <3>5
      <4>2. r.index < k
        BY <1>1, <3>6, <4>1 DEF Rounds
      <4> QED
        BY <1>1, <2>1, <3>1, <4>1, <4>2 DEF Walk
    <3> QED
      BY <3>5, <3>6
  <2>4. ASSUME ~ q.disturbed
        PROVE  /\ ~ q.detached
               /\ q.index <= Len(new[q.user]) /\ new[q.user][q.index] = q.target
               /\ \A s \in q.owed : \E j \in 1 .. Len(new[q.user]) : q.index <= j /\ new[q.user][j] = s
    <3>1. ~ r.disturbed /\ list \cap gone = {}
      BY <1>1, <2>4
    <3>2. ~ r.detached /\ r.user \in DOMAIN dict /\ ~ q.detached
      BY <1>1, <2>1, <3>1 DEF Walk
    <3>3. new[q.user] = dict[r.user]
      BY <1>1, <1>2, <1>3, <3>1, <3>2
    <3> QED
      BY <1>1, <2>1, <3>1, <3>2, <3>3 DEF Walk
  <2> QED
    BY <2>2, <2>3, <2>4 DEF Walk
<1>5. RoundOK(q, new, sock2)
  BY <1>1, <1>4 DEF RoundOK, Rounds
<1>6. ASSUME NEW s \in Sockets, Ahead(q, s, new, sock2) PROVE Ahead(r, s, dict, sock)
  <2>1. r.pc = "sending" /\ Walk(r, dict, sock) /\ Walk(q, new, sock2)
    BY <1>1, <1>4, <1>6 DEF Ahead, RoundOK
  <2>2. CASE ~ q.detached /\ UserOf[s] = q.user /\ \E j \in 1 .. Len(new[q.user]) : q.index < j /\ new[q.user][j] = s
    <3>1. PICK j \in 1 .. Len(new[q.user]) : q.index < j /\ new[q.user][j] = s
      BY <2>2
    <3>2. q.user \in DOMAIN new
      BY <2>1, <2>2 DEF Walk
    <3>3. PICK k \in 1 .. Len(dict[q.user]) : j <= k /\ dict[q.user][k] = new[q.user][j]
      BY <1>2, <3>2
    <3>4. r.index < k /\ dict[r.user][k] = s
      BY <1>1, <3>1, <3>3 DEF Rounds
    <3> QED
      BY <1>1, <2>1, <2>2, <3>3, <3>4 DEF Ahead
  <2> QED
    BY <1>1, <1>6, <2>1, <2>2 DEF Ahead
<1> QED
  BY <1>1, <1>5, <1>6 DEF q, new

-----------------------------------------------------------------------------
\* Going on with a user.

Range1(dict, u) == {dict[u][k] : k \in 1 .. Len(dict[u])}

Turned(r, without, dict, u) == AtUser([r EXCEPT !.todo = @ \ without], dict, u)

(* A round that turns to a user is at the first connection of the list and *)
(* owes all of it; whoever is ahead now was still to be done.              *)
LEMMA AtUserOK ==
    ASSUME NEW dict, DictOK(dict), NEW sock,
           \A u \in DOMAIN dict : \A i \in 1 .. Len(dict[u]) : sock[dict[u][i]] # "new",
           NEW r \in Rounds, r.message \in Messages,
           NEW u \in r.todo \cap DOMAIN dict, NEW without \in SUBSET r.todo
    PROVE  /\ Turned(r, without, dict, u) \in Rounds
           /\ RoundOK(Turned(r, without, dict, u), dict, sock)
           /\ Turned(r, without, dict, u).pc = "sending"
           /\ Turned(r, without, dict, u).message = r.message
           /\ \A s \in Sockets : Ahead(Turned(r, without, dict, u), s, dict, sock) =>
                 UserOf[s] \in r.todo
<1> DEFINE q == [r EXCEPT !.todo = @ \ without]
           a == AtUser(q, dict, u)
<1>1. q \in Rounds /\ q.todo = r.todo \ without /\ q.message = r.message
  BY DEF Rounds
<1> HIDE DEF q
<1>2. /\ dict[u] \in Seq(Sockets) /\ dict[u] # <<>> /\ Distinct(dict[u]) /\ u \in Users
      /\ \A i \in 1 .. Len(dict[u]) : UserOf[dict[u][i]] = u
  BY DEF DictOK
<1>3. Len(dict[u]) \in Nat \ {0} /\ 1 \in 1 .. Len(dict[u]) /\ dict[u][1] \in Sockets /\ DOMAIN dict[u] = 1 .. Len(dict[u])
  BY <1>2
<1>4. Range(dict[u]) = Range1(dict, u) /\ Range(dict[u]) \in SUBSET Sockets
  BY <1>2, <1>3 DEF Range, Range1
<1> DEFINE first == dict[u][1]
           all == Range(dict[u])
           rest == q.todo \ {u}
<1>5. a = [q EXCEPT !.pc = "sending", !.user = u, !.todo = rest, !.target = first, !.index = 1,
                    !.detached = FALSE, !.disturbed = FALSE, !.dead = {}, !.owed = all]
  BY DEF AtUser
<1>6. rest \in SUBSET Users
  BY <1>1 DEF Rounds
<1> HIDE DEF a, first, all, rest
<1>7. a \in Rounds
  BY <1>1, <1>2, <1>3, <1>4, <1>5, <1>6 DEF Rounds, first, all
<1>8. /\ a.pc = "sending" /\ a.message = r.message /\ a.user = u /\ a.todo = rest /\ a.target = first
      /\ a.index = 1 /\ a.detached = FALSE /\ a.disturbed = FALSE /\ a.owed = all
  BY <1>1, <1>5 DEF Rounds
<1>9. Walk(a, dict, sock)
  <2>1. \A j \in 1 .. Len(dict[u]) : 1 < j => dict[u][j] # first
    BY <1>2, <1>3 DEF Distinct, first
  <2>2. \A s \in all : \E j \in 1 .. Len(dict[u]) : 1 <= j /\ dict[u][j] = s
    BY <1>4 DEF Range1, all
  <2> QED
    BY <1>2, <1>3, <1>8, <2>1, <2>2 DEF Walk, first, rest
<1>10. ASSUME NEW s \in Sockets, Ahead(a, s, dict, sock) PROVE UserOf[s] \in r.todo
  <2>1. UserOf[s] \in rest \/ UserOf[s] = u
    BY <1>2, <1>3, <1>8, <1>10 DEF Ahead, first
  <2> QED
    BY <1>1, <2>1 DEF rest
<1> QED
  BY <1>7, <1>8, <1>9, <1>10 DEF a, q, RoundOK, Turned

(* A round that has not begun.                                             *)
LEMMA NoRoundOK ==
    /\ NoRound \in Rounds /\ NoRound.pc = "idle" /\ NoRound.dead = {}
    /\ \A dict, sock : RoundOK(NoRound, dict, sock)
    /\ \A s, dict, sock : ~ Ahead(NoRound, s, dict, sock)
<1>1. NoRound \in Rounds
  BY DEF NoRound, Rounds
<1> QED
  BY <1>1 DEF NoRound, RoundOK, Ahead

(* What a round is that goes on.                                           *)
Onward(a, r, dict, sock) ==
    /\ a \in Rounds /\ RoundOK(a, dict, sock)
    /\ a.pc = "sending" => a.message = r.message
    /\ a.dead = {}
    /\ \A s \in Sockets : Ahead(a, s, dict, sock) => UserOf[s] \in r.todo

(* A round that goes on with its next user.                                *)
LEMMA GoOnOK ==
    ASSUME NEW rounds, NEW b, NEW dict, DictOK(dict), NEW sock,
           \A u \in DOMAIN dict : \A i \in 1 .. Len(dict[u]) : sock[dict[u][i]] # "new",
           NEW r \in Rounds, r.message \in Messages, GoOn(rounds, b, r, dict)
    PROVE  \E a : round' = [rounds EXCEPT ![b] = a] /\ Onward(a, r, dict, sock)
<1>1. CASE r.todo \cap DOMAIN dict = {}
  <2>1. round' = [rounds EXCEPT ![b] = NoRound]
    BY <1>1 DEF GoOn
  <2>2. Onward(NoRound, r, dict, sock)
    BY NoRoundOK DEF Onward
  <2> QED
    BY <2>1, <2>2
<1>2. CASE r.todo \cap DOMAIN dict # {}
  <2>1. PICK u \in r.todo \cap DOMAIN dict, without \in SUBSET (r.todo \ (r.todo \cap DOMAIN dict)) :
            round' = [rounds EXCEPT ![b] = Turned(r, without, dict, u)]
    BY <1>2 DEF GoOn, Turned
  <2> DEFINE a == Turned(r, without, dict, u)
  <2>2. a.dead = {}
    BY DEF Turned, AtUser, Rounds
  <2>3. Onward(a, r, dict, sock)
    <3>1. without \in SUBSET r.todo
      OBVIOUS
    <3> QED
      BY <2>2, <3>1, AtUserOK DEF Onward
  <2> QED
    BY <2>1, <2>3
<1> QED
  BY <1>1, <1>2

(* A round that begins.                                                    *)
LEMMA BeginRoundOK ==
    ASSUME NEW b, DictOK(conns), RegisteredConnected, NEW message \in Messages, BeginRound(b, message)
    PROVE  \E a : /\ round' = [round EXCEPT ![b] = a]
                  /\ a \in Rounds /\ RoundOK(a, conns, socket) /\ a.dead = {}
                  /\ a.pc = "sending" => a.message = message
<1> DEFINE r == [NoRound EXCEPT !.message = message, !.todo = DOMAIN conns]
<1>1. r \in Rounds /\ r.message = message
  BY NoRoundOK DEF Rounds, NoRound, DictOK
<1>2. GoOn(round, b, r, conns)
  BY DEF BeginRound
<1> HIDE DEF r
<1>3. PICK a : round' = [round EXCEPT ![b] = a] /\ Onward(a, r, conns, socket)
  BY <1>1, <1>2, GoOnOK DEF RegisteredConnected
<1> QED
  BY <1>1, <1>3 DEF Onward

-----------------------------------------------------------------------------
\* The steps.

(* The invariant holds before the first connection.                        *)
LEMMA DashInitially == DashInit => DashInv
<1> SUFFICES ASSUME DashInit PROVE DashInv
  OBVIOUS
<1>1. Types
  BY NoRoundOK DEF DashInit, Types
<1>2. conns = <<>> /\ DOMAIN conns = {} /\ Len(inbox) = 0 /\ inbox = <<>>
  BY DEF DashInit
<1>3. DictOK(conns) /\ RegisteredConnected
  BY <1>2 DEF DictOK, RegisteredConnected, DashInit
<1>4. \A b \in Senders : round[b] = NoRound
  BY DEF DashInit
<1>5. Queued
  <2>1. "subscriber" \in Senders /\ \A h \in Heatmaps : h \in Senders
    BY DEF Senders
  <2>2. round["subscriber"].pc = "idle" /\ \A h \in Heatmaps : round[h].pc = "idle"
    BY <1>4, <2>1, NoRoundOK
  <2> QED
    BY <1>2, <2>2 DEF Queued, Distinct
<1>6. SentOrMay
  BY DEF DashInit, SentOrMay, One, CallMay
<1>7. PassedOverByARemoval /\ RefusedIsRemoved
  BY DEF DashInit, PassedOverByARemoval, RefusedIsRemoved
<1> QED
  BY <1>1, <1>3, <1>4, <1>5, <1>6, <1>7, NoRoundOK DEF DashInv

(* A step that sends nothing and gives nobody a new chance to send.        *)
LEMMA SentKept ==
    ASSUME SentOrMay, Types, got' = got,
           \A s \in Sockets, m \in Messages :
               (SubscriberMay(s, m)' => SubscriberMay(s, m)) /\ (CallMay(s, m)' => CallMay(s, m))
    PROVE  SentOrMay'
<1> SUFFICES ASSUME NEW s \in Sockets, NEW m \in Messages
             PROVE  got[s][m] + One(SubscriberMay(s, m)') + One(CallMay(s, m)') <= IF m \in Heatmaps THEN 2 ELSE 1
  BY DEF SentOrMay, One
<1>1. got[s][m] \in Nat
  BY DEF Types
<1>2. got[s][m] + One(SubscriberMay(s, m)) + One(CallMay(s, m)) <= IF m \in Heatmaps THEN 2 ELSE 1
  BY DEF SentOrMay
<1>3. One(SubscriberMay(s, m)') <= One(SubscriberMay(s, m)) /\ One(CallMay(s, m)') <= One(CallMay(s, m))
  BY DEF One
<1>4. /\ One(SubscriberMay(s, m)') \in Nat /\ One(SubscriberMay(s, m)) \in Nat
      /\ One(CallMay(s, m)') \in Nat /\ One(CallMay(s, m)) \in Nat
  BY DEF One
<1> QED
  BY <1>1, <1>2, <1>3, <1>4

(* A step after which nobody is registered who was not and nobody forgets  *)
(* a failure.                                                              *)
LEMMA RefusedKept ==
    ASSUME RefusedIsRemoved, refused' = refused, subscribed' = "stopped" \/ subscribed # "stopped",
           Registered' \cap refused \subseteq Registered,
           \A b \in Senders : round[b].dead \subseteq round'[b].dead
    PROVE  RefusedIsRemoved'
  BY DEF RefusedIsRemoved

(* The rounds and what is still to be sent, when every round is the same   *)
(* or shaken.                                                              *)
LEMMA MayShrinks ==
    ASSUME published' = published, inbox' = inbox \/ inbox' = <<>>,
           \A b \in Senders : \A s \in Sockets :
               Ahead(round'[b], s, conns', socket') => /\ Ahead(round[b], s, conns, socket)
                                                       /\ round'[b].message = round[b].message
    PROVE  \A s \in Sockets, m \in Messages :
               (SubscriberMay(s, m)' => SubscriberMay(s, m)) /\ (CallMay(s, m)' => CallMay(s, m))
<1> SUFFICES ASSUME NEW s \in Sockets, NEW m \in Messages
             PROVE  (SubscriberMay(s, m)' => SubscriberMay(s, m)) /\ (CallMay(s, m)' => CallMay(s, m))
  OBVIOUS
<1>1. "subscriber" \in Senders /\ (m \in Heatmaps => m \in Senders)
  BY DEF Senders
<1> QED
  BY <1>1 DEF SubscriberMay, CallMay

(* A connection is accepted and registered.                                *)
LEMMA ConnectStep == ASSUME DashInv, NEW s \in Sockets, Connect(s) PROVE DashInv'
<1> DEFINE u == UserOf[s]
           old == ListOf(conns, u)
           list == Append(old, s)
<1>0. /\ Types /\ DictOK(conns) /\ RegisteredConnected /\ SentOrMay /\ u \in Users
      /\ \A b \in Senders : round[b] \in Rounds /\ RoundOK(round[b], conns, socket)
  BY DashboardAssumption DEF DashInv, Types
<1>1. /\ old \in Seq(Sockets) /\ Distinct(old) /\ \A i \in 1 .. Len(old) : UserOf[old[i]] = u /\ socket[old[i]] # "new"
  <2>1. CASE u \in DOMAIN conns
    BY <1>0, <2>1 DEF DictOK, ListOf, RegisteredConnected
  <2>2. CASE u \notin DOMAIN conns
    BY <2>2 DEF ListOf, Distinct
  <2> QED
    BY <2>1, <2>2
<1>2. socket[s] = "new" /\ \A i \in 1 .. Len(old) : old[i] # s
  BY <1>1 DEF Connect
<1>3. /\ list \in Seq(Sockets) /\ list # <<>> /\ Len(list) = Len(old) + 1 /\ Len(old) \in Nat
      /\ \A i \in 1 .. Len(list) : list[i] = IF i <= Len(old) THEN old[i] ELSE s
  <2>1. old \in Seq(Sockets)
    BY <1>1
  <2> HIDE DEF old, u
  <2>2. list \in Seq(Sockets) /\ Len(list) = Len(old) + 1 /\ Len(old) \in Nat
    BY <2>1
  <2>3. \A i \in 1 .. Len(list) : list[i] = IF i <= Len(old) THEN old[i] ELSE s
    BY <2>1
  <2>4. list # <<>>
    BY <2>2
  <2> QED
    BY <2>2, <2>3, <2>4
<1>4. /\ DOMAIN conns' = DOMAIN conns \cup {u} /\ conns' = [v \in DOMAIN conns' |-> conns'[v]] /\ conns'[u] = list
      /\ \A v \in DOMAIN conns' : v # u => v \in DOMAIN conns /\ conns'[v] = conns[v]
  BY DEF Connect, WithList
<1>5. /\ socket' = [socket EXCEPT ![s] = "open"] /\ socket' \in [Sockets -> {"new", "open", "broken", "closed"}]
      /\ socket'[s] = "open" /\ \A x \in Sockets : x # s => socket'[x] = socket[x]
  BY <1>0 DEF Connect, Types
<1> HIDE DEF list
<1>6. DictOK(conns')
  <2>1. Distinct(list)
    BY <1>1, <1>2, <1>3 DEF Distinct
  <2>2. \A i \in 1 .. Len(list) : UserOf[list[i]] = u
    BY <1>1, <1>3
  <2> QED
    BY <1>0, <1>3, <1>4, <2>1, <2>2 DEF DictOK
<1>7. RegisteredConnected'
  <2>1. \A i \in 1 .. Len(list) : socket'[list[i]] # "new"
    BY <1>1, <1>2, <1>3, <1>5
  <2>2. ASSUME NEW v \in DOMAIN conns, NEW i \in 1 .. Len(conns[v]) PROVE socket'[conns[v][i]] # "new"
    BY <1>0, <1>5 DEF RegisteredConnected, DictOK
  <2>3. \A x \in refused : socket'[x] # "new"
    BY <1>0, <1>5 DEF RegisteredConnected, Types
  <2> QED
    BY <1>4, <2>1, <2>2, <2>3 DEF RegisteredConnected, Connect
<1>8. ASSUME NEW b \in Senders
      PROVE  /\ RoundOK(round[b], conns', socket')
             /\ \A x \in Sockets : Ahead(round[b], x, conns', socket') => Ahead(round[b], x, conns, socket)
  <2> DEFINE r == round[b]
  <2>0. r \in Rounds /\ RoundOK(r, conns, socket)
    BY <1>0
  <2> HIDE DEF r
  <2>1. ASSUME r.pc = "sending", r.user \in DOMAIN conns
        PROVE  /\ r.user \in DOMAIN conns' /\ Len(conns[r.user]) <= Len(conns'[r.user]) /\ Len(conns[r.user]) \in Nat
               /\ \A j \in 1 .. Len(conns[r.user]) : conns'[r.user][j] = conns[r.user][j]
               /\ \A j \in 1 .. Len(conns'[r.user]) : j \in 1 .. Len(conns[r.user]) \/ conns'[r.user][j] = s
    <3>1. CASE r.user = u
      <4>1. old = conns[u]
        BY <2>1, <3>1 DEF ListOf
      <4> HIDE DEF u, old
      <4> QED
        BY <1>3, <1>4, <3>1, <4>1
    <3>2. CASE r.user # u
      <4>1. Len(conns[r.user]) \in Nat
        BY <1>0, <2>1 DEF DictOK
      <4> QED
        BY <1>4, <2>1, <3>2, <4>1
    <3> QED
      BY <3>1, <3>2
  <2>2. ASSUME r.pc = "sending" PROVE Walk(r, conns', socket')
    <3>1. Walk(r, conns, socket) /\ r.target # s /\ r.index \in Nat
      BY <1>2, <2>0, <2>2 DEF RoundOK, Walk, Rounds
    <3>2. CASE r.user \in DOMAIN conns
      BY <1>5, <2>1, <2>2, <3>1, <3>2 DEF Walk
    <3>3. CASE r.user \notin DOMAIN conns
      BY <1>5, <3>1, <3>3 DEF Walk
    <3> QED
      BY <3>2, <3>3
  <2>3. RoundOK(r, conns', socket')
    BY <2>0, <2>2 DEF RoundOK
  <2>4. ASSUME NEW x \in Sockets, Ahead(r, x, conns', socket') PROVE Ahead(r, x, conns, socket)
    <3>1. r.pc = "sending" /\ Walk(r, conns, socket)
      BY <2>0, <2>4 DEF Ahead, RoundOK
    <3>2. CASE x = s
      BY <1>2, <2>4, <3>2 DEF Ahead
    <3>3. CASE x # s
      BY <1>5, <2>1, <2>4, <3>1, <3>3 DEF Ahead, Walk
    <3> QED
      BY <3>2, <3>3
  <2> QED
    BY <2>3, <2>4 DEF r
<1>9. Types'
  BY <1>0, <1>5 DEF Types, Connect
<1>10. SentOrMay'
  <2>1. round' = round /\ published' = published /\ inbox' = inbox /\ got' = got
    BY DEF Connect
  <2> QED
    BY <1>0, <1>8, <2>1, MayShrinks, SentKept
<1>11. Queued' /\ PassedOverByARemoval'
  BY DEF DashInv, Queued, PassedOverByARemoval, Connect
<1>12. RefusedIsRemoved'
  <2>1. s \notin refused
    BY <1>0, <1>2 DEF RegisteredConnected
  <2>2. Registered' \subseteq Registered \cup {s}
    <3>1. DictOK(conns') /\ DictOK(conns)
      BY <1>0, <1>6
    <3>2. ASSUME NEW v \in DOMAIN conns', NEW x \in Range(conns'[v]) PROVE x \in Registered \cup {s}
      <4>1. PICK i \in 1 .. Len(conns'[v]) : conns'[v][i] = x
        BY <3>1, <3>2 DEF DictOK, Range
      <4>2. ASSUME NEW w \in DOMAIN conns, NEW k \in 1 .. Len(conns[w]) PROVE conns[w][k] \in Registered
        BY <3>1 DEF Registered, DictOK, Range
      <4>3. CASE v # u
        BY <1>4, <4>1, <4>2, <4>3
      <4>4. CASE v = u
        <5>1. x = s \/ \E k \in 1 .. Len(old) : old[k] = x
          BY <1>3, <1>4, <4>1, <4>4
        <5> QED
          BY <4>2, <5>1 DEF ListOf
      <4> QED
        BY <4>3, <4>4
    <3> QED
      BY <3>2 DEF Registered
  <2>3. round' = round /\ refused' = refused /\ subscribed' = subscribed
    BY DEF Connect
  <2> QED
    BY <2>1, <2>2, <2>3, RefusedKept DEF DashInv
<1> QED
  BY <1>6, <1>7, <1>8, <1>9, <1>10, <1>11, <1>12 DEF DashInv, Connect

(* Nobody is registered anew by a removal, and who is removed is not.      *)
LEMMA RegisteredShrinks ==
    ASSUME DictOK(conns), NEW gone, conns' = Disconnected(conns, gone)
    PROVE  Registered' \subseteq Registered \ gone
<1>1. /\ DictOK(conns') /\ DOMAIN conns' \subseteq DOMAIN conns
      /\ \A u \in DOMAIN conns' : \A j \in 1 .. Len(conns'[u]) :
            /\ conns'[u][j] \notin gone
            /\ \E k \in 1 .. Len(conns[u]) : j <= k /\ conns[u][k] = conns'[u][j]
  BY Removal
<1>2. ASSUME NEW u \in DOMAIN conns', NEW x \in Range(conns'[u]) PROVE x \in Registered \ gone
  <2>0. DOMAIN conns'[u] = 1 .. Len(conns'[u])
    <3>1. conns'[u] \in Seq(Sockets)
      BY <1>1, <1>2 DEF DictOK
    <3> QED
      BY <3>1
  <2>1. PICK j \in 1 .. Len(conns'[u]) : conns'[u][j] = x
    BY <1>2, <2>0 DEF Range
  <2>2. PICK k \in 1 .. Len(conns[u]) : conns[u][k] = x
    BY <1>1, <2>1
  <2>3. x \in Range(conns[u]) /\ u \in DOMAIN conns
    BY <1>1, <2>2 DEF DictOK, Range
  <2> QED
    BY <1>1, <2>1, <2>3 DEF Registered
<1> QED
  BY <1>2 DEF Registered

(* Who is registered was accepted, also after connections are removed.     *)
LEMMA RegisteredConnectedKept ==
    ASSUME DictOK(conns), RegisteredConnected, NEW gone, conns' = Disconnected(conns, gone),
           \A s \in Sockets : socket'[s] = "new" <=> socket[s] = "new",
           refused \subseteq Sockets, refused' \subseteq Sockets,
           \A s \in refused' : s \in refused \/ socket[s] # "new"
    PROVE  RegisteredConnected'
<1>1. /\ DictOK(conns) /\ DOMAIN conns' \subseteq DOMAIN conns
      /\ \A u \in DOMAIN conns' : \A j \in 1 .. Len(conns'[u]) :
            \E k \in 1 .. Len(conns[u]) : j <= k /\ conns[u][k] = conns'[u][j]
  BY Removal
<1>2. ASSUME NEW u \in DOMAIN conns', NEW j \in 1 .. Len(conns'[u]) PROVE socket'[conns'[u][j]] # "new"
  <2>1. PICK k \in 1 .. Len(conns[u]) : conns[u][k] = conns'[u][j]
    BY <1>1
  <2>2. conns[u][k] \in Sockets /\ socket[conns[u][k]] # "new"
    BY <1>1 DEF DictOK, RegisteredConnected
  <2> QED
    BY <2>1, <2>2
<1> QED
  BY <1>2 DEF RegisteredConnected

(* A connection ends.                                                      *)
LEMMA DisconnectStep == ASSUME DashInv, NEW s \in Sockets, Disconnect(s) PROVE DashInv'
<1>0. /\ Types /\ DictOK(conns) /\ RegisteredConnected /\ SentOrMay /\ Queued
      /\ \A b \in Senders : round[b] \in Rounds /\ RoundOK(round[b], conns, socket)
  BY DEF DashInv, Types
<1>1. /\ socket' \in [Sockets -> {"new", "open", "broken", "closed"}]
      /\ \A x \in Sockets : socket'[x] = "new" <=> socket[x] = "new"
  BY <1>0 DEF Types, Disconnect
<1>2. /\ conns' = Disconnected(conns, {s}) /\ round' = [b \in Senders |-> Shaken(round[b], conns, {s})]
      /\ UNCHANGED <<subscribed, inbox, published, got, refused, passed>>
  BY DEF Disconnect, Disturbed, Shaken
<1>3. DictOK(conns')
  BY <1>0, <1>2, Removal
<1>4. ASSUME NEW b \in Senders
      PROVE  /\ round'[b] \in Rounds /\ RoundOK(round'[b], conns', socket')
             /\ round'[b].pc = round[b].pc /\ round'[b].message = round[b].message /\ round'[b].dead = round[b].dead
             /\ \A x \in Sockets : Ahead(round'[b], x, conns', socket') => Ahead(round[b], x, conns, socket)
  <2>1. round[b] \in Rounds /\ RoundOK(round[b], conns, socket) /\ round'[b] = Shaken(round[b], conns, {s})
    BY <1>0, <1>2
  <2> QED
    BY <1>0, <1>1, <1>2, <2>1, ShakenOK
<1>5. Types'
  BY <1>0, <1>1, <1>2, <1>4 DEF Types
<1>6. RegisteredConnected'
  BY <1>0, <1>1, <1>2, RegisteredConnectedKept DEF Types
<1>7. Queued'
  <2>1. "subscriber" \in Senders /\ \A h \in Heatmaps : h \in Senders
    BY DEF Senders
  <2> QED
    BY <1>0, <1>2, <1>4, <2>1 DEF Queued
<1>8. SentOrMay'
  BY <1>0, <1>2, <1>4, MayShrinks, SentKept
<1>9. PassedOverByARemoval'
  BY <1>2 DEF DashInv, PassedOverByARemoval
<1>10. RefusedIsRemoved'
  <2>1. Registered' \subseteq Registered
    BY <1>0, <1>2, RegisteredShrinks
  <2> QED
    BY <1>2, <1>4, <2>1, RefusedKept DEF DashInv
<1> QED
  BY <1>3, <1>4, <1>5, <1>6, <1>7, <1>8, <1>9, <1>10 DEF DashInv

(* A connection breaks, unnoticed.                                         *)
LEMMA BreakStep == ASSUME DashInv, NEW s \in Sockets, Break(s) PROVE DashInv'
<1>0. Types /\ DictOK(conns) /\ RegisteredConnected /\ SentOrMay /\ Queued /\ RefusedIsRemoved /\ PassedOverByARemoval
  BY DEF DashInv
<1>1. /\ socket' \in [Sockets -> {"new", "open", "broken", "closed"}]
      /\ \A x \in Sockets : socket'[x] = "new" <=> socket[x] = "new"
  BY <1>0 DEF Types, Break
<1>2. UNCHANGED <<conns, subscribed, inbox, round, published, got, refused, passed>>
  BY DEF Break
<1>3. Types' /\ DictOK(conns') /\ Queued' /\ PassedOverByARemoval'
  BY <1>0, <1>1, <1>2 DEF Types, Queued, PassedOverByARemoval
<1>4. ASSUME NEW b \in Senders
      PROVE  /\ RoundOK(round'[b], conns', socket')
             /\ \A x \in Sockets : Ahead(round'[b], x, conns', socket') => Ahead(round[b], x, conns, socket)
  BY <1>1, <1>2 DEF DashInv, RoundOK, Walk, Ahead
<1>5. RegisteredConnected'
  BY <1>0, <1>1, <1>2 DEF RegisteredConnected, DictOK, Types
<1>6. SentOrMay'
  BY <1>0, <1>2, <1>4, MayShrinks, SentKept
<1>7. RefusedIsRemoved'
  BY <1>0, <1>2 DEF RefusedIsRemoved, Registered
<1> QED
  BY <1>3, <1>4, <1>5, <1>6, <1>7 DEF DashInv

-----------------------------------------------------------------------------
\* The end of a send.

(* What the end of a send of b to t does to the rounds and the lists: no   *)
(* round begins, and nobody is ahead who was not; t is not ahead of b.     *)
Progress(b, t) ==
    /\ round' \in [Senders -> Rounds]
    /\ \A d \in Senders : RoundOK(round'[d], conns', socket')
    /\ \A d \in Senders : round'[d].pc = "sending" =>
           round[d].pc = "sending" /\ round'[d].message = round[d].message
    /\ \A d \in Senders, x \in Sockets : Ahead(round'[d], x, conns', socket') =>
           Ahead(round[d], x, conns, socket) /\ ~ (d = b /\ x = t)
    /\ DictOK(conns') /\ RegisteredConnected'
    /\ passed' \subseteq [socket : Sockets, disturbed : BOOLEAN]
    /\ PassedOverByARemoval' /\ RefusedIsRemoved'

(* The round when the send has ended.                                      *)
Ended(b, failed) ==
    [round[b] EXCEPT !.dead = IF failed THEN @ \cup {round[b].target} ELSE @, !.owed = @ \ {round[b].target}]

(* The end of one send, noted in its round.                                *)
LEMMA EndedOK ==
    ASSUME DashInv, NEW b \in Senders, NEW failed \in BOOLEAN, round[b].pc = "sending"
    PROVE  /\ Ended(b, failed) \in Rounds
           /\ Ended(b, failed).pc = "sending"
           /\ Ended(b, failed).message = round[b].message /\ Ended(b, failed).todo = round[b].todo
           /\ Ended(b, failed).user = round[b].user /\ Ended(b, failed).target = round[b].target
           /\ Ended(b, failed).index = round[b].index /\ Ended(b, failed).detached = round[b].detached
           /\ Ended(b, failed).disturbed = round[b].disturbed
           /\ Ended(b, failed).owed = round[b].owed \ {round[b].target}
           /\ Ended(b, failed).dead = IF failed THEN round[b].dead \cup {round[b].target} ELSE round[b].dead
           /\ round[b] \in Rounds /\ Walk(round[b], conns, socket)
<1> DEFINE old == round[b]
           dead == IF failed THEN old.dead \cup {old.target} ELSE old.dead
           owed == old.owed \ {old.target}
<1>1. old \in Rounds /\ Walk(old, conns, socket)
  BY DEF DashInv, Types, RoundOK
<1>2. Ended(b, failed) = [old EXCEPT !.dead = dead, !.owed = owed]
  BY DEF Ended
<1> HIDE DEF old
<1>3. old.dead \in SUBSET Sockets /\ old.owed \in SUBSET Sockets /\ old.target \in Sockets
  BY <1>1 DEF Rounds, Walk
<1>4. dead \in SUBSET Sockets /\ owed \in SUBSET Sockets
  BY <1>3
<1> HIDE DEF dead, owed
<1>5. /\ Ended(b, failed) \in Rounds
      /\ Ended(b, failed).pc = old.pc
      /\ Ended(b, failed).message = old.message /\ Ended(b, failed).todo = old.todo
      /\ Ended(b, failed).user = old.user /\ Ended(b, failed).target = old.target
      /\ Ended(b, failed).index = old.index /\ Ended(b, failed).detached = old.detached
      /\ Ended(b, failed).disturbed = old.disturbed
      /\ Ended(b, failed).owed = owed /\ Ended(b, failed).dead = dead
  BY <1>1, <1>2, <1>4 DEF Rounds
<1> QED
  BY <1>1, <1>5 DEF old, dead, owed

(* The place of a round in the list of its user.                           *)
Moved(r) == [r EXCEPT !.index = @ + 1, !.target = conns[r.user][r.index + 1]]

(* A send was answered, and the list goes on.                              *)
LEMMA NextOfList ==
    ASSUME DashInv, NEW b \in Senders, NEW failed \in BOOLEAN, round[b].pc = "sending",
           NextTarget(Ended(b, failed)), round' = [round EXCEPT ![b] = Moved(Ended(b, failed))],
           UNCHANGED <<conns, socket, passed, subscribed>>,
           refused' = IF failed THEN refused \cup {round[b].target} ELSE refused
    PROVE  Progress(b, round[b].target)
<1> DEFINE old == round[b]
           t == old.target
           r == Ended(b, failed)
           q == Moved(r)
           list == conns[old.user]
           n == old.index + 1
<1>1. /\ r \in Rounds /\ r.pc = "sending" /\ r.message = old.message /\ r.todo = old.todo /\ r.user = old.user
      /\ r.index = old.index /\ r.detached = old.detached /\ r.disturbed = old.disturbed
      /\ r.owed = old.owed \ {t} /\ r.dead = (IF failed THEN old.dead \cup {t} ELSE old.dead)
      /\ old \in Rounds /\ Walk(old, conns, socket)
  BY EndedOK
<1>2. /\ DictOK(conns) /\ RegisteredConnected /\ Types /\ RefusedIsRemoved /\ PassedOverByARemoval
      /\ \A d \in Senders : RoundOK(round[d], conns, socket) /\ round[d] \in Rounds
      /\ old.pc = "sending"
  BY DEF DashInv, Types
<1>3. ~ old.detached /\ old.user \in DOMAIN conns /\ old.index < Len(list)
  BY <1>1 DEF NextTarget, ListOf, Walk
<1> HIDE DEF r
<1>4. q = [r EXCEPT !.index = n, !.target = list[n]]
  BY <1>1 DEF Moved
<1>4a. round' = [round EXCEPT ![b] = q] /\ round \in [Senders -> Rounds]
  BY <1>2 DEF r, Types
<1> HIDE DEF old, q
<1>5. /\ list \in Seq(Sockets) /\ Distinct(list)
      /\ \A j \in 1 .. Len(list) : UserOf[list[j]] = old.user /\ socket[list[j]] # "new" /\ list[j] \in Sockets
  BY <1>2, <1>3 DEF DictOK, RegisteredConnected
<1>6. old.index \in Nat
  BY <1>1 DEF Rounds
<1> HIDE DEF list
<1>7. n \in 1 .. Len(list) /\ n \in Nat /\ n # 0
  BY <1>3, <1>5, <1>6
<1>8. list[n] \in Sockets /\ UserOf[list[n]] = old.user /\ socket[list[n]] # "new"
  BY <1>5, <1>7
<1> DEFINE place == list[n]
<1> HIDE DEF n
<1>9. /\ q \in Rounds /\ q.pc = "sending" /\ q.message = old.message /\ q.todo = old.todo /\ q.user = old.user
      /\ q.index = n /\ q.target = list[n] /\ q.detached = old.detached /\ q.disturbed = old.disturbed
      /\ q.owed = old.owed \ {t} /\ q.dead = r.dead
  <2> HIDE DEF t
  <2> SUFFICES ASSUME place \in Sockets, n \in Nat, q = [r EXCEPT !.index = n, !.target = place],
                      r \in Rounds, r.owed = old.owed \ {t}
               PROVE  /\ q \in Rounds /\ q.pc = r.pc /\ q.message = r.message /\ q.todo = r.todo /\ q.user = r.user
                      /\ q.index = n /\ q.target = place /\ q.detached = r.detached /\ q.disturbed = r.disturbed
                      /\ q.owed = old.owed \ {t} /\ q.dead = r.dead
    BY <1>1, <1>4, <1>7, <1>8
  <2> HIDE DEF place
  <2> QED
    BY DEF Rounds
<1>10. \A j \in 1 .. Len(list) : old.index < j => list[j] # t
  BY <1>1, <1>3 DEF Walk, list
<1>11. \A j \in 1 .. Len(list) : n < j => list[j] # list[n]
  BY <1>5, <1>7 DEF Distinct
<1>12. t \in Sockets /\ UserOf[t] = old.user /\ socket[t] # "new" /\ old.user \notin old.todo /\ old.user \in Users
       /\ old.message \in Messages
  BY <1>1 DEF Walk
<1>13. Walk(q, conns, socket)
  <2>1. ASSUME ~ old.disturbed
        PROVE  \A s \in old.owed \ {t} : \E j \in 1 .. Len(list) : n <= j /\ list[j] = s
    <3>1. /\ list[old.index] = t
          /\ \A s \in old.owed : \E j \in 1 .. Len(list) : old.index <= j /\ list[j] = s
      BY <1>1, <2>1 DEF Walk, list
    <3>2. ASSUME NEW s \in old.owed \ {t} PROVE \E j \in 1 .. Len(list) : n <= j /\ list[j] = s
      <4>1. PICK j \in 1 .. Len(list) : old.index <= j /\ list[j] = s
        BY <3>1
      <4>2. j # old.index
        BY <3>1, <4>1
      <4>3. n <= j
        BY <1>6, <4>1, <4>2 DEF n
      <4> QED
        BY <4>1, <4>3
    <3> QED
      BY <3>2
  <2> QED
    BY <1>3, <1>7, <1>8, <1>9, <1>11, <1>12, <2>1 DEF Walk, list
<1>14. ASSUME NEW x \in Sockets, Ahead(q, x, conns, socket) PROVE Ahead(old, x, conns, socket) /\ x # t
  <2>1. CASE UserOf[x] \in old.todo
    BY <1>2, <1>12, <2>1 DEF Ahead, old
  <2>2. CASE UserOf[x] = old.user /\ socket[x] = "new"
    BY <1>2, <1>3, <1>12, <2>2 DEF Ahead, old
  <2>3. CASE \E j \in 1 .. Len(list) : n <= j /\ list[j] = x
    <3>1. PICK j \in 1 .. Len(list) : n <= j /\ list[j] = x
      BY <2>3
    <3>2. old.index < j
      BY <1>6, <3>1 DEF n
    <3>3. UserOf[x] = old.user /\ x # t
      BY <1>5, <1>10, <3>1, <3>2
    <3> QED
      BY <1>2, <1>3, <3>1, <3>2, <3>3 DEF Ahead, list, old
  <2>4. \/ UserOf[x] \in old.todo
        \/ x = list[n]
        \/ UserOf[x] = old.user /\ (socket[x] = "new" \/ \E j \in 1 .. Len(list) : n < j /\ list[j] = x)
    BY <1>9, <1>14 DEF Ahead, list
  <2>5. n <= n /\ \A j \in 1 .. Len(list) : n < j => n <= j
    BY <1>7
  <2> QED
    BY <1>7, <2>1, <2>2, <2>3, <2>4, <2>5
<1>15. round'[b] = q /\ \A d \in Senders : d # b => round'[d] = round[d]
  BY <1>4a
<1>16. round' \in [Senders -> Rounds]
  BY <1>4a, <1>9
<1>17. \A d \in Senders : RoundOK(round'[d], conns', socket')
  BY <1>2, <1>9, <1>13, <1>15 DEF RoundOK
<1>18. \A d \in Senders : round'[d].pc = "sending" =>
           round[d].pc = "sending" /\ round'[d].message = round[d].message
  BY <1>2, <1>9, <1>15 DEF old
<1>19. \A d \in Senders, x \in Sockets : Ahead(round'[d], x, conns', socket') =>
           Ahead(round[d], x, conns, socket) /\ ~ (d = b /\ x = t)
  BY <1>14, <1>15 DEF old
<1>20. RegisteredConnected'
  BY <1>2, <1>12 DEF RegisteredConnected, t, old
<1>21. RefusedIsRemoved'
  <2>1. old.dead \subseteq q.dead /\ (failed => t \in q.dead)
    BY <1>1, <1>9
  <2>2. \A d \in Senders : round[d].dead \subseteq round'[d].dead
    BY <1>15, <2>1 DEF old
  <2>3. Registered' = Registered
    BY DEF Registered
  <2>4. ASSUME subscribed # "stopped", NEW s \in refused' \cap Registered PROVE \E d \in Senders : s \in round'[d].dead
    <3>1. CASE s \in refused
      BY <1>2, <2>2, <2>4, <3>1 DEF RefusedIsRemoved
    <3>2. CASE s \notin refused
      BY <1>15, <2>1, <2>4, <3>2 DEF t, old
    <3> QED
      BY <3>1, <3>2
  <2> QED
    BY <2>3, <2>4 DEF RefusedIsRemoved
<1> QED
  BY <1>2, <1>16, <1>17, <1>18, <1>19, <1>20, <1>21 DEF Progress, Types, PassedOverByARemoval, t, old

(* A send was answered, and the list ends.                                 *)
LEMMA EndOfList ==
    ASSUME DashInv, NEW b \in Senders, NEW failed \in BOOLEAN, round[b].pc = "sending",
           ~ NextTarget(Ended(b, failed)),
           conns' = Disconnected(conns, Ended(b, failed).dead),
           passed' = passed \cup {[socket |-> s, disturbed |-> Ended(b, failed).disturbed] : s \in Ended(b, failed).owed},
           GoOn(Disturbed(Ended(b, failed).dead), b, Ended(b, failed), Disconnected(conns, Ended(b, failed).dead)),
           UNCHANGED <<socket, subscribed>>,
           refused' = IF failed THEN refused \cup {round[b].target} ELSE refused
    PROVE  Progress(b, round[b].target)
<1> DEFINE old == round[b]
           t == old.target
           r == Ended(b, failed)
           rounds == Disturbed(r.dead)
<1>1. /\ r \in Rounds /\ r.pc = "sending" /\ r.message = old.message /\ r.todo = old.todo /\ r.user = old.user
      /\ r.index = old.index /\ r.detached = old.detached /\ r.disturbed = old.disturbed
      /\ r.owed = old.owed \ {t} /\ r.dead = (IF failed THEN old.dead \cup {t} ELSE old.dead)
      /\ old \in Rounds /\ Walk(old, conns, socket)
  BY EndedOK
<1>2. /\ DictOK(conns) /\ RegisteredConnected /\ Types /\ RefusedIsRemoved /\ PassedOverByARemoval
      /\ \A d \in Senders : RoundOK(round[d], conns, socket) /\ round[d] \in Rounds
      /\ old.pc = "sending"
  BY DEF DashInv, Types
<1>3. t \in Sockets /\ UserOf[t] = old.user /\ socket[t] # "new" /\ old.user \notin old.todo
      /\ r.message \in Messages
  BY <1>1 DEF Walk
<1>4. /\ conns' = Disconnected(conns, r.dead) /\ ~ NextTarget(r) /\ GoOn(rounds, b, r, conns')
      /\ passed' = passed \cup {[socket |-> s, disturbed |-> r.disturbed] : s \in r.owed}
  OBVIOUS
<1>5. rounds = [d \in Senders |-> Shaken(round[d], conns, r.dead)]
  BY DEF Disturbed, Shaken
<1> HIDE DEF r, rounds
<1>6. DictOK(conns')
  BY <1>2, <1>4, Removal
<1>7. refused' \subseteq Sockets /\ \A s \in refused' : s \in refused \/ socket[s] # "new"
  BY <1>2, <1>3 DEF Types
<1>8. RegisteredConnected'
  BY <1>2, <1>4, <1>7, RegisteredConnectedKept DEF Types
<1>9. \A u \in DOMAIN conns' : \A i \in 1 .. Len(conns'[u]) : socket[conns'[u][i]] # "new"
  BY <1>8 DEF RegisteredConnected
<1>10. PICK a : round' = [rounds EXCEPT ![b] = a] /\ Onward(a, r, conns', socket)
  BY <1>1, <1>3, <1>4, <1>6, <1>9, GoOnOK
<1>11. round'[b] = a /\ \A d \in Senders : d # b => round'[d] = Shaken(round[d], conns, r.dead)
  BY <1>5, <1>10
<1>12. ASSUME NEW d \in Senders, d # b
       PROVE  /\ round'[d] \in Rounds /\ RoundOK(round'[d], conns', socket')
              /\ round'[d].pc = round[d].pc /\ round'[d].message = round[d].message /\ round'[d].dead = round[d].dead
              /\ \A x \in Sockets : Ahead(round'[d], x, conns', socket') => Ahead(round[d], x, conns, socket)
  <2>1. round[d] \in Rounds /\ RoundOK(round[d], conns, socket) /\ round'[d] = Shaken(round[d], conns, r.dead)
    BY <1>2, <1>11, <1>12
  <2> QED
    BY <1>2, <1>4, <2>1, ShakenOK
<1>13. /\ a \in Rounds /\ RoundOK(a, conns', socket) /\ (a.pc = "sending" => a.message = old.message)
       /\ \A x \in Sockets : Ahead(a, x, conns', socket) => UserOf[x] \in old.todo
  BY <1>1, <1>10 DEF Onward
<1>14. \A x \in Sockets : UserOf[x] \in old.todo => Ahead(old, x, conns, socket) /\ x # t
  BY <1>2, <1>3 DEF Ahead
<1>15. round' \in [Senders -> Rounds]
  <2>1. DOMAIN rounds = Senders /\ round' = [d \in Senders |-> round'[d]]
    BY <1>5, <1>10
  <2>2. \A d \in Senders : round'[d] \in Rounds
    BY <1>11, <1>12, <1>13
  <2> QED
    BY <2>1, <2>2
<1>16. \A d \in Senders : RoundOK(round'[d], conns', socket')
  BY <1>11, <1>12, <1>13
<1>17. \A d \in Senders : round'[d].pc = "sending" =>
           round[d].pc = "sending" /\ round'[d].message = round[d].message
  BY <1>2, <1>11, <1>12, <1>13
<1>18. \A d \in Senders, x \in Sockets : Ahead(round'[d], x, conns', socket') =>
           Ahead(round[d], x, conns, socket) /\ ~ (d = b /\ x = t)
  BY <1>11, <1>12, <1>13, <1>14
<1>19. r.owed \subseteq Sockets /\ r.disturbed \in BOOLEAN
  BY <1>1 DEF Rounds
<1>20. ~ r.disturbed => r.owed = {}
  <2> SUFFICES ASSUME ~ old.disturbed, NEW s \in old.owed, s # t PROVE FALSE
    BY <1>1
  <2> DEFINE list == conns[old.user]
  <2>1. /\ ~ old.detached /\ old.user \in DOMAIN conns
        /\ old.index <= Len(list) /\ list[old.index] = t
        /\ \E j \in 1 .. Len(list) : old.index <= j /\ list[j] = s
    BY <1>1 DEF Walk
  <2>2. old.index \in Nat /\ Len(list) \in Nat
    <3>1. list \in Seq(Sockets)
      BY <1>2, <2>1 DEF DictOK
    <3> QED
      BY <1>1, <3>1 DEF Rounds
  <2>3. ~ (old.index < Len(list))
    BY <1>1, <1>4, <2>1 DEF NextTarget, ListOf
  <2>4. PICK j \in 1 .. Len(list) : old.index <= j /\ list[j] = s
    BY <2>1
  <2> HIDE DEF list
  <2>5. j = old.index
    BY <2>2, <2>3, <2>4
  <2> QED
    BY <2>1, <2>4, <2>5
<1>21. passed' \subseteq [socket : Sockets, disturbed : BOOLEAN]
  BY <1>2, <1>4, <1>19 DEF Types
<1>22. PassedOverByARemoval'
  <2>1. ASSUME NEW p \in passed' PROVE p.disturbed
    <3>1. CASE p \in passed
      BY <1>2, <3>1 DEF PassedOverByARemoval
    <3>2. CASE p \notin passed
      <4>1. PICK s \in r.owed : p = [socket |-> s, disturbed |-> r.disturbed]
        BY <1>4, <2>1, <3>2
      <4> QED
        BY <1>20, <4>1
    <3> QED
      BY <3>1, <3>2
  <2> QED
    BY <2>1 DEF PassedOverByARemoval
<1>23. RefusedIsRemoved'
  <2>1. Registered' \subseteq Registered \ r.dead
    BY <1>2, <1>4, RegisteredShrinks
  <2>2. old.dead \subseteq r.dead /\ (failed => t \in r.dead)
    BY <1>1
  <2>3. ASSUME subscribed # "stopped", NEW s \in refused' \cap Registered'
        PROVE  \E d \in Senders : s \in round'[d].dead
    <3>1. s \in refused /\ s \in Registered /\ s \notin r.dead
      BY <2>1, <2>2, <2>3
    <3>2. PICK d \in Senders : s \in round[d].dead
      BY <1>2, <2>3, <3>1 DEF RefusedIsRemoved
    <3>3. d # b
      BY <2>2, <3>1, <3>2
    <3> QED
      BY <1>12, <3>2, <3>3
  <2> QED
    BY <2>3 DEF RefusedIsRemoved
<1> QED
  BY <1>6, <1>8, <1>15, <1>16, <1>17, <1>18, <1>21, <1>22, <1>23 DEF Progress, t, old

(* A send that ends, well or not: what is sent was still to be sent, and   *)
(* is not any more.                                                        *)
LEMMA SendStep ==
    ASSUME DashInv, NEW b \in Senders, NEW failed \in BOOLEAN, round[b].pc = "sending",
           EndSend(b, failed), UNCHANGED <<socket, subscribed, inbox, published>>
    PROVE  DashInv'
<1> DEFINE old == round[b]
           t == old.target
           m == old.message
<1>0. /\ Types /\ Queued /\ SentOrMay /\ Walk(old, conns, socket) /\ old \in Rounds /\ old.pc = "sending"
  BY EndedOK DEF DashInv
<1>1. /\ got' = IF failed THEN got ELSE [got EXCEPT ![t] = Counted(@, m)]
      /\ refused' = IF failed THEN refused \cup {t} ELSE refused
      /\ IF NextTarget(Ended(b, failed))
         THEN /\ round' = [round EXCEPT ![b] = Moved(Ended(b, failed))]
              /\ UNCHANGED <<conns, passed>>
         ELSE /\ conns' = Disconnected(conns, Ended(b, failed).dead)
              /\ passed' = passed \cup {[socket |-> s, disturbed |-> Ended(b, failed).disturbed] : s \in Ended(b, failed).owed}
              /\ GoOn(Disturbed(Ended(b, failed).dead), b, Ended(b, failed), Disconnected(conns, Ended(b, failed).dead))
  <2>1. Ended(b, failed).target = t /\ Ended(b, failed).message = m
    BY EndedOK
  <2> QED
    BY <2>1 DEF EndSend, Ended, Moved
<1>2. Progress(b, t)
  <2>1. CASE NextTarget(Ended(b, failed))
    BY <1>1, <2>1, NextOfList
  <2>2. CASE ~ NextTarget(Ended(b, failed))
    BY <1>1, <2>2, EndOfList
  <2> QED
    BY <2>1, <2>2
<1>3. t \in Sockets /\ m \in Messages
  BY <1>0 DEF Walk
<1> HIDE DEF old, t, m
<1>4. /\ got' \in [Sockets -> [Messages -> Nat]]
      /\ \A s \in Sockets, x \in Messages :
            got'[s][x] = got[s][x] \/ (s = t /\ x = m /\ got'[s][x] = got[s][x] + 1)
  <2> DEFINE n == got[t][m] + 1
             row == [got[t] EXCEPT ![m] = n]
  <2>1. got \in [Sockets -> [Messages -> Nat]] /\ got[t] \in [Messages -> Nat] /\ n \in Nat
    BY <1>0, <1>3 DEF Types
  <2>2. failed => got' = got
    BY <1>1
  <2>2b. ~ failed => got' = [got EXCEPT ![t] = row]
    <3>1. row = Counted(got[t], m)
      BY DEF Counted
    <3> HIDE DEF row
    <3> QED
      BY <1>1, <3>1
  <2>3. row \in [Messages -> Nat] /\ \A x \in Messages : row[x] = IF x = m THEN n ELSE got[t][x]
    <3> HIDE DEF n
    <3> QED
      BY <2>1
  <2> HIDE DEF row
  <2>4. \A s \in Sockets, x \in Messages :
            got'[s][x] = got[s][x] \/ (s = t /\ x = m /\ got'[s][x] = got[s][x] + 1)
    <3>1. CASE failed
      BY <2>2, <3>1
    <3>2. CASE ~ failed
      <4>1. got'[t] = row /\ \A s \in Sockets : s # t => got'[s] = got[s]
        BY <1>3, <2>1, <2>2b, <3>2
      <4> QED
        BY <2>3, <4>1 DEF n
    <3> QED
      BY <3>1, <3>2
  <2>5. got' \in [Sockets -> [Messages -> Nat]]
    BY <1>3, <2>1, <2>2, <2>2b, <2>3
  <2> QED
    BY <2>4, <2>5
<1>5. Types'
  BY <1>0, <1>1, <1>2, <1>3, <1>4 DEF Types, Progress
<1>6. Queued'
  <2>1. "subscriber" \in Senders /\ \A h \in Heatmaps : h \in Senders
    BY DEF Senders
  <2> QED
    BY <1>0, <1>2, <2>1 DEF Queued, Progress
<1>7. SentOrMay'
  <2> SUFFICES ASSUME NEW s \in Sockets, NEW x \in Messages
               PROVE  got'[s][x] + One(SubscriberMay(s, x)') + One(CallMay(s, x)') <= IF x \in Heatmaps THEN 2 ELSE 1
    BY DEF SentOrMay, One
  <2>1. (SubscriberMay(s, x)' => SubscriberMay(s, x)) /\ (CallMay(s, x)' => CallMay(s, x))
    <3>1. ASSUME NEW d \in Senders, Ahead(round'[d], s, conns', socket')
          PROVE  Ahead(round[d], s, conns, socket) /\ round'[d].message = round[d].message
      BY <1>2, <3>1 DEF Progress, Ahead
    <3>2. "subscriber" \in Senders /\ (x \in Heatmaps => x \in Senders)
      BY DEF Senders
    <3> QED
      BY <3>1, <3>2 DEF SubscriberMay, CallMay
  <2>2. got[s][x] \in Nat /\ got[s][x] + One(SubscriberMay(s, x)) + One(CallMay(s, x)) <= IF x \in Heatmaps THEN 2 ELSE 1
    BY <1>0 DEF Types, SentOrMay
  <2>3. CASE s = t /\ x = m
    <3>1. got'[s][x] <= got[s][x] + 1 /\ got'[s][x] \in Nat
      BY <1>4, <2>2
    <3>2. Ahead(old, s, conns, socket) /\ ~ Ahead(round'[b], s, conns', socket')
      BY <1>0, <1>2, <2>3 DEF Ahead, Progress, old, t
    <3>3. CASE b = "subscriber"
      <4>1. SubscriberMay(s, x)
        BY <2>3, <3>2, <3>3 DEF SubscriberMay, old, m
      <4>2. x \in published /\ \A i \in 1 .. Len(inbox) : inbox[i] # x
        BY <1>0, <2>3, <3>3 DEF Queued, old, m
      <4>3. ~ SubscriberMay(s, x)'
        BY <3>2, <3>3, <4>2 DEF SubscriberMay
      <4> QED
        BY <2>1, <2>2, <2>3, <3>1, <4>1, <4>3 DEF One
    <3>4. CASE b \in Heatmaps
      <4>1. x = b /\ x \in published
        BY <1>0, <2>3, <3>4 DEF Queued, old, m
      <4>2. CallMay(s, x)
        BY <3>2, <3>4, <4>1 DEF CallMay, old
      <4>3. ~ CallMay(s, x)'
        BY <3>2, <3>4, <4>1 DEF CallMay
      <4> QED
        BY <2>1, <2>2, <2>3, <3>1, <4>2, <4>3 DEF One
    <3> QED
      BY <3>3, <3>4 DEF Senders
  <2>4. CASE ~ (s = t /\ x = m)
    <3>1. got'[s][x] = got[s][x]
      BY <1>4, <2>4
    <3> QED
      BY <2>1, <2>2, <3>1 DEF One
  <2> QED
    BY <2>3, <2>4
<1> QED
  BY <1>2, <1>5, <1>6, <1>7 DEF DashInv, Progress

-----------------------------------------------------------------------------
\* The subscriber and the publishing calls.

(* What is left to show of a step that leaves lists and connections alone. *)
LEMMA ListsStay ==
    ASSUME DashInv, UNCHANGED <<conns, socket, refused, passed>>, subscribed' = "stopped" \/ subscribed # "stopped",
           Types', Queued', SentOrMay',
           \A b \in Senders : RoundOK(round'[b], conns, socket),
           subscribed' # "stopped" => \A b \in Senders : round[b].dead \subseteq round'[b].dead
    PROVE  DashInv'
<1>1. DictOK(conns) /\ RegisteredConnected /\ PassedOverByARemoval /\ RefusedIsRemoved
  BY DEF DashInv
<1>2. RegisteredConnected' /\ PassedOverByARemoval' /\ DictOK(conns')
  BY <1>1 DEF RegisteredConnected, PassedOverByARemoval
<1>3. RefusedIsRemoved'
  <2>1. Registered' = Registered
    BY DEF Registered
  <2> QED
    BY <1>1, <2>1 DEF RefusedIsRemoved
<1> QED
  BY <1>2, <1>3 DEF DashInv

(* A message is published.                                                 *)
LEMMA PublishStep == ASSUME DashInv, NEW m \in Messages, Publish(m) PROVE DashInv'
<1>0. /\ Types /\ DictOK(conns) /\ RegisteredConnected /\ SentOrMay /\ Queued
      /\ \A d \in Senders : RoundOK(round[d], conns, socket) /\ round[d] \in Rounds
  BY DEF DashInv, Types
<1>1. /\ m \notin published /\ published' = published \cup {m}
      /\ inbox' = (IF subscribed = "yes" THEN Append(inbox, m) ELSE inbox)
      /\ UNCHANGED <<conns, socket, subscribed, got, refused, passed>>
      /\ published \subseteq Messages /\ inbox \in Seq(published)
      /\ m # "subscriber" /\ "subscriber" \in Senders
  BY <1>0, DashboardAssumption DEF Publish, Types, Senders
<1>2. inbox' \in Seq(published') /\ published' \subseteq Messages
  <2>1. inbox \in Seq(published') /\ m \in published'
    <3>1. \A i \in 1 .. Len(inbox) : inbox[i] \in published'
      BY <1>1
    <3> QED
      BY <1>1, <3>1
  <2> QED
    BY <1>1, <2>1
<1>3. \A i \in 1 .. Len(inbox) : inbox[i] \in published /\ inbox[i] # m
  BY <1>1
<1>4. \A i \in 1 .. Len(inbox') :
         \/ i = Len(inbox) + 1 /\ inbox'[i] = m
         \/ i \in 1 .. Len(inbox) /\ inbox'[i] = inbox[i]
  BY <1>1
<1>5. Distinct(inbox')
  BY <1>0, <1>1, <1>3, <1>4 DEF Queued, Distinct
<1>6. PICK b \in Senders, a \in Rounds :
        /\ b # "subscriber" => b = m /\ m \in Heatmaps
        /\ b = "subscriber" => a = round["subscriber"]
        /\ round' = [round EXCEPT ![b] = a]
        /\ RoundOK(a, conns, socket)
        /\ b # "subscriber" => a.dead = {} /\ (a.pc = "sending" => a.message = m)
  <2>1. CASE m \in Heatmaps
    <3>1. BeginRound(m, m) /\ m \in Senders
      BY <2>1 DEF Publish, Senders
    <3>2. PICK a : /\ round' = [round EXCEPT ![m] = a] /\ a \in Rounds /\ RoundOK(a, conns, socket) /\ a.dead = {}
                   /\ a.pc = "sending" => a.message = m
      BY <1>0, <3>1, BeginRoundOK
    <3> QED
      BY <1>1, <2>1, <3>1, <3>2
  <2>2. CASE m \notin Heatmaps
    <3>1. round' = [round EXCEPT !["subscriber"] = round["subscriber"]]
      BY <1>0, <2>2 DEF Publish, Types
    <3> QED
      BY <1>0, <1>1, <3>1
  <2> QED
    BY <2>1, <2>2
<1>7. round'[b] = a /\ \A d \in Senders : d # b => round'[d] = round[d]
  BY <1>0, <1>6 DEF Types
<1>8. round'["subscriber"] = round["subscriber"]
  BY <1>1, <1>6, <1>7
<1>9. Queued'
  <2>1. round["subscriber"].pc = "sending" =>
            /\ round["subscriber"].message \in published'
            /\ \A i \in 1 .. Len(inbox') : inbox'[i] # round["subscriber"].message
    BY <1>0, <1>1, <1>4 DEF Queued
  <2>2. ASSUME NEW h \in Heatmaps, round'[h].pc = "sending" PROVE h \in published' /\ round'[h].message = h
    <3>1. h \in Senders /\ h # "subscriber"
      BY DashboardAssumption DEF Senders
    <3>2. CASE h = b
      BY <1>1, <1>6, <1>7, <2>2, <3>1, <3>2
    <3>3. CASE h # b
      BY <1>0, <1>1, <1>7, <2>2, <3>1, <3>3 DEF Queued
    <3> QED
      BY <3>2, <3>3
  <2> QED
    BY <1>5, <1>8, <2>1, <2>2 DEF Queued
<1>10. SentOrMay'
  <2>1. ASSUME NEW s \in Sockets, NEW x \in Messages, SubscriberMay(s, x)' PROVE SubscriberMay(s, x)
    BY <1>1, <1>4, <1>8, <2>1 DEF SubscriberMay
  <2>2. ASSUME NEW s \in Sockets, NEW x \in Messages, CallMay(s, x)' PROVE CallMay(s, x)
    <3>1. x \in Heatmaps /\ x \in Senders /\ x # "subscriber"
      BY <2>2, DashboardAssumption DEF CallMay, Senders
    <3>2. CASE x = m
      BY <1>1, <3>1, <3>2 DEF CallMay
    <3>3. CASE x # m
      <4>1. round'[x] = round[x]
        BY <1>6, <1>7, <3>1, <3>3
      <4> QED
        BY <1>1, <2>2, <3>3, <4>1 DEF CallMay
    <3> QED
      BY <3>2, <3>3
  <2> QED
    BY <1>0, <1>1, <2>1, <2>2, SentKept
<1>11. \A d \in Senders : round[d].dead \subseteq round'[d].dead
  <2>1. CASE b = "subscriber"
    BY <1>6, <1>7, <2>1
  <2>2. CASE b # "subscriber"
    <3>1. round[b].pc # "sending"
      BY <1>0, <1>1, <1>6, <2>2 DEF Queued
    <3>2. round[b].dead = {}
      BY <1>0, <3>1 DEF RoundOK, Rounds
    <3> QED
      BY <1>7, <3>2
  <2> QED
    BY <2>1, <2>2
<1>12. Types'
  BY <1>0, <1>1, <1>2, <1>6 DEF Types
<1>13. \A d \in Senders : RoundOK(round'[d], conns, socket)
  BY <1>0, <1>6, <1>7
<1> QED
  BY <1>0, <1>1, <1>9, <1>10, <1>11, <1>12, <1>13, ListsStay DEF Types

(* Or is not.                                                              *)
LEMMA PublishRaisesStep == ASSUME DashInv, NEW m \in Messages, PublishRaises(m) PROVE DashInv'
<1>1. /\ Types /\ SentOrMay /\ Queued
      /\ \A d \in Senders : RoundOK(round[d], conns, socket)
      /\ published' = published \cup {m} /\ m \notin published
      /\ UNCHANGED <<conns, socket, subscribed, inbox, round, got, refused, passed>>
  BY DEF DashInv, PublishRaises
<1>2. inbox \in Seq(published')
  <2>1. inbox \in Seq(published) /\ \A i \in 1 .. Len(inbox) : inbox[i] \in published'
    BY <1>1 DEF Types
  <2> QED
    BY <2>1
<1>3. Types'
  BY <1>1, <1>2 DEF Types
<1>4. Queued'
  BY <1>1 DEF Queued
<1>5. SentOrMay'
  <2>1. \A s \in Sockets, x \in Messages :
            (SubscriberMay(s, x)' => SubscriberMay(s, x)) /\ (CallMay(s, x)' => CallMay(s, x))
    BY <1>1 DEF SubscriberMay, CallMay
  <2> QED
    BY <1>1, <2>1, SentKept
<1> QED
  BY <1>1, <1>3, <1>4, <1>5, ListsStay DEF Types

(* The subscriber starts.                                                  *)
LEMMA SubscribeStep == ASSUME DashInv, Subscribe PROVE DashInv'
<1>1. /\ Types /\ SentOrMay /\ Queued
      /\ \A d \in Senders : RoundOK(round[d], conns, socket)
      /\ subscribed = "no" /\ subscribed' = "yes"
      /\ UNCHANGED <<conns, socket, inbox, round, published, got, refused, passed>>
  BY DEF DashInv, Subscribe
<1>2. Types' /\ Queued' /\ SentOrMay'
  BY <1>1 DEF Types, Queued, SentOrMay, SubscriberMay, CallMay
<1> QED
  BY <1>1, <1>2, ListsStay

(* The subscriber loses its connection.                                    *)
LEMMA ListenRaisesStep == ASSUME DashInv, ListenRaises PROVE DashInv'
<1>1. /\ Types /\ SentOrMay /\ Queued
      /\ \A d \in Senders : RoundOK(round[d], conns, socket)
      /\ subscribed = "yes" /\ subscribed' = "no" /\ inbox' = <<>>
      /\ UNCHANGED <<conns, socket, round, published, got, refused, passed>>
  BY DEF DashInv, ListenRaises
<1>2. Types' /\ Queued'
  BY <1>1 DEF Types, Queued, Distinct
<1>3. SentOrMay'
  BY <1>1, MayShrinks, SentKept
<1> QED
  BY <1>1, <1>2, <1>3, ListsStay

(* It passes a message on to the dashboard.                                *)
LEMMA ForwardStep == ASSUME DashInv, Forward PROVE DashInv'
<1>1. /\ Types /\ SentOrMay /\ Queued /\ DictOK(conns) /\ RegisteredConnected
      /\ \A d \in Senders : RoundOK(round[d], conns, socket)
      /\ subscribed = "yes" /\ round["subscriber"].pc = "idle"
      /\ inbox # <<>> /\ inbox' = Tail(inbox)
      /\ UNCHANGED <<conns, socket, subscribed, published, got, refused, passed>>
      /\ "subscriber" \in Senders /\ \A h \in Heatmaps : h \in Senders /\ h # "subscriber"
  BY DashboardAssumption DEF DashInv, Forward, Senders
<1>2. inbox \in Seq(published) /\ published \subseteq Messages
  BY <1>1 DEF Types
<1> DEFINE m == inbox[1]
<1>3. /\ inbox' \in Seq(published) /\ m \in published /\ m \in Messages /\ Len(inbox) \in Nat \ {0}
      /\ \A i \in 1 .. Len(inbox') : i + 1 \in 1 .. Len(inbox) /\ inbox'[i] = inbox[i + 1]
  BY <1>1, <1>2
<1>4. PICK a : /\ round' = [round EXCEPT !["subscriber"] = a] /\ a \in Rounds /\ RoundOK(a, conns, socket)
               /\ a.dead = {} /\ (a.pc = "sending" => a.message = m)
  <2>1. BeginRound("subscriber", m)
    <3>1. Head(inbox) = m
      BY <1>2, <1>3
    <3> QED
      BY <3>1 DEF Forward
  <2> HIDE DEF m
  <2> QED
    BY <1>1, <1>3, <2>1, BeginRoundOK
<1>5. round'["subscriber"] = a /\ \A d \in Senders : d # "subscriber" => round'[d] = round[d]
  BY <1>1, <1>4 DEF Types
<1>6. Types'
  BY <1>1, <1>3, <1>4 DEF Types
<1>7. Queued'
  <2>0. Distinct(inbox) /\ 1 \in 1 .. Len(inbox)
    BY <1>1, <1>3 DEF Queued
  <2>1. Distinct(inbox')
    <3>1. ASSUME NEW i \in 1 .. Len(inbox'), NEW j \in 1 .. Len(inbox'), inbox'[i] = inbox'[j] PROVE i = j
      <4>1. i + 1 = j + 1
        BY <1>3, <2>0, <3>1 DEF Distinct
      <4> QED
        BY <4>1
    <3> QED
      BY <3>1 DEF Distinct
  <2>2. \A i \in 1 .. Len(inbox') : inbox'[i] # m
    BY <1>3, <2>0 DEF Distinct
  <2>3. \A h \in Heatmaps : round'[h].pc = "sending" => h \in published /\ round'[h].message = h
    BY <1>1, <1>5 DEF Queued
  <2> QED
    BY <1>1, <1>3, <1>4, <1>5, <2>1, <2>2, <2>3 DEF Queued
<1>8. SentOrMay'
  <2>1. ASSUME NEW s \in Sockets, NEW x \in Messages, SubscriberMay(s, x)' PROVE SubscriberMay(s, x)
    <3>1. CASE x = m
      BY <1>3, <3>1 DEF SubscriberMay
    <3>2. CASE x # m
      <4>1. ~ (a.message = x /\ a.pc = "sending")
        BY <1>4, <3>2
      <4>2. x \notin published \/ \E i \in 1 .. Len(inbox') : inbox'[i] = x
        BY <1>1, <1>5, <2>1, <4>1 DEF SubscriberMay, Ahead
      <4> QED
        BY <1>3, <4>2 DEF SubscriberMay
    <3> QED
      BY <3>1, <3>2
  <2>2. ASSUME NEW s \in Sockets, NEW x \in Messages, CallMay(s, x)' PROVE CallMay(s, x)
    BY <1>1, <1>5, <2>2 DEF CallMay
  <2> QED
    BY <1>1, <2>1, <2>2, SentKept
<1>9. \A d \in Senders : round[d].dead \subseteq round'[d].dead
  BY <1>1, <1>5 DEF RoundOK
<1>10. \A d \in Senders : RoundOK(round'[d], conns, socket)
  BY <1>1, <1>4, <1>5
<1> QED
  BY <1>1, <1>6, <1>7, <1>8, <1>9, <1>10, ListsStay

(* It is stopped.                                                          *)
LEMMA StopSubscriberStep == ASSUME DashInv, StopSubscriber PROVE DashInv'
<1>1. /\ Types /\ SentOrMay /\ Queued
      /\ \A d \in Senders : RoundOK(round[d], conns, socket)
      /\ subscribed' = "stopped" /\ inbox' = <<>>
      /\ round' = [round EXCEPT !["subscriber"] = NoRound]
      /\ UNCHANGED <<conns, socket, published, got, refused, passed>>
      /\ "subscriber" \in Senders /\ \A h \in Heatmaps : h \in Senders /\ h # "subscriber"
  BY DashboardAssumption DEF DashInv, StopSubscriber, Senders
<1>2. round'["subscriber"] = NoRound /\ \A d \in Senders : d # "subscriber" => round'[d] = round[d]
  BY <1>1 DEF Types
<1>3. Types'
  BY <1>1, NoRoundOK DEF Types
<1>4. Queued'
  <2>1. Distinct(inbox')
    BY <1>1 DEF Distinct
  <2>2. round'["subscriber"].pc = "idle"
    BY <1>2, NoRoundOK
  <2> QED
    BY <1>1, <1>2, <2>1, <2>2 DEF Queued
<1>5. SentOrMay'
  <2>1. ASSUME NEW b \in Senders, NEW s \in Sockets, Ahead(round'[b], s, conns', socket')
        PROVE  Ahead(round[b], s, conns, socket) /\ round'[b].message = round[b].message
    BY <1>1, <1>2, <2>1, NoRoundOK
  <2> QED
    BY <1>1, <2>1, MayShrinks, SentKept
<1>6. \A d \in Senders : RoundOK(round'[d], conns, socket)
  BY <1>1, <1>2, NoRoundOK
<1> QED
  BY <1>1, <1>3, <1>4, <1>5, <1>6, ListsStay

-----------------------------------------------------------------------------
\* The theorem.

(* So each step keeps the invariant.                                       *)
LEMMA DashStep == DashInv /\ [DashNext]_dashVars => DashInv'
<1> SUFFICES ASSUME DashInv, [DashNext]_dashVars PROVE DashInv'
  OBVIOUS
<1>1. ASSUME NEW s \in Sockets, Connect(s) PROVE DashInv'
  BY <1>1, ConnectStep
<1>2. ASSUME NEW s \in Sockets, Break(s) PROVE DashInv'
  BY <1>2, BreakStep
<1>3. ASSUME NEW s \in Sockets, Disconnect(s) PROVE DashInv'
  BY <1>3, DisconnectStep
<1>4. ASSUME NEW b \in Senders, SendSucceeds(b) PROVE DashInv'
  <2>1. round[b].pc = "sending" /\ EndSend(b, FALSE) /\ UNCHANGED <<socket, subscribed, inbox, published>>
    BY <1>4 DEF SendSucceeds
  <2> QED
    BY <2>1, SendStep
<1>5. ASSUME NEW b \in Senders, SendFails(b) PROVE DashInv'
  <2>1. round[b].pc = "sending" /\ EndSend(b, TRUE) /\ UNCHANGED <<socket, subscribed, inbox, published>>
    BY <1>5 DEF SendFails
  <2> QED
    BY <2>1, SendStep
<1>6. ASSUME NEW m \in Messages, Publish(m) PROVE DashInv'
  BY <1>6, PublishStep
<1>7. ASSUME NEW m \in Messages, PublishRaises(m) PROVE DashInv'
  BY <1>7, PublishRaisesStep
<1>8. ASSUME UNCHANGED dashVars PROVE DashInv'
  <2>1. UNCHANGED <<conns, socket, subscribed, inbox, round, published, got, refused, passed>>
    BY <1>8 DEF dashVars
  <2>2. Types' /\ Queued' /\ SentOrMay' /\ \A b \in Senders : RoundOK(round'[b], conns', socket')
    BY <2>1 DEF DashInv, Types, Queued, SentOrMay, SubscriberMay, CallMay
  <2>3. DictOK(conns') /\ RegisteredConnected' /\ PassedOverByARemoval' /\ RefusedIsRemoved'
    BY <2>1 DEF DashInv, RegisteredConnected, PassedOverByARemoval, RefusedIsRemoved, Registered
  <2> QED
    BY <2>2, <2>3 DEF DashInv
<1> QED
  BY <1>1, <1>2, <1>3, <1>4, <1>5, <1>6, <1>7, <1>8, SubscribeStep, ListenRaisesStep, ForwardStep, StopSubscriberStep
     DEF DashNext

(* And the invariants of the dashboard follow from it.                     *)
LEMMA DashImplies == DashInv => DashboardSafety
<1> SUFFICES ASSUME DashInv PROVE DashboardSafety
  OBVIOUS
<1>1. ASSUME NEW u \in DOMAIN conns PROVE conns[u] # <<>> /\ IsInjective(conns[u])
  <2>1. conns[u] \in Seq(Sockets) /\ conns[u] # <<>> /\ Distinct(conns[u])
    BY DEF DashInv, DictOK
  <2>2. DOMAIN conns[u] = 1 .. Len(conns[u])
    BY <2>1
  <2> QED
    BY <2>1, <2>2 DEF IsInjective, Distinct
<1>2. ASSUME NEW b \in Senders PROVE round[b].pc = "sending" <=> round[b].target \in Sockets
  <2>1. round[b] \in Rounds /\ RoundOK(round[b], conns, socket)
    BY DEF DashInv, Types
  <2>2. round[b].pc \in {"idle", "sending"}
    BY <2>1 DEF Rounds
  <2> QED
    BY <2>1, <2>2, DashboardAssumption DEF RoundOK, Walk
<1>3. DashTypeOK
  BY <1>1, <1>2 DEF DashTypeOK, DashInv, Types
<1>4. SentOnce
  <2> SUFFICES ASSUME NEW s \in Sockets, NEW m \in Messages PROVE got[s][m] <= IF m \in Heatmaps THEN 2 ELSE 1
    BY DEF SentOnce
  <2>1. /\ got[s][m] \in Nat
        /\ got[s][m] + One(SubscriberMay(s, m)) + One(CallMay(s, m)) <= IF m \in Heatmaps THEN 2 ELSE 1
    BY DEF DashInv, Types, SentOrMay
  <2>2. One(SubscriberMay(s, m)) \in Nat /\ One(CallMay(s, m)) \in Nat
    BY DEF One
  <2> QED
    BY <2>1, <2>2
<1> QED
  BY <1>3, <1>4 DEF DashInv, DashboardSafety

(* The rounds of the dashboard reach the connections they must, once, and  *)
(* drop the broken ones, whatever connects, breaks and leaves under them.  *)
THEOREM DashboardHolds == DashSpec => []DashboardSafety
<1>1. DashInit => DashInv
  BY DashInitially
<1>2. DashInv /\ [DashNext]_dashVars => DashInv'
  BY DashStep
<1>3. DashInv => DashboardSafety
  BY DashImplies
<1> QED
  BY <1>1, <1>2, <1>3, PTL DEF DashSpec
=============================================================================

------------------------- MODULE ScoreRecomputation -------------------------
(***************************************************************************)
(* The task run_score_recomputation (app/workers/scoring_worker.py): it    *)
(* reads the prospects once, then writes the scores batch by batch, each   *)
(* batch a transaction, and broadcasts a score when it differs from the    *)
(* one it read.                                                            *)
(*                                                                         *)
(* One action per statement.  A row that another transaction has written   *)
(* is locked until that one ends.  When a statement of a transaction       *)
(* fails, PostgreSQL refuses the later ones and turns COMMIT into a        *)
(* rollback, which raises nothing.                                         *)
(***************************************************************************)
EXTENDS ScoringEngine, Sequences, SequencesExt

CONSTANTS
    Prospects,     \* in the order of the query: a sequence
    Facts,         \* what the tables may say of a prospect: records
                   \* [complete, employees, industry, revenue, tech, sources]
    FirstFacts,    \* what they say at first
    ScoreJobs,     \* executions of the task
    Single,        \* the prospect of a job that an enrichment update triggered, or NoProspect
    WeightsOf,     \* weights of each job
    Terminal,      \* prospects with a terminal pipeline record
    SCORE_BATCH,   \* BATCH_SIZE
    MaxUpdates,    \* bound: updates of the facts
    MaxLosses      \* bound: statements and broadcasts that fail

ASSUME ScoreAssumption ==
    /\ SCORE_BATCH \in Nat \ {0}
    /\ {MaxUpdates, MaxLosses} \subseteq Nat
    /\ Facts \subseteq [complete : BOOLEAN, employees : Nat, industry : BOOLEAN, revenue : BOOLEAN,
                        tech : Nat, sources : Nat]
    \* The query returns a prospect once.
    /\ Prospects \in Seq(Range(Prospects))
    /\ \A a, b \in DOMAIN Prospects : Prospects[a] = Prospects[b] => a = b
    /\ FirstFacts \in [Range(Prospects) -> Facts]
    /\ WeightsOf \in [ScoreJobs -> [firmographic : 0..100, technographic : 0..100]]

VARIABLES
    facts,    \* enrichment record and source count of each prospect
    score,    \* account_scores: the committed score, or NoScore
    scoreJob, \* locals of each job
    basis,    \* the write that stored it: its facts and weights (history)
    shown,    \* the score that was broadcast last (history)
    updates,  \* updates of the facts so far
    losses,   \* failures so far
    mixed     \* whether two jobs have overlapped (history)

scoreVars == <<facts, score, basis, scoreJob, shown, updates, losses, mixed>>

NoScore == -1
NoProspect == "none"
NoBasis == [facts |-> {}, weights |-> {}]
Scored == Range(Prospects)

NoScoreJob == [pc |-> "idle", rows |-> <<>>, next |-> 1, written |-> <<>>, aborted |-> FALSE,
               recomputed |-> 0, stored |-> 0, changed |-> 0, errors |-> 0]

ScoreInit ==
    /\ facts = FirstFacts
    /\ score = [p \in Scored |-> NoScore]
    /\ basis = [p \in Scored |-> NoBasis]
    /\ scoreJob = [j \in ScoreJobs |-> NoScoreJob]
    /\ shown = [p \in Scored |-> NoScore]
    /\ updates = 0
    /\ losses = 0
    /\ mixed = FALSE

-----------------------------------------------------------------------------
\* _compute_prospect_score.

Firmographic(f) ==
    IF ~f.complete \/ f.employees = 0 THEN Missing
    ELSE LET size == CASE f.employees \in 50..500 -> 20
                       [] f.employees \in 501..5000 -> 15
                       [] f.employees > 5000 -> 10
                       [] OTHER -> 5
         IN  Least(50 + size + (IF f.industry THEN 10 ELSE 0) + (IF f.revenue THEN 10 ELSE 0), 100)

Technographic(f) == IF ~f.complete \/ f.tech = 0 THEN Missing ELSE Least(f.tech * 10, 100)

(* The other three factors are never available to the task.                *)
Factors(f) == [firmographic |-> Firmographic(f), technographic |-> Technographic(f)]

ScoreOf(f, weights) == ComputeScore(Factors(f), weights, f.sources, FALSE)

-----------------------------------------------------------------------------
\* The task.

Job(j) == scoreJob[j]
SetJob(j, job) == scoreJob' = [scoreJob EXCEPT ![j] = job]
Working(j) == Job(j).pc \in {"scoring", "commit"}

(* Prospects that a job wrote in its open transaction.                     *)
Locked(j) == {Job(j).written[i].prospect : i \in DOMAIN Job(j).written}

BatchEnds(n, rows) == n % SCORE_BATCH = 0 \/ n = Len(rows)

Stepped(job) ==
    [job EXCEPT !.next = @ + 1, !.pc = IF BatchEnds(job.next, job.rows) THEN "commit" ELSE "scoring"]

(* _get_non_terminal_prospects, or _get_single_prospect, which does not    *)
(* look at the pipeline.                                                   *)
Load(j) ==
    /\ Job(j).pc = "idle"
    /\ LET read == Kept(Prospects, IF Single[j] # NoProspect THEN {Single[j]} ELSE Scored \ Terminal)
           rows == [i \in DOMAIN read |-> [prospect |-> read[i], facts |-> facts[read[i]],
                                           current |-> score[read[i]]]]
       IN  SetJob(j, [NoScoreJob EXCEPT !.pc = IF rows = <<>> THEN "done" ELSE "scoring", !.rows = rows])
    /\ mixed' = (mixed \/ \E k \in ScoreJobs \ {j} : Working(k))
    /\ UNCHANGED <<facts, score, basis, shown, updates, losses>>

Changed(row, total) == row.current = NoScore \/ row.current # total

(* The upsert and, when the score has changed, its broadcast, which may    *)
(* fail without consequence.                                               *)
Upsert(j) ==
    /\ Job(j).pc = "scoring"
    /\ ~Job(j).aborted
    /\ LET row == Job(j).rows[Job(j).next]
           total == ScoreOf(row.facts, WeightsOf[j])
           changed == Changed(row, total)
       IN  /\ \A k \in ScoreJobs \ {j} : row.prospect \notin Locked(k)
           /\ SetJob(j, Stepped([Job(j) EXCEPT
                            !.written = Append(@, [prospect |-> row.prospect, total |-> total,
                                                   facts |-> row.facts, weights |-> WeightsOf[j]]),
                            !.recomputed = @ + 1,
                            !.changed = IF changed THEN @ + 1 ELSE @]))
           /\ \/ /\ shown' = IF changed THEN [shown EXCEPT ![row.prospect] = total] ELSE shown
                 /\ UNCHANGED losses
              \/ /\ changed
                 /\ losses < MaxLosses
                 /\ losses' = losses + 1
                 /\ UNCHANGED shown
    /\ UNCHANGED <<facts, score, basis, updates, mixed>>

(* Mutant: a failed prospect is not counted.                               *)
UpsertFailsUncounted(j) ==
    /\ Job(j).pc = "scoring"
    /\ Job(j).aborted \/ losses < MaxLosses
    /\ losses' = IF Job(j).aborted THEN losses ELSE losses + 1
    /\ \E statement \in BOOLEAN : SetJob(j, Stepped([Job(j) EXCEPT !.aborted = @ \/ statement]))
    /\ UNCHANGED <<facts, score, basis, shown, updates, mixed>>

(* The score of a prospect cannot be computed, which leaves the            *)
(* transaction as it is, or the statement fails: by itself, or because one *)
(* has failed before it.                                                   *)
UpsertFails(j) ==
    /\ Job(j).pc = "scoring"
    /\ Job(j).aborted \/ losses < MaxLosses
    /\ losses' = IF Job(j).aborted THEN losses ELSE losses + 1
    /\ \E statement \in BOOLEAN :
        SetJob(j, Stepped([Job(j) EXCEPT !.aborted = @ \/ statement, !.errors = @ + 1]))
    /\ UNCHANGED <<facts, score, basis, shown, updates, mixed>>

(* The writes become visible, or a failed transaction is rolled back.      *)
Commit(j) ==
    /\ Job(j).pc = "commit"
    /\ LET written == IF Job(j).aborted THEN <<>> ELSE Job(j).written
           ended == Job(j).next > Len(Job(j).rows)
           touched == {w.prospect : w \in Range(written)}
           write(p) == CHOOSE w \in Range(written) : w.prospect = p
       IN  /\ score' = [p \in Scored |-> IF p \in touched THEN write(p).total ELSE score[p]]
           /\ basis' = [p \in Scored |-> IF p \in touched THEN write(p) ELSE basis[p]]
           /\ SetJob(j, [Job(j) EXCEPT !.stored = @ + Len(written), !.written = <<>>, !.aborted = FALSE,
                                       !.pc = IF ended THEN "done" ELSE "scoring"])
    /\ UNCHANGED <<facts, shown, updates, losses, mixed>>

(* The connection is lost at the commit: the task raises and its open      *)
(* transaction is rolled back.                                             *)
CommitRaises(j) ==
    /\ Job(j).pc = "commit"
    /\ losses < MaxLosses
    /\ losses' = losses + 1
    /\ SetJob(j, [Job(j) EXCEPT !.written = <<>>, !.pc = "raised"])
    /\ UNCHANGED <<facts, score, basis, shown, updates, mixed>>

(* The enrichment cycle or a discovery changes what the tables say.        *)
UpdateFacts ==
    /\ updates < MaxUpdates
    /\ updates' = updates + 1
    /\ \E p \in Scored, f \in Facts : facts' = [facts EXCEPT ![p] = f]
    /\ UNCHANGED <<score, basis, scoreJob, shown, losses, mixed>>

ScoreNext ==
    \/ \E j \in ScoreJobs : Load(j) \/ Upsert(j) \/ UpsertFails(j) \/ Commit(j) \/ CommitRaises(j)
    \/ UpdateFacts

ScoreSpec == ScoreInit /\ [][ScoreNext]_scoreVars

-----------------------------------------------------------------------------
\* Properties.

(* Every variable has its type, and no prospect is written twice in the    *)
(* open transactions.                                                      *)
ScoreTypeOK ==
    /\ \A p \in Scored : facts[p] \in Facts /\ {score[p], shown[p]} \subseteq 0..100 \cup {NoScore}
    /\ \A j \in ScoreJobs :
        /\ Job(j).pc \in {"idle", "scoring", "commit", "done", "raised"}
        /\ Job(j).next \in 1..Len(Job(j).rows) + 1
        /\ Job(j).changed <= Job(j).recomputed
        /\ \A k \in ScoreJobs \ {j} : Locked(j) \cap Locked(k) = {}

(* A job that returns without errors has stored each score it counts.      *)
(* With errors the count may be too high: the batch of a failed statement  *)
(* is lost.                                                                *)
CountedIsStored ==
    \A j \in ScoreJobs : Job(j).pc = "done" /\ Job(j).errors = 0 => Job(j).stored = Job(j).recomputed

(* While no job has overlapped another and nothing has failed, the score   *)
(* that the dashboard was told last is the stored one.                     *)
ShownIsStored ==
    ~mixed /\ losses = 0 /\ (\A j \in ScoreJobs : ~Working(j)) => shown = score

(* A stored score lies between the weakest and the strongest of the        *)
(* factors that had a weight, the latter raised by the bonus of the        *)
(* sources: no weight is lost when a factor is missing.                    *)
ScoreIsBounded ==
    \A p \in Scored : score[p] # NoScore =>
        LET factors == Factors(basis[p].facts)
            values == {factors[n] : n \in {m \in Available(factors) : basis[p].weights[m] > 0}}
            bonus == Bonus(basis[p].facts.sources)
        IN  IF values = {} THEN score[p] = bonus
            ELSE /\ Min(values) <= score[p]
                 /\ score[p] <= Least(Max(values) + bonus, 100)

(* What the jobs count and show is what they stored, for jobs that write   *)
(* the same prospects in transactions of their own and lose some.          *)
ScoringSafety == ScoreTypeOK /\ CountedIsStored /\ ShownIsStored /\ ScoreIsBounded
=============================================================================

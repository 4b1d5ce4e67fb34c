---------------------------- MODULE ReviewCycle ----------------------------
(***************************************************************************)
(* The critique of drafted materials: ReviewService.review_material        *)
(* (app/core/review_service.py), called in batches by the task             *)
(* run_review_processing (app/workers/review_worker.py) and one by one by  *)
(* PreparePipeline.run (app/core/prepare_pipeline.py) through              *)
(* ReviewPipelineStage; and the log that ReviewRepository keeps.           *)
(*                                                                         *)
(* A text is a sequence of passages, each with its words; an edit replaces *)
(* one passage, so no edit begins or ends inside a word.  The reviewer     *)
(* answers with any of a few critiques and any of a few revisions.  One    *)
(* action per awaited call of the language model or of the database, so    *)
(* that the calls of a batch, of two batches and of the pipelines          *)
(* interleave.  Nothing in src/ takes a material out of review_pending:    *)
(* each batch fetches the same oldest materials.                           *)
(***************************************************************************)
EXTENDS Integers, Sequences, FiniteSets, SequencesExt

CONSTANTS
    Passages,          \* what a text consists of
    WordsOf,           \* the words of each passage, in lower case (_tokenize)
    Significant,       \* words of more than three characters that are not common ones
    Pending,           \* materials in review_pending, oldest first
    Configured,        \* materials whose prepare technique names a review technique
    Draft,             \* the drafted text of each
    DRAFT_SCORE,       \* quality score of a draft
    Assets,            \* assets of the beneficiary
    Holds,             \* words that occur in each asset, be it inside a longer word
    Critiques,         \* answers of the reviewer: sequences of edits
    Revisions,         \* answers of the drafter to narrative findings
    Batches,           \* executions of run_review_processing
    Pipelines,         \* executions of PreparePipeline.run
    BATCH_SIZE,        \* materials a batch fetches
    BATCH_CONCURRENCY, \* reviews of batches in progress at once
    MAX_RETRIES,       \* retries of a request to the model
    MAX_CYCLES         \* min(max_review_cycles, 3)

ASSUME ReviewAssumption ==
    /\ {BATCH_SIZE, BATCH_CONCURRENCY, MAX_CYCLES} \subseteq Nat \ {0}
    /\ MAX_RETRIES \in Nat
    /\ Batches \cap Pipelines = {}
    /\ Pending \in Seq(Range(Pending))
    /\ Draft \in [Range(Pending) -> Seq(Passages)]
    /\ DRAFT_SCORE \in 0..100
    /\ \A edits \in Critiques : edits \in Seq([old : Passages, new : Passages])
    /\ Revisions \subseteq Seq(Passages)
    /\ DOMAIN WordsOf = Passages
    /\ DOMAIN Holds = Assets

VARIABLES
    review,    \* locals of each call of review_material
    reviewLog, \* rows of review_reasoning_logs, in the order of their inserts
    batch,     \* summary of each batch, when it has returned
    stage      \* what each pipeline knows and returns

revVars == <<review, reviewLog, batch, stage>>

Materials == Range(Pending)
Calls == (Batches \cup Pipelines) \X Materials
DraftOf(c) == Draft[c[2]]
OfBatch(c) == c[1] \in Batches
Fetched == {Pending[i] : i \in 1..(IF Len(Pending) < BATCH_SIZE THEN Len(Pending) ELSE BATCH_SIZE)}

NoCall == [pc |-> "none", tries |-> 0, text |-> <<>>, score |-> 0, revised |-> FALSE,
           cycles |-> 0, status |-> "none"]
Active(c) == review[c].pc \in {"critique", "revise", "marking", "saving"}
Ended(c) == review[c].pc \in {"returned", "raised"}

Row(m, status, cycles) == [material |-> m, status |-> status, cycles |-> cycles]
Summary(state, failed, unreviewed) == [state |-> state, failed |-> failed, unreviewed |-> unreviewed]
NoStage == [state |-> "idle", text |-> <<>>, status |-> "none", grounding |-> "none"]

RevInit ==
    /\ review = [c \in Calls |-> NoCall]
    /\ reviewLog = <<>>
    /\ batch = [b \in Batches |-> Summary("idle", 0, 0)]
    /\ stage = [p \in Pipelines |-> NoStage]

-----------------------------------------------------------------------------
\* The edits and the score.

Occurrences(text, passage) == {i \in DOMAIN text : text[i] = passage}

(* _is_ungrounded: a significant word that the edit introduces occurs in   *)
(* no asset of the beneficiary.  Short words, such as many names of        *)
(* credentials and all small numbers, are not looked at, and without       *)
(* assets everything is allowed.                                           *)
Introduced(edit) == WordsOf[edit.new] \ WordsOf[edit.old]
AssetWords == UNION {Holds[d] : d \in Assets}

Ungrounded(edit) ==
    /\ Assets # {}
    /\ ~ (Introduced(edit) \cap Significant \subseteq AssetWords)

Outcome(text, edit) ==
    CASE Cardinality(Occurrences(text, edit.old)) # 1 -> "skipped"
      [] Cardinality(Occurrences(text, edit.old)) = 1 /\ Ungrounded(edit) -> "discarded"
      [] OTHER -> "applied"

Applied(text, edit) ==
    IF Outcome(text, edit) = "applied"
    THEN [i \in DOMAIN text |-> IF text[i] = edit.old THEN edit.new ELSE text[i]]
    ELSE text

(* The edits are tried in order, each against the text the earlier left.   *)
ApplyEdits(text, edits) ==
    LET after[i \in 0..Len(edits)] == IF i = 0 THEN text ELSE Applied(after[i - 1], edits[i])
    IN  after[Len(edits)]

Clamp(n) == IF n < 0 THEN 0 ELSE IF n > 100 THEN 100 ELSE n

(* Passages stand for characters in the ratio and for paragraphs in the    *)
(* bonus.                                                                  *)
QualityScore(text, draft) ==
    LET change == IF 2 * Len(text) < Len(draft) THEN -10
                  ELSE IF 2 * Len(text) > 3 * Len(draft) THEN -3 ELSE 2
        structure == IF Len(text) < 5 THEN Len(text) ELSE 5
    IN  IF draft = <<>> THEN DRAFT_SCORE ELSE Clamp(DRAFT_SCORE + change + structure)

-----------------------------------------------------------------------------
\* review_material.

(* Without a technique the draft is returned as reviewed and not logged.   *)
Begun(c) ==
    IF c[2] \in Configured
    THEN [NoCall EXCEPT !.pc = "critique", !.text = DraftOf(c), !.score = DRAFT_SCORE]
    ELSE [NoCall EXCEPT !.pc = "returned", !.text = DraftOf(c), !.score = DRAFT_SCORE,
                        !.status = "reviewed"]

Becomes(c, call) == review' = [review EXCEPT ![c] = call]

(* The end of a cycle with this text: its score, one more cycle for the    *)
(* log, then the next cycle or the end of the review.                      *)
Cycled(c, call, text) ==
    LET again == call.cycles + 1 < MAX_CYCLES IN
    [call EXCEPT !.text = text, !.tries = 0, !.cycles = @ + 1,
                 !.score = QualityScore(text, DraftOf(c)),
                 !.pc = IF again THEN "critique" ELSE "saving",
                 !.status = IF again THEN @ ELSE "reviewed"]

EndCycle(c, call, text) == Becomes(c, Cycled(c, call, text))

Retried(call) == [call EXCEPT !.tries = @ + 1]
Degraded(c, call) == [call EXCEPT !.pc = "marking", !.status = "unreviewed", !.text = DraftOf(c)]

(* The semaphore of the service admits a call of a batch.                  *)
Admit(c) ==
    /\ review[c].pc = "queued"
    /\ Cardinality({d \in Calls : OfBatch(d) /\ Active(d)}) < BATCH_CONCURRENCY
    /\ Becomes(c, Begun(c))
    /\ UNCHANGED <<reviewLog, batch, stage>>

(* An answer that parses; with findings a revision is asked for.           *)
Critique(c) ==
    /\ review[c].pc = "critique"
    /\ \E edits \in Critiques, findings \in BOOLEAN :
        LET text == ApplyEdits(review[c].text, edits) IN
        IF findings
        THEN Becomes(c, [review[c] EXCEPT !.pc = "revise", !.tries = 0, !.text = text])
        ELSE EndCycle(c, review[c], text)
    /\ UNCHANGED <<reviewLog, batch, stage>>

(* A timeout, an error of the provider or an answer that does not parse:   *)
(* again, while retries are left, and then the review degrades to the      *)
(* draft.                                                                  *)
CritiqueFails(c) ==
    /\ review[c].pc = "critique"
    /\ Becomes(c, IF review[c].tries < MAX_RETRIES THEN Retried(review[c]) ELSE Degraded(c, review[c]))
    /\ UNCHANGED <<reviewLog, batch, stage>>

Revise(c) ==
    /\ review[c].pc = "revise"
    /\ \E text \in Revisions : EndCycle(c, [review[c] EXCEPT !.revised = TRUE], text)
    /\ UNCHANGED <<reviewLog, batch, stage>>

(* An error or an empty answer; after the last the text stays as it is.    *)
RevisionFails(c) ==
    /\ review[c].pc = "revise"
    /\ IF review[c].tries < MAX_RETRIES
       THEN Becomes(c, Retried(review[c]))
       ELSE EndCycle(c, review[c], review[c].text)
    /\ UNCHANGED <<reviewLog, batch, stage>>

(* mark_unreviewed: the rows of the material that say otherwise, whichever *)
(* review wrote them, or a minimal row.                                    *)
MarkUnreviewed(c) ==
    LET others == {i \in DOMAIN reviewLog : reviewLog[i].material = c[2]
                                            /\ reviewLog[i].status # "unreviewed"}
    IN  /\ review[c].pc = "marking"
        /\ reviewLog' = IF others = {} THEN Append(reviewLog, Row(c[2], "unreviewed", 0))
                        ELSE [i \in DOMAIN reviewLog |->
                                IF i \in others THEN [reviewLog[i] EXCEPT !.status = "unreviewed"]
                                ELSE reviewLog[i]]
        /\ Becomes(c, [review[c] EXCEPT !.pc = "saving"])
        /\ UNCHANGED <<batch, stage>>

SaveLog(c) ==
    /\ review[c].pc = "saving"
    /\ reviewLog' = Append(reviewLog, Row(c[2], review[c].status, review[c].cycles))
    /\ Becomes(c, [review[c] EXCEPT !.pc = "returned"])
    /\ UNCHANGED <<batch, stage>>

(* The database refuses a statement: the exception leaves review_material. *)
StoreFails(c) ==
    /\ review[c].pc \in {"marking", "saving"}
    /\ Becomes(c, [review[c] EXCEPT !.pc = "raised"])
    /\ UNCHANGED <<reviewLog, batch, stage>>

-----------------------------------------------------------------------------
\* run_review_processing.

FetchPending(b) ==
    /\ batch[b].state = "idle"
    /\ \/ /\ batch' = [batch EXCEPT ![b] = Summary("running", 0, 0)]
          /\ review' = [c \in Calls |-> IF c[1] = b /\ c[2] \in Fetched
                                        THEN [NoCall EXCEPT !.pc = "queued"] ELSE review[c]]
       \/ /\ batch' = [batch EXCEPT ![b] = Summary("ended", Cardinality(Fetched), 0)]
          /\ UNCHANGED review
    /\ UNCHANGED <<reviewLog, stage>>

UnreviewedBy(b) == Cardinality({m \in Fetched : review[<<b, m>>].status = "unreviewed"})

(* Mutant: exceptions are returned as results, and counted as neither.     *)
GatherExceptions(b) ==
    /\ batch[b].state = "running"
    /\ \A m \in Fetched : Ended(<<b, m>>)
    /\ batch' = [batch EXCEPT ![b] = Summary("ended", 0, UnreviewedBy(b))]
    /\ UNCHANGED <<review, reviewLog, stage>>

(* gather: the first exception ends the batch as failed, and the reviews   *)
(* that are still in progress go on without it.                            *)
Gather(b) ==
    /\ batch[b].state = "running"
    /\ \/ /\ \E m \in Fetched : review[<<b, m>>].pc = "raised"
          /\ batch' = [batch EXCEPT ![b] = Summary("ended", Cardinality(Fetched), 0)]
       \/ /\ \A m \in Fetched : review[<<b, m>>].pc = "returned"
          /\ batch' = [batch EXCEPT ![b] = Summary("ended", 0, UnreviewedBy(b))]
    /\ UNCHANGED <<review, reviewLog, stage>>

-----------------------------------------------------------------------------
\* PreparePipeline.run and ReviewPipelineStage.

CallOf(p) == CHOOSE c \in Calls : c[1] = p /\ review[c].pc # "none"

(* Generation that fails raises before there is a draft.  The voice of the *)
(* beneficiary, which may be missing or fail to load, changes only what    *)
(* the reviewer answers.                                                   *)
Generate(p) ==
    /\ stage[p].state = "idle"
    /\ \/ \E m \in Materials :
            /\ stage' = [stage EXCEPT ![p] = [NoStage EXCEPT !.state = "reviewing"]]
            /\ Becomes(<<p, m>>, Begun(<<p, m>>))
       \/ /\ stage' = [stage EXCEPT ![p] = [NoStage EXCEPT !.state = "raised"]]
          /\ UNCHANGED review
    /\ UNCHANGED <<reviewLog, batch>>

(* The text is grounded when that is configured; a failure is no result.   *)
GroundingOutcomes == {"none", "checked"}

(* A review that raised leaves the draft as unreviewed.                    *)
AfterReview(p) ==
    /\ stage[p].state = "reviewing"
    /\ Ended(CallOf(p))
    /\ \E grounding \in GroundingOutcomes :
        LET c == CallOf(p)
            raised == review[c].pc = "raised"
        IN  stage' = [stage EXCEPT ![p] =
                [state |-> "prepared", text |-> IF raised THEN DraftOf(c) ELSE review[c].text,
                 status |-> IF raised THEN "unreviewed" ELSE review[c].status, grounding |-> grounding]]
    /\ UNCHANGED <<review, reviewLog, batch>>

-----------------------------------------------------------------------------
CallStep(c) ==
    \/ Admit(c) \/ Critique(c) \/ CritiqueFails(c) \/ Revise(c) \/ RevisionFails(c)
    \/ MarkUnreviewed(c) \/ SaveLog(c) \/ StoreFails(c)

RevNext ==
    \/ \E c \in Calls : CallStep(c)
    \/ \E b \in Batches : FetchPending(b) \/ Gather(b)
    \/ \E p \in Pipelines : Generate(p) \/ AfterReview(p)

RevSpec == RevInit /\ [][RevNext]_revVars

-----------------------------------------------------------------------------
\* Properties.

Statuses == {"none", "reviewed", "unreviewed"}
(* The locals, the rows and the results keep their types.                  *)
RevTypeOK ==
    /\ \A c \in Calls :
        /\ review[c].pc \in {"none", "queued", "critique", "revise", "marking", "saving",
                             "returned", "raised"}
        /\ review[c].tries \in 0..MAX_RETRIES
        /\ review[c].score \in 0..100
        /\ review[c].revised \in BOOLEAN
        /\ review[c].status \in Statuses
        /\ review[c].cycles \in 0..MAX_CYCLES
    /\ \A i \in DOMAIN reviewLog : reviewLog[i].status \in Statuses \ {"none"}
    /\ \A b \in Batches : batch[b].state \in {"idle", "running", "ended"}
    /\ \A p \in Pipelines : stage[p].state \in {"idle", "reviewing", "prepared", "raised"}

(* What review_material or the stage hands on as unreviewed is the draft   *)
(* itself, whatever earlier cycles had made of the text.                   *)
UnreviewedIsTheDraft ==
    /\ \A c \in Calls : review[c].pc = "returned" /\ review[c].status = "unreviewed"
            => review[c].text = DraftOf(c)
    /\ \A p \in Pipelines : stage[p].state = "prepared" /\ stage[p].status = "unreviewed"
            => stage[p].text = DraftOf(CallOf(p))

(* The edits alone put no significant word in a text that is neither in    *)
(* its draft nor in the assets of the beneficiary, over all cycles and     *)
(* edits that build on one another, though each edit is checked against    *)
(* the passage it replaces and never against the draft.  Only a revision   *)
(* by the model may; of words that are not significant nothing is said.    *)
WordsIn(text) == UNION {WordsOf[passage] : passage \in Range(text)}

EditsStayGrounded ==
    Assets # {} => \A c \in Calls : ~ review[c].revised
        => WordsIn(review[c].text) \cap Significant \subseteq WordsIn(DraftOf(c)) \cup AssetWords

(* The score that a finished review reports is the score of the text it    *)
(* hands on, not of the text before the last revision.                     *)
ScoreIsOfTheText ==
    \A c \in Calls : review[c].pc = "returned" /\ review[c].cycles # 0
                     /\ review[c].status = "reviewed"
        => review[c].score = QualityScore(review[c].text, DraftOf(c))

(* A review that degraded and returned stays in the Requires Action query  *)
(* of the dashboard: no other review of the material takes it out.         *)
DegradedIsListed ==
    \A c \in Calls : review[c].pc = "returned" /\ review[c].status = "unreviewed"
        => \E i \in DOMAIN reviewLog : reviewLog[i].material = c[2]
                                       /\ reviewLog[i].status = "unreviewed"

(* A batch that reports no failure has left a row for each material whose  *)
(* technique asks for a review, and counted the degraded ones.             *)
CleanBatchIsLogged ==
    \A b \in Batches : batch[b].state = "ended" /\ batch[b].failed = 0 =>
        /\ \A m \in Fetched \cap Configured : \E i \in DOMAIN reviewLog : reviewLog[i].material = m
        /\ batch[b].unreviewed = UnreviewedBy(b)

(* Rows of the log are never removed, and a row that says unreviewed never *)
(* says reviewed again.                                                    *)
RowsOnlyDegrade ==
    \A i \in DOMAIN reviewLog :
        /\ i \in DOMAIN reviewLog'
        /\ reviewLog[i].status = "unreviewed" => reviewLog'[i].status = "unreviewed"
        /\ reviewLog'[i].cycles = reviewLog[i].cycles

(* Whatever fails, the reviews hand on what they say they hand on, and the *)
(* log that the dashboard queries agrees with them.                        *)
ReviewSafety ==
    /\ [](/\ RevTypeOK /\ UnreviewedIsTheDraft /\ EditsStayGrounded /\ ScoreIsOfTheText
         /\ DegradedIsListed /\ CleanBatchIsLogged)
    /\ [][RowsOnlyDegrade]_revVars
=============================================================================

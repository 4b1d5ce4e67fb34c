--------------------------- MODULE EnrichmentCycle ---------------------------
(***************************************************************************)
(* The task run_enrichment_cycle (app/workers/enrichment_worker.py), which *)
(* refreshes the stale enrichment records through ApolloClient.            *)
(*                                                                         *)
(* The records are objects of one session, as they were when it fetched    *)
(* them, and a commit writes only the columns whose value differs from     *)
(* that copy.  A rollback expires them all, and an expired attribute       *)
(* cannot be loaded again outside an await: after a failure the next       *)
(* record raises, and so does the handler that would log its id.           *)
(***************************************************************************)
EXTENDS Integers, Sequences, FiniteSets, SequencesExt, Selection

CONSTANTS
    Oldest,        \* enrichment records, oldest first
    ProspectOf,    \* of each record: "gone", "no_domain" or "domain"
    Cycles,        \* executions of the task
    CYCLE_LIMIT,   \* records a cycle fetches
    Columns,       \* the columns with what Apollo knows of a company
    Found,         \* what Apollo may find: a value for each column
    FirstFound     \* what it has found for all records before

ASSUME CycleAssumption ==
    /\ Oldest \in Seq(Range(Oldest)) /\ IsInjective(Oldest)
    /\ CYCLE_LIMIT \in Nat \ {0}
    /\ FirstFound \in Found
    /\ \A data \in Found : data = [k \in Columns |-> data[k]]

VARIABLES
    enriched,    \* status, data and age of each record
    cycle,       \* locals of each execution
    answers,     \* history: the answers stored for each record
    lastAnswer,  \* history: the last of them
    shared       \* history: records that two executions have held at once

cycleVars == <<enriched, cycle, answers, lastAnswer, shared>>

Records == Range(Oldest)

Failures == {"not_found", "enrichment_failed"}
Complete(data) == [status |-> "complete", data |-> data]
Failed(status) == [status |-> status, data |-> [k \in Columns |-> "none"]]
NoCycle == [pc |-> "idle", todo |-> <<>>, copy |-> [r \in Records |-> FirstFound],
            answer |-> Complete(FirstFound), expired |-> FALSE,
            refreshed |-> 0, failed |-> 0, skipped |-> 0, committed |-> {}]

CycleInit ==
    /\ enriched = [r \in Records |-> [status |-> "complete", data |-> FirstFound, stale |-> TRUE]]
    /\ cycle = [c \in Cycles |-> NoCycle]
    /\ answers = [r \in Records |-> {Complete(FirstFound)}]
    /\ lastAnswer = [r \in Records |-> Complete(FirstFound)]
    /\ shared = {}

-----------------------------------------------------------------------------

Record(c) == Head(cycle[c].todo)
SetCycle(c, value) == cycle' = [cycle EXCEPT ![c] = value]
Ends(todo) == IF todo = <<>> THEN "returned" ELSE "next"
Done(run) == [run EXCEPT !.todo = Tail(@), !.pc = Ends(Tail(run.todo))]

(* The records that an execution may still write.                          *)
Held(run) == IF run.pc \in {"next", "saving"} /\ ~run.expired THEN Range(run.todo) ELSE {}

(* _get_stale_enrichment_records.  A record whose refresh has failed is    *)
(* not complete any more and is not fetched again.                         *)
FetchStale(c) ==
    /\ cycle[c].pc = "idle"
    /\ LET stale == Kept(Oldest, {r \in Records : enriched[r].status = "complete" /\ enriched[r].stale})
           todo == SubSeq(stale, 1, IF Len(stale) < CYCLE_LIMIT THEN Len(stale) ELSE CYCLE_LIMIT)
       IN  /\ SetCycle(c, [NoCycle EXCEPT !.todo = todo, !.pc = Ends(todo),
                                          !.copy = [r \in Records |-> enriched[r].data]])
           /\ shared' = shared \cup {r \in Range(todo) : \E d \in Cycles : r \in Held(cycle[d])}
    /\ UNCHANGED <<enriched, answers, lastAnswer>>

(* The prospect is gone or has no domain: nothing is done for the record,  *)
(* which stays among the oldest.                                           *)
Skip(c) ==
    /\ cycle[c].pc = "next"
    /\ ~cycle[c].expired
    /\ ProspectOf[Record(c)] # "domain"
    /\ SetCycle(c, [Done(cycle[c]) EXCEPT !.skipped = @ + 1])
    /\ UNCHANGED <<enriched, answers, lastAnswer, shared>>

(* enrich_company returns, whatever the outcome of its attempts.           *)
CallApollo(c) ==
    /\ cycle[c].pc = "next"
    /\ ~cycle[c].expired
    /\ ProspectOf[Record(c)] = "domain"
    /\ \E answer \in {Complete(data) : data \in Found} \cup {Failed(status) : status \in Failures} :
        SetCycle(c, [cycle[c] EXCEPT !.pc = "saving", !.answer = answer])
    /\ UNCHANGED <<enriched, answers, lastAnswer, shared>>

(* Mutant: a refresh that has failed does not write its status.            *)
WrittenWithoutStatus(row, copy, answer) ==
    [row EXCEPT !.data = [k \in Columns |-> IF answer.data[k] = copy[k] THEN @[k] ELSE answer.data[k]],
                !.stale = FALSE]

(* The UPDATE of a row: the columns in which the answer differs from the   *)
(* copy, by None when nothing was found.  The copy is always complete, so  *)
(* that this status is never written.                                      *)
Written(row, copy, answer) ==
    [status |-> IF answer.status = "complete" THEN row.status ELSE answer.status,
     data   |-> [k \in Columns |-> IF answer.data[k] = copy[k] THEN row.data[k] ELSE answer.data[k]],
     stale  |-> FALSE]

StoreAnswer(c) ==
    LET r == Record(c)
        answer == cycle[c].answer
    IN  /\ enriched' = [enriched EXCEPT ![r] = Written(@, cycle[c].copy[r], answer)]
        /\ answers' = [answers EXCEPT ![r] = @ \cup {answer}]
        /\ lastAnswer' = [lastAnswer EXCEPT ![r] = answer]
        /\ UNCHANGED shared

Save(c) ==
    /\ cycle[c].pc = "saving"
    /\ StoreAnswer(c)
    /\ SetCycle(c, [Done(cycle[c]) EXCEPT !.refreshed = @ + 1, !.committed = @ \cup {Record(c)}])

(* The query of the prospect or the call (a 429) raises; the handler rolls *)
(* back.                                                                   *)
RefreshFails(c) ==
    /\ cycle[c].pc = "next"
    /\ ~cycle[c].expired
    /\ SetCycle(c, [Done(cycle[c]) EXCEPT !.failed = @ + 1, !.expired = TRUE])
    /\ UNCHANGED <<enriched, answers, lastAnswer, shared>>

(* The UPDATE has passed and the COMMIT raises: the row may be written.    *)
CommitFails(c) ==
    /\ cycle[c].pc = "saving"
    /\ \/ /\ SetCycle(c, [Done(cycle[c]) EXCEPT !.failed = @ + 1, !.expired = TRUE])
          /\ UNCHANGED <<enriched, answers, lastAnswer, shared>>
       \/ /\ SetCycle(c, [Done(cycle[c]) EXCEPT !.failed = @ + 1, !.expired = TRUE,
                                                !.committed = @ \cup {Record(c)}])
          /\ StoreAnswer(c)

(* The UPDATE raises and has expired the records before the handler reads  *)
(* the id of this one.                                                     *)
FlushFails(c) ==
    /\ cycle[c].pc = "saving"
    /\ SetCycle(c, [cycle[c] EXCEPT !.pc = "raised", !.expired = TRUE])
    /\ UNCHANGED <<enriched, answers, lastAnswer, shared>>

(* An attribute of an expired record is read, in the loop and then in its  *)
(* handler: the task raises.                                               *)
ReadExpired(c) ==
    /\ cycle[c].pc = "next"
    /\ cycle[c].expired
    /\ SetCycle(c, [cycle[c] EXCEPT !.pc = "raised"])
    /\ UNCHANGED <<enriched, answers, lastAnswer, shared>>

(* Thirty days pass.                                                       *)
GoStale ==
    /\ \E r \in Records :
        /\ ~enriched[r].stale
        /\ enriched' = [enriched EXCEPT ![r].stale = TRUE]
    /\ UNCHANGED <<cycle, answers, lastAnswer, shared>>

CycleNext ==
    \/ \E c \in Cycles :
        \/ FetchStale(c) \/ Skip(c) \/ CallApollo(c) \/ Save(c)
        \/ RefreshFails(c) \/ CommitFails(c) \/ FlushFails(c) \/ ReadExpired(c)
    \/ GoStale

CycleSpec == CycleInit /\ [][CycleNext]_cycleVars

-----------------------------------------------------------------------------
\* Properties.

(* A record that two executions never held at once is its last answer, the *)
(* status and every column.  Executions that overlap may leave a row of    *)
(* two answers, as each writes only what differs from its own copy.        *)
UnsharedHoldsAnswer ==
    \A r \in Records \ shared :
        enriched[r].status = lastAnswer[r].status /\ enriched[r].data = lastAnswer[r].data

(* However executions overlap, a record is complete as long as no failed   *)
(* refresh of it has been stored, and only so long: the scores trust the   *)
(* status, and no later answer takes a failure back.  Every column comes   *)
(* from some answer for this record.                                       *)
CompleteNeverFailed ==
    \A r \in Records :
        /\ enriched[r].status = "complete" <=> \A answer \in answers[r] : answer.status = "complete"
        /\ \A k \in Columns : \E answer \in answers[r] : enriched[r].data[k] = answer.data[k]

(* What an execution counts as refreshed is what it has committed, but for *)
(* a record whose commit raised, and one that returns has failed at its    *)
(* last record at most: its summary never shows two failures.              *)
RefreshedIsCommitted ==
    \A c \in Cycles :
        /\ cycle[c].refreshed <= Cardinality(cycle[c].committed)
        /\ Cardinality(cycle[c].committed) <= cycle[c].refreshed + cycle[c].failed
        /\ cycle[c].failed <= 1

(* After a failure an execution refreshes nothing more.                    *)
NothingAfterAFailure ==
    \A c \in Cycles : cycle[c].expired => cycle'[c].committed = cycle[c].committed

(* The records are what was answered for them and the counts of the        *)
(* executions what they committed, up to the failure that ends one.        *)
CycleSafety ==
    /\ [](UnsharedHoldsAnswer /\ CompleteNeverFailed /\ RefreshedIsCommitted)
    /\ [][NothingAfterAFailure]_cycleVars
=============================================================================

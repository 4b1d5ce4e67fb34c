--------------------------- MODULE GatedPipeline ---------------------------
(***************************************************************************)
(* The pipeline of one record and the grounding of its materials together: *)
(* what PipelineManager learns of them through PipelineGateService         *)
(* (app/core/pipeline_gate.py), which reads the latest report of the       *)
(* record, while GroundingVerifier writes reports of its own accord.       *)
(*                                                                         *)
(* The verifier's variables and actions are those of Grounding, the        *)
(* manager's those of Pipeline, where the status of the latest report is   *)
(* a variable that changes at any time.  Here it is computed from the      *)
(* tables.                                                                 *)
(***************************************************************************)
EXTENDS Grounding

CONSTANTS
    Record,         \* the pipeline record
    NoRecord,       \* an id without a row
    Movers,         \* calls into the manager that may be in progress at once
    TypeOf,         \* opportunity_type_id of the record
    Ops,            \* operations of the manager
    ManualTargets,  \* the statuses transition_to is called with
    MaxMoves        \* bound on the calls into the manager

VARIABLES
    row, at, move, outcome, board, alerts, jobs, moves, past, unseen, \* of the manager
    outdated  \* calls whose gate has answered before the latest change (history)

(* get_latest_grounding_report: the newest of the record, of whichever     *)
(* material.                                                               *)
IsNewest(n) == n \in Stored /\ \A m \in Stored : m <= n

(* Mutant: the oldest report, without the DESC of the query.               *)
OldestStatus ==
    IF Stored = {} THEN "none"
    ELSE reports[CHOOSE n \in Stored : \A m \in Stored : n <= m].status

RecordStatus ==
    IF Stored = {} THEN "none"
    ELSE reports[CHOOSE n \in Stored : IsNewest(n)].status

Manager == INSTANCE Pipeline WITH
    Records <- {Record}, Handlers <- Movers, MaxCalls <- MaxMoves,
    report <- [r \in {Record} |-> RecordStatus],
    pc <- at, call <- move, result <- outcome, calls <- moves

ASSUME GatedAssumption == Manager!PipelineAssumption

managerVars == <<row, at, move, outcome, board, alerts, jobs, moves, past, unseen>>
gatedVars == <<vars, managerVars, outdated>>

GatedInit ==
    /\ Init
    /\ Manager!Init
    /\ outdated = {}

(* A step of a call into the manager.  The gate has just read the report.  *)
Moves(m) ==
    /\ UNCHANGED vars
    /\ Manager!Begin(m) \/ Manager!Step(m) \/ Manager!Abort(m)
    /\ outdated' = IF at[m] = "gate" THEN outdated \ {m} ELSE outdated

(* A step of the verifier.                                                 *)
Verifies ==
    /\ Next
    /\ UNCHANGED managerVars
    /\ outdated' = IF reports' = reports THEN outdated ELSE Movers

GatedNext == Verifies \/ \E m \in Movers : Moves(m)

GatedSpec == GatedInit /\ [][GatedNext]_gatedVars

-----------------------------------------------------------------------------
\* Properties.

(* Whatever the verifier does is something that Pipeline expects of it:    *)
(* what is shown of Pipeline, where the report changes at will, holds of   *)
(* the two together.  Once a record has a report it has one for good.      *)
ImplementsPipeline == Manager!Spec

Passed(m) == at[m] = "write" /\ move[m].target \in Manager!GATED_STATES

(* A gated write whose gate has answered since the last change of a report *)
(* finds the newest report of the record without an ungrounded claim row:  *)
(* what the verifier counted, the gate read and the tables say is one,     *)
(* but for a report that an edit has recounted.                            *)
GatedWriteIsGrounded ==
    \A m \in Movers : Passed(m) /\ m \notin outdated =>
        \E n \in ReportIds : IsNewest(n) /\ (n \in edited \/ Ungrounded(n) = {})

=============================================================================

------------------------------ MODULE Pipeline ------------------------------
(***************************************************************************)
(* The pipeline state machine: PipelineManager (app/core/                  *)
(* pipeline_manager.py) moving rows of pipeline_records through their      *)
(* statuses, and PipelineGateService (app/core/pipeline_gate.py) refusing  *)
(* the gated statuses to a record whose material has not been grounded.    *)
(*                                                                         *)
(* A call into the manager is a coroutine: it gives up control at every    *)
(* await, so it is cut into one action per awaited call (read the row, ask *)
(* the gate, write the row, publish, enqueue, notify).  Nothing spans two  *)
(* of these steps: no lock, no transaction, no compare-and-set.  Calls     *)
(* come from the ARQ workers and the API processes and interleave freely;  *)
(* the only shared state is the database, Redis, and the job queue.        *)
(***************************************************************************)
EXTENDS PipelineStatuses

CONSTANTS
    Records,        \* ids with a row in pipeline_records
    NoRecord,       \* an id without a row
    Handlers,       \* calls into the manager that may be in progress at once
    TypeOf,         \* opportunity_type_id of each record
    Ops,            \* the operations that are called
    ManualTargets,  \* the statuses transition_to is called with
    Faults,         \* whether awaited calls may fail and processes may die
    MaxCalls        \* bound on the number of calls made in a behaviour

VARIABLES
    row,      \* pipeline_records: current_status, previous_status, is_terminal
    report,   \* status of the record's latest grounding report, or "none"
    pc,       \* the await each call is suspended at
    call,     \* the arguments and local variables of each call
    result,   \* PipelineTransitionResult of the handler's last call
    board,    \* the status of the record when the dashboard last loaded it
    alerts,   \* records with a validation_failed notification
    jobs,     \* process_interview_prep jobs enqueued per record
    calls,    \* calls made so far
    past,     \* history: the transitions committed to each row
    unseen    \* history: the records whose last publish failed or was cut off

vars == <<row, report, pc, call, result, board, alerts, jobs, calls, past, unseen>>

-----------------------------------------------------------------------------
(* Calls.  A reply's text matters only through the two keyword scans.      *)

AllOps == {"reply", "meeting", "proposal", "manual", "validation_failed"}
Texts == [autoReply : BOOLEAN, proposalWord : BOOLEAN]

(* Mutant: a status the schema does not have. *)
TargetMisspelled(op, t) ==
    CASE op = "reply"             -> "Replied"
      [] op = "meeting"           -> "Meeting Booked"
      [] op = "proposal"          -> "Proposal Request"
      [] op = "validation_failed" -> "validation_failed"
      [] op = "manual"            -> t

Target(op, t) ==
    CASE op = "reply"             -> "Replied"
      [] op = "meeting"           -> "Meeting Booked"
      [] op = "proposal"          -> "Proposal Requested"
      [] op = "validation_failed" -> "validation_failed"
      [] op = "manual"            -> t

Row == [status : Status, previous : Status \cup {"none"}, terminal : BOOLEAN]

Calls ==
    [op : AllOps, rec : Records \cup {NoRecord}, target : Status, snap : Row]

NoRow == [status |-> "Drafted", previous |-> "none", terminal |-> FALSE]
NoCall(r) == [op |-> "manual", rec |-> r, target |-> "Drafted", snap |-> NoRow]

Results ==
    {"none", "advanced", "no_change", "invalid_state", "already_terminal",
     "grounding_blocked", "aborted"}

Awaits == {"read", "gate", "write", "publish", "dispatch", "notify"}

PipelineAssumption ==
    /\ NoRecord \notin Records
    /\ TypeOf \in [Records -> OpportunityTypes]
    /\ Ops \subseteq AllOps
    /\ ManualTargets \subseteq Status
    /\ Faults \in BOOLEAN
    /\ MaxCalls \in Nat
ASSUME PipelineAssumption

-----------------------------------------------------------------------------
Init ==
    /\ row = [r \in Records |-> [status |-> FirstStatus[TypeOf[r]],
                                 previous |-> "none", terminal |-> FALSE]]
    /\ report = [r \in Records |-> "none"]
    /\ pc = [h \in Handlers |-> "idle"]
    /\ call = [h \in Handlers |-> NoCall(NoRecord)]
    /\ result = [h \in Handlers |-> "none"]
    /\ board = [r \in Records |-> FirstStatus[TypeOf[r]]]
    /\ alerts = {}
    /\ jobs = [r \in Records |-> 0]
    /\ calls = 0
    /\ past = [r \in Records |-> {}]
    /\ unseen = {}

Return(h, res) ==
    /\ pc' = [pc EXCEPT ![h] = "idle"]
    /\ result' = [result EXCEPT ![h] = res]

Suspend(h, await) ==
    /\ pc' = [pc EXCEPT ![h] = await]
    /\ result' = [result EXCEPT ![h] = "none"]

(* What the text decides before the row is read: an auto-reply never       *)
(* advances, and a proposal request needs one of the keywords.             *)
TextAccepted(op, text) ==
    /\ op = "reply" => ~text.autoReply
    /\ op = "proposal" => text.proposalWord

Begin(h) ==
    /\ pc[h] = "idle"
    /\ calls < MaxCalls
    /\ calls' = calls + 1
    /\ \E op \in Ops, r \in Records \cup {NoRecord}, t \in ManualTargets, text \in Texts :
          /\ call' = [call EXCEPT ![h] =
                        [op |-> op, rec |-> r, target |-> Target(op, t), snap |-> NoRow]]
          /\ \/ TextAccepted(op, text) /\ Suspend(h, "read")
             \/ ~TextAccepted(op, text) /\ Return(h, "no_change")
    /\ UNCHANGED <<row, report, board, alerts, jobs, past, unseen>>

(* Mutant: a reply advances a record whatever its status. *)
ExpectedAnyReply(op, r) ==
    CASE op = "meeting"  -> row[r].status \in MEETING_ELIGIBLE_STATES
      [] op = "proposal" -> row[r].status = "Replied"
      [] OTHER           -> TRUE

(* The status an event expects before it advances a record; a manual       *)
(* transition and a validation failure expect nothing.                     *)
Expected(op, r) ==
    CASE op = "reply"    -> row[r].status = "Sent"
      [] op = "meeting"  -> row[r].status \in MEETING_ELIGIBLE_STATES
      [] op = "proposal" -> /\ row[r].status = "Replied"
                            /\ TypeOf[r] = "cold_outreach_team"
      [] OTHER           -> TRUE

(* Mutant: no operation looks at is_terminal. *)
ReadIgnoringTerminal(h) ==
    /\ pc[h] = "read"
    /\ call[h].rec \in Records
    /\ Expected(call[h].op, call[h].rec)
    /\ call' = [call EXCEPT ![h].snap = row[call[h].rec]]
    /\ Suspend(h, "gate")
    /\ UNCHANGED <<row, report, board, alerts, jobs, calls, past, unseen>>

(* _get_record and the early returns.  transition_to_validation_failed     *)
(* does not look at is_terminal.                                           *)
Read(h) ==
    /\ pc[h] = "read"
    /\ LET op == call[h].op
           r  == call[h].rec
       IN \/ /\ r \notin Records
             /\ Return(h, "invalid_state")
             /\ UNCHANGED call
          \/ /\ r \in Records
             /\ row[r].terminal /\ op # "validation_failed"
             /\ Return(h, "already_terminal")
             /\ UNCHANGED call
          \/ /\ r \in Records
             /\ ~row[r].terminal
             /\ ~Expected(op, r)
             /\ Return(h, "no_change")
             /\ UNCHANGED call
          \/ /\ r \in Records
             /\ ~row[r].terminal \/ op = "validation_failed"
             /\ Expected(op, r)
             /\ call' = [call EXCEPT ![h].snap = row[r]]
             /\ Suspend(h, "gate")
    /\ UNCHANGED <<row, report, board, alerts, jobs, calls, past, unseen>>

(* Mutant: a missing report counts as nothing to block. *)
CanTransitionUnverified(r, target) ==
    target \in GATED_STATES => report[r] # "grounding_blocked"

(* can_transition: a gated status needs a report, and one that is not      *)
(* blocked; an unverified report lets the record through.                  *)
CanTransition(r, target) ==
    target \in GATED_STATES => report[r] \notin {"none", "grounding_blocked"}

Gate(h) ==
    /\ pc[h] = "gate"
    /\ \/ /\ CanTransition(call[h].rec, call[h].target)
          /\ Suspend(h, "write")
       \/ /\ ~CanTransition(call[h].rec, call[h].target)
          /\ Return(h, "grounding_blocked")
    /\ UNCHANGED <<row, report, call, board, alerts, jobs, calls, past, unseen>>

(* Mutant: is_terminal is carried over instead of computed. *)
NewRowKeepsTerminal(h) ==
    [status   |-> call[h].target,
     previous |-> call[h].snap.status,
     terminal |-> call[h].snap.terminal]

(* update_pipeline_record: the row is overwritten whatever it holds now;   *)
(* previous_status is the status the call read.                            *)
NewRow(h) ==
    [status   |-> call[h].target,
     previous |-> call[h].snap.status,
     terminal |-> call[h].target \in TERMINAL_STATES]

(* Mutant: a write that fails is logged and the call goes on. *)
WriteSwallowed(h) ==
    /\ pc[h] = "write"
    /\ row' = row
    /\ Suspend(h, "publish")
    /\ UNCHANGED <<report, call, board, alerts, jobs, calls, past, unseen>>

(* Mutant: an optimistic write, which gives up when the row has changed    *)
(* since the read.                                                         *)
WriteIfUnchanged(h) ==
    /\ pc[h] = "write"
    /\ LET r == call[h].rec
           e == [op |-> call[h].op, status |-> call[h].target]
       IN \/ /\ row[r] = call[h].snap
             /\ row' = [row EXCEPT ![r] = NewRow(h)]
             /\ past' = [past EXCEPT ![r] = @ \cup {e}]
             /\ Suspend(h, "publish")
          \/ /\ row[r] # call[h].snap
             /\ Return(h, "no_change")
             /\ UNCHANGED <<row, past>>
    /\ UNCHANGED <<report, call, board, alerts, jobs, calls, unseen>>

Write(h) ==
    /\ pc[h] = "write"
    /\ row' = [row EXCEPT ![call[h].rec] = NewRow(h)]
    /\ past' = [past EXCEPT ![call[h].rec] =
                    @ \cup {[op |-> call[h].op, status |-> call[h].target]}]
    /\ Suspend(h, "publish")
    /\ UNCHANGED <<report, call, board, alerts, jobs, calls, unseen>>

(* Mutant: the dashboard shows the status in the message. *)
PublishStatus(h) ==
    /\ pc[h] = "publish"
    /\ board' = [board EXCEPT ![call[h].rec] = call[h].target]
    /\ unseen' = unseen \ {call[h].rec}
    /\ Suspend(h, "dispatch")
    /\ UNCHANGED <<row, report, call, alerts, jobs, calls, past>>

(* On a pipeline_update the dashboard loads the records again.  A publish  *)
(* that fails is logged and forgotten.                                     *)
Publish(h) ==
    /\ pc[h] = "publish"
    /\ \/ /\ board' = [board EXCEPT ![call[h].rec] = row[call[h].rec].status]
          /\ unseen' = unseen \ {call[h].rec}
       \/ /\ Faults
          /\ board' = board
          /\ unseen' = unseen \cup {call[h].rec}
    /\ Suspend(h, "dispatch")
    /\ UNCHANGED <<row, report, call, alerts, jobs, calls, past>>

(* _dispatch_state_entry_techniques, which swallows a failed enqueue.      *)
Dispatch(h) ==
    /\ pc[h] = "dispatch"
    /\ \/ /\ HasStateEntryTechnique(TypeOf[call[h].rec], call[h].target)
          /\ jobs' = [jobs EXCEPT ![call[h].rec] = @ + 1]
       \/ /\ HasStateEntryTechnique(TypeOf[call[h].rec], call[h].target) => Faults
          /\ jobs' = jobs
    /\ IF call[h].op = "validation_failed"
       THEN Suspend(h, "notify")
       ELSE Return(h, "advanced")
    /\ UNCHANGED <<row, report, call, board, alerts, calls, past, unseen>>

(* _broadcast_validation_failure, on the notifications channel. *)
Notify(h) ==
    /\ pc[h] = "notify"
    /\ \/ alerts' = alerts \cup {call[h].rec}
       \/ Faults /\ alerts' = alerts
    /\ Return(h, "advanced")
    /\ UNCHANGED <<row, report, call, board, jobs, calls, past, unseen>>

Step(h) == Read(h) \/ Gate(h) \/ Write(h) \/ Publish(h) \/ Dispatch(h) \/ Notify(h)

(* The repository raises out of a read, a gate query or a write, or the    *)
(* process running the call dies at any of its awaits.                     *)
Abort(h) ==
    /\ Faults
    /\ pc[h] # "idle"
    /\ Return(h, "aborted")
    /\ unseen' = IF pc[h] = "publish" THEN unseen \cup {call[h].rec} ELSE unseen
    /\ UNCHANGED <<row, report, call, board, alerts, jobs, calls, past>>

(* The grounding side: a verification inserts a newer report and a         *)
(* re-verification updates the latest one.  Reports are never deleted.     *)
ReportChanges(r) ==
    /\ \E s \in ReportStatus \ {report[r]} : report' = [report EXCEPT ![r] = s]
    /\ UNCHANGED <<row, pc, call, result, board, alerts, jobs, calls, past, unseen>>

Next ==
    \/ \E h \in Handlers : Begin(h) \/ Step(h) \/ Abort(h)
    \/ \E r \in Records : ReportChanges(r)

Spec == Init /\ [][Next]_vars

(* The event loop resumes a coroutine whose await has completed, and every *)
(* await of a call does complete or raise; new calls and new reports are   *)
(* never owed.                                                             *)
FairSpec == Spec /\ \A h \in Handlers : WF_vars(Step(h))

-----------------------------------------------------------------------------
(* Properties that hold however many calls interleave.                     *)

(* Every variable has its type. *)
TypeOK ==
    /\ row \in [Records -> Row]
    /\ report \in [Records -> ReportStatus \cup {"none"}]
    /\ pc \in [Handlers -> Awaits \cup {"idle"}]
    /\ call \in [Handlers -> Calls]
    /\ result \in [Handlers -> Results]
    /\ board \in [Records -> Status]
    /\ alerts \subseteq Records
    /\ jobs \in [Records -> Nat]
    /\ calls \in Nat
    /\ past \in [Records -> SUBSET [op : AllOps, status : Status]]
    /\ unseen \subseteq Records

HasBeen(r, s) == \E e \in past[r] : e.status = s
MovedBy(r, op) == \E e \in past[r] : e.op = op

(* A record has never been in a gated status without a grounding report to *)
(* its name: PipelineManager._transition asks can_transition first, and    *)
(* the answer cannot be undone by a later call overwriting the row.        *)
GatedHasReport ==
    \A r \in Records :
        (\E s \in GATED_STATES : HasBeen(r, s) \/ row[r].status = s)
            => report[r] # "none"

(* Events keep their order through any race of stale reads: a record only  *)
(* answers a reply after it was Sent, books a meeting after it was Sent or *)
(* Replied, and gets a proposal request (Team records only) after Replied. *)
(* These are the status checks of the advance_on_* operations.             *)
EventsFollowTheirCause ==
    \A r \in Records :
        /\ MovedBy(r, "reply") => HasBeen(r, "Sent")
        /\ MovedBy(r, "meeting") => \E s \in MEETING_ELIGIBLE_STATES : HasBeen(r, s)
        /\ MovedBy(r, "proposal") => /\ HasBeen(r, "Replied")
                                     /\ TypeOf[r] = "cold_outreach_team"

(* A caller told ADVANCED can rely on it: its own transition was committed *)
(* (which does not mean that it still stands).                             *)
AdvancedWasCommitted ==
    \A h \in Handlers :
        result[h] = "advanced" =>
            [op |-> call[h].op, status |-> call[h].target] \in past[call[h].rec]

(* An interview-prep job is queued only for a record that has entered      *)
(* Interview, a validation alert only for one that has been                *)
(* validation_failed.                                                      *)
QueuedAfterCommit ==
    \A r \in Records :
        /\ jobs[r] > 0 => HasBeen(r, "Interview")
        /\ r \in alerts => HasBeen(r, "validation_failed")

(* What leaves the database is never ahead of it, neither the answer to    *)
(* the caller nor what is queued and announced.  _transition persists      *)
(* before it does any of that, so a crash in between loses an effect and   *)
(* never invents one.                                                      *)
EffectsFollowCommit == AdvancedWasCommitted /\ QueuedAfterCommit

(* Requirement 8.4: the dashboard reflects every status change, in         *)
(* whatever order the calls write and publish.  It is behind the row only  *)
(* while some call still has its publish ahead of it, or when the last     *)
(* publish of the record failed or its process died; the next one repairs  *)
(* that, as the dashboard loads the rows.                                  *)
BoardShowsRow ==
    \A r \in Records :
        board[r] # row[r].status =>
            r \in unseen \/ \E h \in Handlers : pc[h] = "publish" /\ call[h].rec = r

(* The only ways out of a terminal status: a validation failure, which     *)
(* does not check is_terminal, and a call that read the row before it      *)
(* became terminal and overwrites it now.                                  *)
LeavesTerminal(r) == row[r].terminal /\ row'[r] # row[r]
TerminalLeftOnlyByStaleOrFailed ==
    [][\A r \in Records : LeavesTerminal(r) =>
          \E h \in Handlers : /\ pc[h] = "write"
                               /\ call[h].rec = r
                               /\ \/ call[h].op = "validation_failed"
                                  \/ ~call[h].snap.terminal]_vars

(* A call that found the record ready for its event gets the event into    *)
(* the row, unless it is aborted on the way or the gate refuses: no        *)
(* interleaving makes a transition disappear silently before its write.    *)
Ready(h, r) == pc[h] = "gate" /\ call[h].rec = r /\ call[h].target \notin GATED_STATES
TransitionReachesRow ==
    \A h \in Handlers, r \in Records :
        Ready(h, r) ~> (row[r].status = call[h].target \/ result[h] = "aborted")

(* The manager implements the atomic rules.  With one caller at a time the *)
(* checks that a call makes between its read and its write still hold at   *)
(* the write.  Among several callers a transition is allowed by the rules  *)
(* from a status that the record has had, and previous_status names it.    *)
Had == [r \in Records |-> {FirstStatus[TypeOf[r]]} \cup {e.status : e \in past[r]}]
Rules == INSTANCE PipelineRules
            WITH Overlap <- \E g, h \in Handlers : g # h, had <- Had
ImplementsRules == Rules!Spec

=============================================================================

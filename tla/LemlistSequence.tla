-------------------------- MODULE LemlistSequence --------------------------
(***************************************************************************)
(* One prospect in one sequence of LemlistEngine                           *)
(* (app/integrations/lemlist_engine.py): the enrollment, the touchpoints   *)
(* that auto_advance sends, and the responses that poll_responses fetches  *)
(* and process_events applies.                                             *)
(*                                                                         *)
(* The callers and the store are outside src/: a caller loads the          *)
(* enrollment and the sequence and runs one operation of the engine; the   *)
(* store keeps whole rows.  Operations run as tasks of one event loop, one *)
(* action per awaited call, each on the copy of the enrollment that it     *)
(* loaded.  Any of them may be cut short.  Poll has no cursor: every poll  *)
(* returns all activities.                                                 *)
(***************************************************************************)
EXTENDS Integers, Sequences, FiniteSets, SequencesExt

CONSTANTS
    EngineTasks,         \* operations that may be in progress at once
    Versions,            \* the sequence as callers may hold it: sets of step orders
    TestedStep,    \* the step that has variants
    Variants,      \* its variants
    MAX_FOLLOWUPS, \* 3
    RANDOM_SENDS,  \* 40, sends below which the assignment is random
    Kinds,         \* kinds of response: reply, unsubscribe, bounce, open, click
    MaxActivities, \* bound on the responses of the prospect
    MaxSends,      \* bound on the sends of a variant
    MaxSlips       \* bound on the slips

(* Every kind but a reply and an unsubscription changes a touchpoint.      *)
ASSUME SequenceAssumption ==
    /\ \A steps \in Versions : steps \subseteq Nat \ {0} /\ IsFiniteSet(steps)
    /\ MaxSlips \in Nat
    /\ MAX_FOLLOWUPS \in Nat
    /\ RANDOM_SENDS \in Nat
    /\ Kinds \subseteq {"reply", "unsubscribe", "bounce", "open", "click"}
    /\ "none" \notin Variants

VARIABLES
    enrollment, \* the stored enrollment
    touchpoint, \* status of the stored touchpoint of each step
    task,       \* locals of each operation in progress
    activities, \* what Lemlist answers to a poll
    reached,    \* history: deliveries of each step
    slips,      \* history: the times an operation has saved or sent with an
                \* outdated copy, or was cut short with its message out
    sends,      \* sends of each variant in the sequence that the callers hold,
                \* those to other prospects included
    promoted    \* the promoted variant, "none" if there is none

lemVars == <<enrollment, touchpoint, task, activities, reached, slips, sends, promoted>>

EnrollmentRow(status, step, count) == [status |-> status, step |-> step, count |-> count]
NotEnrolled == EnrollmentRow("absent", 1, 0)
NewEnrollment == EnrollmentRow("active", 1, 0)
NoTask == [op |-> "none", pc |-> "idle", copy |-> NotEnrolled, steps |-> {}, stale |-> FALSE,
           outcome |-> "none", events |-> <<>>]
SequenceSteps == UNION Versions

LemInit ==
    /\ enrollment = NotEnrolled
    /\ touchpoint = [s \in SequenceSteps |-> "none"]
    /\ task = [t \in EngineTasks |-> NoTask]
    /\ activities = <<>>
    /\ reached = [s \in SequenceSteps |-> 0]
    /\ slips = 0
    /\ sends = [v \in Variants |-> 0]
    /\ promoted = "none"

(* The enrollment has changed, or a message of its next step is out: the   *)
(* copies of the other operations are outdated.                            *)
Outdate(t, mine) ==
    [u \in EngineTasks |-> IF u = t THEN mine
                     ELSE IF task[u].pc = "idle" THEN task[u] ELSE [task[u] EXCEPT !.stale = TRUE]]

Slip(really) ==
    /\ really => slips < MaxSlips
    /\ slips' = IF really THEN slips + 1 ELSE slips

SaveRow(t, row, mine) ==
    /\ enrollment' = row
    /\ task' = Outdate(t, mine)
    /\ Slip(task[t].stale)

-----------------------------------------------------------------------------
\* enroll_prospects.

LookUp(t) ==
    /\ task[t].pc = "idle"
    /\ enrollment = NotEnrolled
    /\ task' = [task EXCEPT ![t] = [NoTask EXCEPT !.op = "enroll", !.pc = "save",
                                                  !.copy = NewEnrollment]]
    /\ UNCHANGED <<enrollment, touchpoint, activities, reached, slips, sends, promoted>>

SaveEnrollment(t) ==
    /\ task[t].op = "enroll" /\ task[t].pc = "save"
    /\ SaveRow(t, task[t].copy, NoTask)
    /\ UNCHANGED <<touchpoint, activities, reached, sends, promoted>>

-----------------------------------------------------------------------------
\* auto_advance.

(* MAX_FOLLOWUPS touchpoints, the first among them, or as many as there    *)
(* are steps are behind the enrollment.                                    *)
SequenceOver(copy, steps) == copy.count >= MAX_FOLLOWUPS \/ copy.step > Cardinality(steps)

(* Where an advance goes with this copy.  When its step is missing from    *)
(* the sequence, nowhere.                                                  *)
NextPc(copy, steps) ==
    IF copy.status = "active" /\ SequenceOver(copy, steps) THEN "complete"
    ELSE IF copy.status = "active" /\ copy.step \in steps THEN "post" ELSE "idle"

(* An advance has posted a step that the stored enrollment does not count. *)
MessageOut == \E u \in EngineTasks : task[u].op = "advance" /\ task[u].pc \in {"touch", "save"}

LoadEnrollment(t) ==
    /\ task[t].pc = "idle"
    /\ enrollment # NotEnrolled
    /\ \E steps \in Versions :
        /\ NextPc(enrollment, steps) # "idle"
        /\ task' = [task EXCEPT ![t] = [NoTask EXCEPT !.op = "advance", !.pc = NextPc(enrollment, steps),
                                                      !.copy = enrollment, !.steps = steps,
                                                      !.stale = MessageOut]]
    /\ UNCHANGED <<enrollment, touchpoint, activities, reached, slips, sends, promoted>>

CompleteSequence(t) ==
    /\ task[t].pc = "complete"
    /\ SaveRow(t, [task[t].copy EXCEPT !.status = "complete"], NoTask)
    /\ UNCHANGED <<touchpoint, activities, reached, sends, promoted>>

TotalSends == SumFunction(sends)

(* assign_variant_for_enrollment: the promoted one, any below the          *)
(* threshold, and then one of the least used.                              *)
Assignable ==
    IF promoted # "none" THEN {promoted}
    ELSE IF TotalSends >= RANDOM_SENDS THEN {v \in Variants : \A w \in Variants : sends[v] <= sends[w]}
    ELSE Variants

Assign(v) ==
    /\ sends[v] < MaxSends
    /\ sends' = [sends EXCEPT ![v] = @ + 1]

(* The tested step goes to another prospect of the sequence.               *)
AssignOther ==
    /\ \E v \in Assignable : Assign(v)
    /\ UNCHANGED <<enrollment, touchpoint, task, activities, reached, slips, promoted>>

(* The POST of a touchpoint: sent; reached and the answer lost; refused. *)
PostTouchpoint(t) ==
    LET step == task[t].copy.step IN
    /\ task[t].pc = "post"
    /\ \/ step # TestedStep /\ UNCHANGED sends
       \/ step = TestedStep /\ \E v \in Assignable : Assign(v)
    /\ \/ /\ reached' = [reached EXCEPT ![step] = @ + 1]
          /\ Slip(task[t].stale)
          /\ \E outcome \in {"sent", "failed"} :
                task' = Outdate(t, [task[t] EXCEPT !.pc = "touch", !.outcome = outcome])
       \/ /\ task' = [task EXCEPT ![t] = [@ EXCEPT !.pc = "touch", !.outcome = "failed"]]
          /\ UNCHANGED <<reached, slips>>
    /\ UNCHANGED <<enrollment, touchpoint, activities, promoted>>

(* save_touchpoint replaces the row of the step, whatever has come back.   *)
SaveTouchpoint(t) ==
    /\ task[t].pc = "touch"
    /\ touchpoint' = [touchpoint EXCEPT ![task[t].copy.step] = task[t].outcome]
    /\ task' = [task EXCEPT ![t] = [@ EXCEPT !.pc = "save"]]
    /\ UNCHANGED <<enrollment, activities, reached, slips, sends, promoted>>

(* Mutant: after a failure the same step is tried again, as if a lost      *)
(* answer meant that no message is out.                                    *)
SaveAdvanceRetries(t) ==
    LET copy == [task[t].copy EXCEPT !.step = @ + 1, !.count = @ + 1] IN
    /\ task[t].op = "advance" /\ task[t].pc = "save"
    /\ IF task[t].outcome = "sent" THEN SaveRow(t, copy, NoTask)
       ELSE SaveRow(t, task[t].copy, [task[t] EXCEPT !.pc = "post", !.outcome = "none"])
    /\ UNCHANGED <<touchpoint, activities, reached, sends, promoted>>

(* The copy, one step and one follow-up on, replaces the enrollment; after *)
(* a failure the advance goes on with it to the next step, if there is one.*)
SaveAdvance(t) ==
    LET copy == [task[t].copy EXCEPT !.step = @ + 1, !.count = @ + 1] IN
    /\ task[t].op = "advance" /\ task[t].pc = "save"
    /\ SaveRow(t, copy, IF task[t].outcome = "sent" THEN NoTask
                     ELSE IF NextPc(copy, task[t].steps) = "idle" THEN NoTask
                     ELSE [task[t] EXCEPT !.copy = copy, !.pc = NextPc(copy, task[t].steps), !.outcome = "none"])
    /\ UNCHANGED <<touchpoint, activities, reached, sends, promoted>>

PromoteVariant(v) ==
    /\ promoted' = v
    /\ UNCHANGED <<enrollment, touchpoint, task, activities, reached, slips, sends>>

-----------------------------------------------------------------------------
\* poll_responses and process_events.

(* The prospect answers a reached step.  An out-of-office answer is in   *)
(* the map of the events as a reply, before its own branch.                *)
Respond(kind, s) ==
    /\ Len(activities) < MaxActivities
    /\ reached[s] > 0
    /\ activities' = Append(activities, [kind |-> kind, step |-> s])
    /\ UNCHANGED <<enrollment, touchpoint, task, reached, slips, sends, promoted>>

Pauses == {"reply", "unsubscribe"}
ShownAs == [bounce |-> "bounced", open |-> "opened", click |-> "clicked"]

(* A poll that fails returns nothing, as one without activities does.      *)
Poll(t) ==
    /\ task[t].pc = "idle"
    /\ activities # <<>>
    /\ task' = [task EXCEPT ![t] = [NoTask EXCEPT !.op = "poll", !.pc = "event",
                                                  !.events = activities]]
    /\ UNCHANGED <<enrollment, touchpoint, activities, reached, slips, sends, promoted>>

NextEvent(t) ==
    IF Len(task[t].events) = 1 THEN NoTask
    ELSE [NoTask EXCEPT !.op = "poll", !.pc = "event", !.events = Tail(task[t].events)]

(* A reply or an unsubscription loads the enrollment to pause it if it is  *)
(* active; anything else looks for its touchpoint to mark it.              *)
ProcessEvent(t) ==
    LET event == Head(task[t].events) IN
    /\ task[t].pc = "event"
    /\ task' = [task EXCEPT ![t] =
            IF event.kind \in Pauses
            THEN IF enrollment.status = "active"
                 THEN [@ EXCEPT !.pc = "pause", !.copy = enrollment, !.stale = FALSE]
                 ELSE NextEvent(t)
            ELSE IF touchpoint[event.step] # "none" THEN [@ EXCEPT !.pc = "mark"] ELSE NextEvent(t)]
    /\ UNCHANGED <<enrollment, touchpoint, activities, reached, slips, sends, promoted>>

(* Whatever its status is by now, the touchpoint gets that of the event.   *)
MarkTouchpoint(t) ==
    LET event == Head(task[t].events) IN
    /\ task[t].pc = "mark"
    /\ touchpoint' = [touchpoint EXCEPT ![event.step] = ShownAs[event.kind]]
    /\ task' = [task EXCEPT ![t] = NextEvent(t)]
    /\ UNCHANGED <<enrollment, activities, reached, slips, sends, promoted>>

(* The paused copy replaces the enrollment; the pending touchpoints are    *)
(* set to pending, and a failure of the pause in Lemlist is only logged.   *)
PauseProspect(t) ==
    /\ task[t].pc = "pause"
    /\ SaveRow(t, [task[t].copy EXCEPT !.status = "paused"], NextEvent(t))
    /\ UNCHANGED <<touchpoint, activities, reached, sends, promoted>>

(* The operation is cut short; a message that is out is in no row.         *)
CutShort(t) ==
    /\ task[t].pc # "idle"
    /\ task' = [task EXCEPT ![t] = NoTask]
    /\ Slip(task[t].op = "advance" /\ task[t].pc \in {"touch", "save"})
    /\ UNCHANGED <<enrollment, touchpoint, activities, reached, sends, promoted>>

LemNext ==
    \/ \E t \in EngineTasks : \/ LookUp(t) \/ SaveEnrollment(t) \/ LoadEnrollment(t) \/ CompleteSequence(t) \/ PostTouchpoint(t)
                        \/ SaveTouchpoint(t) \/ SaveAdvance(t) \/ Poll(t) \/ ProcessEvent(t) \/ MarkTouchpoint(t)
                        \/ PauseProspect(t) \/ CutShort(t)
    \/ \E s \in SequenceSteps, kind \in Kinds : Respond(kind, s)
    \/ AssignOther
    \/ \E v \in Variants : PromoteVariant(v)

LemSpec == LemInit /\ [][LemNext]_lemVars

-----------------------------------------------------------------------------
\* Properties.

(* The rows and the locals keep their types.                               *)
LemTypeOK ==
    /\ enrollment.status \in {"absent", "active", "paused", "complete"}
    /\ enrollment.count \in 0..MAX_FOLLOWUPS
    /\ enrollment.step = enrollment.count + 1
    /\ \A s \in SequenceSteps : touchpoint[s] \in {"none", "sent", "failed"} \cup Range(ShownAs)
    /\ \A t \in EngineTasks : task[t].pc \in {"idle", "save", "post", "touch", "complete", "event", "mark", "pause"}
    /\ promoted \in Variants \cup {"none"}

(* A step reaches the prospect once, answers that were lost included, and  *)
(* once more at most for each slip, of whatever step: what an operation    *)
(* with an outdated copy spoils is bounded by how often that happens.      *)
StepDeliveredOnce == \A s \in SequenceSteps : reached[s] <= 1 + slips

(* A prospect that was paused for a reply stays paused and gets no further *)
(* message by any step that is not itself a slip, also after slips: only   *)
(* an advance that had loaded the enrollment before goes on.               *)
PauseHolds ==
    enrollment.status = "paused" /\ slips' = slips =>
        enrollment'.status = "paused" /\ reached' = reached

(* Beyond the threshold, and without a promotion, no assignment lets the   *)
(* variants drift further apart.                                           *)
VariantsDrawLevel ==
    TotalSends >= RANDOM_SENDS /\ promoted = "none" =>
        \A v, w \in Variants : sends'[v] - sends'[w] <= 1 \/ sends'[v] - sends'[w] <= sends[v] - sends[w]

(* A sequence delivers its steps once and no further than a reply allows,  *)
(* except by what goes on with an outdated enrollment, each time once.     *)
SequenceSafety ==
    /\ [](LemTypeOK /\ StepDeliveredOnce)
    /\ [][PauseHolds /\ VariantsDrawLevel]_lemVars
=============================================================================

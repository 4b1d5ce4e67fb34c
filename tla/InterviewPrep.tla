--------------------------- MODULE InterviewPrep ---------------------------
(***************************************************************************)
(* The interview preparation packs of one pipeline record: the two ARQ     *)
(* tasks of app/workers/interview_prep_worker.py, InterviewPrepService     *)
(* that they run (app/core/interview_prep_service.py) and the tables       *)
(* interview_prep_packs and interview_prep_history that                    *)
(* InterviewPrepRepository keeps.                                          *)
(*                                                                         *)
(* Every await of a task is one action; the worker runs up to ten tasks    *)
(* beside one another.  Packs are numbered in the order of created_at.     *)
(* Of a pack's text only this is kept: the talking points with an          *)
(* ungrounded claim, as the verifier last judged the text.                 *)
(***************************************************************************)
EXTENDS Naturals

CONSTANTS
    Jobs,               \* tasks that are enqueued for the record
    Points,             \* STAR talking points of a pack
    MAX_RETRIES,        \* retries of the generation call
    GENERATION_TIMEOUT, \* seconds for one model call
    TOTAL_DEADLINE,     \* seconds for a task
    Faults,             \* whether tasks fail unexpectedly, run late or die
    MaxTries,           \* bound on the runs of one task
    MaxPacks            \* bound on the packs of the record

VARIABLES
    packs,     \* interview_prep_packs, by number
    history,   \* packs with a row in interview_prep_history
    created,   \* packs numbered so far
    events,    \* WebSocket events published
    pc,        \* the await each task is suspended at
    job,       \* arguments and locals of each task
    tries,     \* runs of each task
    result     \* what each task returned

vars == <<packs, history, created, events, pc, job, tries, result>>

PackIds == 1 .. MaxPacks

Delivered == {"ready", "ready_with_flags"}
PackStatus == {"generating", "grounding", "failed"} \cup Delivered
Kinds == {"process_interview_prep", "regenerate_interview_prep"}

(* A row: its status, the pack that supersedes it or 0, the points that    *)
(* grounding_flags names, those that are ungrounded, and whether the       *)
(* verifier could judge the text.                                          *)
Row == [status : PackStatus, superseded_by : PackIds \cup {0},
        flags : SUBSET Points, ungrounded : SUBSET Points, verified : BOOLEAN]
NoRow == [status |-> "none", superseded_by |-> 0,
          flags |-> {}, ungrounded |-> {}, verified |-> FALSE]

Awaits == {"get_pack", "assemble", "save", "generate", "mark_grounding", "verify",
           "regenerate", "reverify", "save_final", "publish", "supersede", "history",
           "mark_failed", "publish_failed"}

Task == [kind : Kinds, existing : PackIds \cup {0}, pack : PackIds \cup {0},
         attempt : Nat, timeouts : Nat, flagged : SUBSET Points, flags : SUBSET Points,
         ungrounded : SUBSET Points, verified : BOOLEAN]
NewTask(kind) ==
    [kind |-> kind, existing |-> 0, pack |-> 0, attempt |-> 0, timeouts |-> 0,
     flagged |-> {}, flags |-> {}, ungrounded |-> {}, verified |-> TRUE]

InterviewPrepAssumption ==
    /\ MAX_RETRIES \in Nat
    /\ GENERATION_TIMEOUT \in Nat /\ TOTAL_DEADLINE \in Nat
    /\ Faults \in BOOLEAN
    /\ MaxTries \in Nat \ {0} /\ MaxPacks \in Nat
ASSUME InterviewPrepAssumption

Init ==
    /\ packs = [n \in PackIds |-> NoRow]
    /\ history = {}
    /\ created = 0
    /\ events = {}
    /\ pc = [j \in Jobs |-> "absent"]
    /\ job = [j \in Jobs |-> NewTask("process_interview_prep")]
    /\ tries = [j \in Jobs |-> 0]
    /\ result = [j \in Jobs |-> "none"]

-----------------------------------------------------------------------------
Saved == {n \in PackIds : packs[n] # NoRow}
Live == {n \in Saved : packs[n].superseded_by = 0}

(* get_pack: the latest pack that is not superseded. *)
IsShown(n) == n \in Live /\ \A m \in Live : m <= n

Goto(j, await) == pc' = [pc EXCEPT ![j] = await]
Return(j, res) ==
    /\ pc' = [pc EXCEPT ![j] = "done"]
    /\ result' = [result EXCEPT ![j] = res]

(* The pipeline enters Interview, or the user asks for another pack. *)
Enqueue(j) ==
    /\ pc[j] = "absent"
    /\ \E kind \in Kinds : job' = [job EXCEPT ![j] = NewTask(kind)]
    /\ Goto(j, "queued")
    /\ UNCHANGED <<packs, history, created, events, tries, result>>

Start(j) ==
    /\ pc[j] = "queued"
    /\ tries' = [tries EXCEPT ![j] = @ + 1]
    /\ Goto(j, IF job[j].kind = "regenerate_interview_prep" THEN "get_pack" ELSE "assemble")
    /\ UNCHANGED <<packs, history, created, events, job, result>>

(* regenerate_pack looks up the pack it will supersede before the new one  *)
(* is generated.                                                           *)
GetPack(j) ==
    /\ pc[j] = "get_pack"
    /\ \/ /\ Live = {}
          /\ UNCHANGED job
       \/ \E n \in Live : IsShown(n) /\ job' = [job EXCEPT ![j].existing = n]
    /\ Goto(j, "assemble")
    /\ UNCHANGED <<packs, history, created, events, tries, result>>

(* assemble_context only reads; without a description, an enrichment       *)
(* record or profile assets it raises before there is a row.               *)
Assemble(j) ==
    /\ pc[j] = "assemble"
    /\ \/ /\ created < MaxPacks
          /\ created' = created + 1
          /\ job' = [job EXCEPT ![j].pack = created + 1]
          /\ Goto(j, "save")
          /\ UNCHANGED result
       \/ /\ Return(j, "failed")
          /\ UNCHANGED <<created, job>>
    /\ UNCHANGED <<packs, history, events, tries>>

(* Mutant: the old pack is superseded before the new one is generated. *)
SaveSuperseding(j) ==
    /\ pc[j] = "save"
    /\ packs' = [n \in PackIds |->
                   IF n = job[j].pack THEN [NoRow EXCEPT !.status = "generating"]
                   ELSE IF n = job[j].existing
                   THEN [packs[n] EXCEPT !.superseded_by = job[j].pack] ELSE packs[n]]
    /\ Goto(j, "generate")
    /\ UNCHANGED <<history, created, events, job, tries, result>>

Save(j) ==
    /\ pc[j] = "save"
    /\ packs' = [packs EXCEPT ![job[j].pack] = [NoRow EXCEPT !.status = "generating"]]
    /\ Goto(j, "generate")
    /\ UNCHANGED <<history, created, events, job, tries, result>>

(* A model call that is cut after GENERATION_TIMEOUT seconds, if the task  *)
(* is not cut before that.                                                 *)
TimeLeft(j) == (job[j].timeouts + 1) * GENERATION_TIMEOUT < TOTAL_DEADLINE

(* Mutant: a pack that cannot be used is dropped without a mark. *)
GenerateUnmarked(j) ==
    /\ pc[j] = "generate"
    /\ \/ Goto(j, "mark_grounding")
       \/ Goto(j, "publish_failed")
    /\ UNCHANGED <<packs, history, created, events, job, tries, result>>

(* _generate_via_llm: an error or a timeout is retried, an answer that is  *)
(* not a valid pack is not.                                                *)
Generate(j) ==
    /\ pc[j] = "generate"
    /\ \/ /\ Goto(j, "mark_grounding")
          /\ UNCHANGED job
       \/ \E late \in {0, 1} :
             /\ late = 1 => TimeLeft(j)
             /\ job' = [job EXCEPT ![j].attempt = @ + 1, ![j].timeouts = @ + late]
             /\ \/ job[j].attempt < MAX_RETRIES /\ UNCHANGED pc
                \/ job[j].attempt = MAX_RETRIES /\ Goto(j, "mark_failed")
       \/ /\ Goto(j, "mark_failed")
          /\ UNCHANGED job
    /\ UNCHANGED <<packs, history, created, events, tries, result>>

SetStatus(j, status) == packs' = [packs EXCEPT ![job[j].pack].status = status]

(* Mutant: a status that the table does not know. *)
MarkGroundingMisspelled(j) ==
    /\ pc[j] = "mark_grounding"
    /\ SetStatus(j, "grounded")
    /\ Goto(j, "verify")
    /\ UNCHANGED <<history, created, events, job, tries, result>>

MarkGrounding(j) ==
    /\ pc[j] = "mark_grounding"
    /\ SetStatus(j, "grounding")
    /\ Goto(j, "verify")
    /\ UNCHANGED <<history, created, events, job, tries, result>>

(* _ground_talking_points, first verification.  When no claims could be    *)
(* extracted there is nothing to flag.  An ungrounded claim is mapped to a *)
(* point by looking for its text there, which may fail to find it; only    *)
(* when no claim is found are all points regenerated.                      *)
Verify(j) ==
    /\ pc[j] = "verify"
    /\ \/ /\ job' = [job EXCEPT ![j].verified = FALSE]
          /\ Goto(j, "save_final")
       \/ /\ UNCHANGED job
          /\ Goto(j, "save_final")
       \/ \E bad \in (SUBSET Points) \ {{}} : \E found \in SUBSET bad :
             /\ job' = [job EXCEPT ![j].ungrounded = bad,
                                   ![j].flagged = IF found = {} THEN Points ELSE found]
             /\ Goto(j, "regenerate")
    /\ UNCHANGED <<packs, history, created, events, tries, result>>

(* The single regeneration.  Should it fail, the original points stay and  *)
(* their claims are flagged.                                               *)
FlagOriginal(j) ==
    /\ job' = [job EXCEPT ![j].flags = job[j].ungrounded]
    /\ Goto(j, "save_final")

Regenerate(j) ==
    /\ pc[j] = "regenerate"
    /\ \/ Goto(j, "reverify") /\ UNCHANGED job
       \/ FlagOriginal(j)
    /\ UNCHANGED <<packs, history, created, events, tries, result>>

(* Mutant: the points that were regenerated are flagged, not those that    *)
(* are still ungrounded.                                                   *)
ReverifyStaleFlags(j) ==
    /\ pc[j] = "reverify"
    /\ \E bad \in SUBSET job[j].flagged :
          job' = [job EXCEPT ![j].ungrounded = (@ \ job[j].flagged) \cup bad,
                             ![j].flags = job[j].flagged]
    /\ Goto(j, "save_final")
    /\ UNCHANGED <<packs, history, created, events, tries, result>>

(* Mutant: the points are regenerated until none is flagged. *)
ReverifyAgain(j) ==
    /\ pc[j] = "reverify"
    /\ Goto(j, IF job[j].verified THEN "regenerate" ELSE "save_final")
    /\ UNCHANGED <<packs, history, created, events, job, tries, result>>

(* Only the regenerated points are verified again, and their claims are    *)
(* the remaining flags.                                                    *)
Reverify(j) ==
    /\ pc[j] = "reverify"
    /\ LET kept == job[j].ungrounded \ job[j].flagged
       IN \/ \E bad \in SUBSET job[j].flagged :
                /\ job' = [job EXCEPT ![j].ungrounded = kept \cup bad, ![j].flags = bad]
                /\ Goto(j, "save_final")
          \/ /\ job' = [job EXCEPT ![j].ungrounded = kept, ![j].verified = FALSE]
             /\ Goto(j, "save_final")
          \/ FlagOriginal(j)
    /\ UNCHANGED <<packs, history, created, events, tries, result>>

FinalStatus(j) == IF job[j].flags = {} THEN "ready" ELSE "ready_with_flags"

(* save_pack again: the upsert leaves superseded_by alone. *)
SaveFinal(j) ==
    /\ pc[j] = "save_final"
    /\ packs' = [packs EXCEPT ![job[j].pack] =
                   [@ EXCEPT !.status = FinalStatus(j), !.flags = job[j].flags,
                             !.ungrounded = job[j].ungrounded, !.verified = job[j].verified]]
    /\ Goto(j, "publish")
    /\ UNCHANGED <<history, created, events, job, tries, result>>

Publish(j) ==
    /\ pc[j] = "publish"
    /\ events' = events \cup {<<"pack_ready", job[j].pack>>}
    /\ \/ /\ job[j].kind = "process_interview_prep"
          /\ Return(j, FinalStatus(j))
       \/ /\ job[j].kind = "regenerate_interview_prep"
          /\ Goto(j, IF job[j].existing = 0 THEN "history" ELSE "supersede")
          /\ UNCHANGED result
    /\ UNCHANGED <<packs, history, created, job, tries>>

(* Mutant: the two packs are swapped in supersede_pack. *)
SupersedeSwapped(j) ==
    /\ pc[j] = "supersede"
    /\ packs' = [packs EXCEPT ![job[j].pack].superseded_by = job[j].existing]
    /\ Goto(j, "history")
    /\ UNCHANGED <<history, created, events, job, tries, result>>

Supersede(j) ==
    /\ pc[j] = "supersede"
    /\ packs' = [packs EXCEPT ![job[j].existing].superseded_by = job[j].pack]
    /\ Goto(j, "history")
    /\ UNCHANGED <<history, created, events, job, tries, result>>

SaveHistory(j) ==
    /\ pc[j] = "history"
    /\ history' = history \cup {job[j].pack}
    /\ Return(j, FinalStatus(j))
    /\ UNCHANGED <<packs, created, events, job, tries>>

MarkFailed(j) ==
    /\ pc[j] = "mark_failed"
    /\ SetStatus(j, "failed")
    /\ Goto(j, "publish_failed")
    /\ UNCHANGED <<history, created, events, job, tries, result>>

PublishFailed(j) ==
    /\ pc[j] = "publish_failed"
    /\ events' = events \cup {<<"pack_failed", job[j].pack>>}
    /\ Return(j, "failed")
    /\ UNCHANGED <<packs, history, created, job, tries>>

(* The deadline of the task cancels it, or an exception that the service   *)
(* does not expect ends it; the worker answers "failed" and nothing is     *)
(* written.  The two checks of generate_pack that raise DeadlineExceeded-  *)
(* Error, and the handler that then marks the pack and publishes nothing,  *)
(* have no branch: their clock starts later than the worker's timer, which *)
(* fires first unless somebody sets the clock forward.                     *)
Abandon(j) ==
    /\ Faults
    /\ pc[j] \in Awaits
    /\ Return(j, "failed")
    /\ UNCHANGED <<packs, history, created, events, job, tries>>

(* The worker dies: ARQ runs the task again, from the start. *)
Die(j) ==
    /\ Faults
    /\ pc[j] \in Awaits
    /\ tries[j] < MaxTries
    /\ job' = [job EXCEPT ![j] = NewTask(@.kind)]
    /\ Goto(j, "queued")
    /\ UNCHANGED <<packs, history, created, events, tries, result>>

Step(j) ==
    \/ Start(j) \/ GetPack(j) \/ Assemble(j) \/ Save(j) \/ Generate(j)
    \/ MarkGrounding(j) \/ Verify(j) \/ Regenerate(j) \/ Reverify(j) \/ SaveFinal(j)
    \/ Publish(j) \/ Supersede(j) \/ SaveHistory(j) \/ MarkFailed(j) \/ PublishFailed(j)

Next == \E j \in Jobs : Enqueue(j) \/ Step(j) \/ Abandon(j) \/ Die(j)

Spec == Init /\ [][Next]_vars

(* Every await of a task ends, if need be by its timeout or the deadline   *)
(* of the task, and ARQ runs what is queued.                               *)
Fairness == \A j \in Jobs : WF_vars(Step(j) \/ Abandon(j))
FairSpec == Spec /\ Fairness

-----------------------------------------------------------------------------
(* Every variable has its type. *)
TypeOK ==
    /\ packs \in [PackIds -> Row \cup {NoRow}]
    /\ history \subseteq PackIds
    /\ created \in 0 .. MaxPacks
    /\ events \subseteq {"pack_ready", "pack_failed"} \X PackIds
    /\ pc \in [Jobs -> Awaits \cup {"absent", "queued", "done"}]
    /\ job \in [Jobs -> Task]
    /\ tries \in [Jobs -> 0 .. MaxTries]
    /\ result \in [Jobs -> Delivered \cup {"failed", "none"}]

(* A pack gives way only to a later pack that was delivered (regenerate_   *)
(* pack: "the new pack replaces the existing pack").                       *)
SupersededByDelivered ==
    \A n \in Saved :
        LET m == packs[n].superseded_by
        IN m # 0 => m > n /\ m \in Saved /\ packs[m].status \in Delivered

(* Whatever fails, dies or runs beside it, a delivered pack stays in the   *)
(* record's current packs until a later one has been delivered.            *)
DeliveredIsKept ==
    \A n \in Saved : packs[n].status \in Delivered =>
        \E m \in Live : m >= n /\ packs[m].status \in Delivered

(* Regeneration replaces packs and loses none.                             *)
PacksAreKept == SupersededByDelivered /\ DeliveredIsKept

(* Once a task has reported a pack, the record never shows an older one:   *)
(* the lookup of the pack to supersede may be long out of date by then.    *)
ReportedIsShown ==
    \A j \in Jobs : result[j] \in Delivered =>
        \E n \in PackIds : IsShown(n) /\ n >= job[j].pack

(* A pack that was announced can be opened: pack_ready follows the row     *)
(* that holds the pack, and pack_failed the row that says so.              *)
EventsFollowRows ==
    \A n \in PackIds :
        /\ <<"pack_ready", n>> \in events => packs[n].status \in Delivered
        /\ <<"pack_failed", n>> \in events => packs[n].status = "failed"

(* Every task that was enqueued is answered in the end, however often its  *)
(* model calls fail, late or not, and its worker dies.                     *)
TaskIsAnswered == \A j \in Jobs : pc[j] = "queued" ~> result[j] # "none"

(* A flag is never left over: whatever path regeneration took, a delivered *)
(* pack flags only points that were ungrounded when they were last judged, *)
(* and none once a verification could not judge them.  (The converse does  *)
(* not hold: only regenerated points are judged again, and an ungrounded   *)
(* claim outside them is dropped.)                                         *)
FlagsAreJudged ==
    \A n \in Saved : packs[n].status \in Delivered =>
        /\ packs[n].flags \subseteq packs[n].ungrounded
        /\ packs[n].flags # {} => packs[n].verified

-----------------------------------------------------------------------------
(* What the repository states and the code does not do.                    *)

(* design.md:859: when the overall deadline is exceeded the pack is marked *)
(* failed and surfaced; so no pack stays in progress without a task.       *)
NoPackLeftPending ==
    \A n \in Saved : packs[n].status \in {"generating", "grounding"} =>
        \E j \in Jobs : job[j].pack = n /\ pc[j] \notin {"absent", "done"}

=============================================================================

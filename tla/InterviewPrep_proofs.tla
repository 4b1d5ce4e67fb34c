------------------------ MODULE InterviewPrep_proofs ------------------------
(***************************************************************************)
(* Proofs about InterviewPrep.  The invariant says which task may write    *)
(* which row: a number belongs to one run of one task, a row that was      *)
(* delivered or failed is written no more except to be superseded, and     *)
(* only a task whose own pack has been delivered supersedes another.       *)
(***************************************************************************)
EXTENDS InterviewPrep, WellFoundedInduction, TLAPS

Pending == {"generate", "mark_grounding", "verify", "regenerate", "reverify",
            "save_final", "mark_failed"}
Finishing == {"publish", "supersede", "history"}
Writing == {"save", "publish_failed"} \cup Pending \cup Finishing

(* A task that has a number has it to itself. *)
Numbered(j) ==
    /\ pc[j] \in Writing => job[j].pack \in PackIds
    /\ pc[j] \in {"absent", "queued", "get_pack", "assemble"} => job[j].pack = 0
    /\ job[j].pack <= created
    /\ \A k \in Jobs : (job[k].pack = job[j].pack /\ job[j].pack # 0) => k = j

(* The row of a task is what the task's progress says. *)
OwnRow(j) ==
    /\ pc[j] = "save" => packs[job[j].pack] = NoRow
    /\ pc[j] \in Pending => packs[job[j].pack].status \in {"generating", "grounding"}
    /\ pc[j] \in Finishing => packs[job[j].pack].status \in Delivered
    /\ pc[j] = "publish_failed" => packs[job[j].pack].status = "failed"

(* What a task has reported and what it will supersede. *)
Answered(j) ==
    result[j] \in Delivered =>
        /\ pc[j] = "done"
        /\ job[j].pack \in PackIds
        /\ packs[job[j].pack].status \in Delivered

Replaces(j) ==
    /\ job[j].existing # 0 => job[j].existing \in Saved
    /\ (job[j].existing # 0 /\ job[j].pack # 0) => job[j].existing < job[j].pack
    /\ pc[j] = "supersede" => job[j].existing # 0

RunsLeft(j) == pc[j] \in {"absent", "queued"} => tries[j] < MaxTries

TaskInv(j) == Numbered(j) /\ OwnRow(j) /\ Answered(j) /\ Replaces(j) /\ RunsLeft(j)
TasksInv == \A j \in Jobs : TaskInv(j)

Unused == \A n \in PackIds : n > created => packs[n] = NoRow

IInv == TypeOK /\ TasksInv /\ Unused /\ SupersededByDelivered /\ EventsFollowRows

-----------------------------------------------------------------------------
(* A nonempty set of numbers up to N has a largest element. *)
LEMMA Maximum ==
    ASSUME NEW N \in Nat, NEW S \in SUBSET (1 .. N), S # {}
    PROVE  \E m \in S : \A n \in S : n <= m
<1> DEFINE T == {k \in Nat : \E n \in S : k = N - n}
           R == {ss \in Nat \X Nat : ss[1] < ss[2]}
<1>1. IsWellFoundedOn(R, Nat)
  BY NatLessThanWellFounded DEF OpToRel
<1>2. \A n \in S : n \in Nat /\ N - n \in T
  OBVIOUS
<1>3. T \subseteq Nat /\ T # {}
  BY <1>2
<1>4. PICK k \in T : \A l \in T : ~ (<<l, k>> \in R)
  BY <1>1, <1>3, WFMin
<1>5. ASSUME NEW l \in T PROVE k <= l
  <2>1. ~ (<<l, k>> \in R) /\ <<l, k>> \in Nat \X Nat
    BY <1>4
  <2>2. ~ (l < k)
    BY <2>1
  <2>3. QED
    BY <2>2
<1>6. PICK m \in S : k = N - m
  OBVIOUS
<1>7. ASSUME NEW n \in S PROVE n <= m
  BY <1>2, <1>5, <1>6
<1>8. QED
  BY <1>7

(* A pack that was delivered and superseded is outlived by its last        *)
(* successor.                                                              *)
LEMMA LastDelivered ==
    ASSUME TypeOK, SupersededByDelivered,
           NEW n \in Saved, packs[n].status \in Delivered
    PROVE  \E m \in Live : m >= n /\ packs[m].status \in Delivered
<1> DEFINE S == {m \in Saved : m >= n /\ packs[m].status \in Delivered}
<1>1. MaxPacks \in Nat /\ S \in SUBSET (1 .. MaxPacks) /\ n \in S
  BY InterviewPrepAssumption DEF InterviewPrepAssumption, Saved, PackIds
<1>2. PICK m \in S : \A q \in S : q <= m
  BY <1>1, Maximum
<1>3. packs[m].superseded_by = 0
  <2> SUFFICES ASSUME packs[m].superseded_by # 0 PROVE FALSE
    OBVIOUS
  <2> DEFINE q == packs[m].superseded_by
  <2>1. q > m /\ q \in Saved /\ packs[q].status \in Delivered
    BY DEF SupersededByDelivered
  <2>2. q \in S /\ q \in Nat /\ m \in Nat /\ n \in Nat
    BY <1>1, <2>1 DEF Saved, PackIds
  <2>3. QED
    BY <1>2, <2>1, <2>2
<1>4. QED
  BY <1>3 DEF Live

(* While there are current packs, the latest of them is shown. *)
LEMMA SomePackShown ==
    ASSUME NEW m \in Live
    PROVE  \E n \in PackIds : IsShown(n) /\ n >= m
<1>1. MaxPacks \in Nat /\ Live \in SUBSET (1 .. MaxPacks)
  BY InterviewPrepAssumption DEF InterviewPrepAssumption, Live, Saved, PackIds
<1>2. PICK n \in Live : \A q \in Live : q <= n
  BY <1>1, Maximum
<1>3. n \in PackIds /\ n >= m /\ IsShown(n)
  BY <1>1, <1>2 DEF IsShown, PackIds
<1>4. QED
  BY <1>3

-----------------------------------------------------------------------------

(* No task has begun and no pack exists.                                   *)
LEMMA InitInv == Init => IInv
<1> SUFFICES ASSUME Init PROVE IInv
  OBVIOUS
<1>1. TypeOK
  BY InterviewPrepAssumption
     DEF Init, TypeOK, InterviewPrepAssumption, Task, NewTask, Kinds
<1>2. Saved = {}
  BY DEF Init, Saved
<1>3. ASSUME NEW j \in Jobs
      PROVE  TaskInv(j)
  <2>1. /\ pc[j] = "absent" /\ result[j] = "none" /\ tries[j] = 0 /\ created = 0
        /\ job[j].pack = 0 /\ job[j].existing = 0
        /\ \A k \in Jobs : job[k].pack = 0
    BY DEF Init, NewTask
  <2>2. Numbered(j)
    BY <2>1 DEF Numbered, Writing, Pending, Finishing
  <2>3. OwnRow(j) /\ Answered(j)
    BY <2>1 DEF OwnRow, Answered, Pending, Finishing, Delivered
  <2>4. Replaces(j) /\ RunsLeft(j)
    BY <2>1, InterviewPrepAssumption DEF Replaces, RunsLeft, InterviewPrepAssumption
  <2>5. QED
    BY <2>2, <2>3, <2>4 DEF TaskInv
<1>4. QED
  BY <1>1, <1>2, <1>3
     DEF Init, IInv, TasksInv, Unused, SupersededByDelivered, EventsFollowRows


(* A row and a task keep their type when they are given a judgement. *)
LEMMA Judgements ==
    ASSUME NEW a \in SUBSET Points, NEW b \in SUBSET Points, NEW v \in BOOLEAN
    PROVE  /\ \A r \in Task : [r EXCEPT !.ungrounded = a, !.flags = b] \in Task
           /\ \A r \in Task : [r EXCEPT !.ungrounded = a, !.flagged = b] \in Task
           /\ \A r \in Task : [r EXCEPT !.ungrounded = a, !.verified = v] \in Task
           /\ \A r \in Row, s \in PackStatus :
                 [r EXCEPT !.status = s, !.flags = b, !.ungrounded = a, !.verified = v] \in Row
<1>1. \A r \in Task : [r EXCEPT !.ungrounded = a, !.flags = b] \in Task
  BY DEF Task
<1>2. /\ \A r \in Task : [r EXCEPT !.ungrounded = a, !.flagged = b] \in Task
      /\ \A r \in Task : [r EXCEPT !.ungrounded = a, !.verified = v] \in Task
  BY DEF Task
<1>3. \A r \in Row, s \in PackStatus :
          [r EXCEPT !.status = s, !.flags = b, !.ungrounded = a, !.verified = v] \in Row
  BY DEF Row
<1>4. QED
  BY <1>1, <1>2, <1>3

(* Every step keeps the types. *)
LEMMA TypeStep == IInv /\ [Next]_vars => TypeOK'
<1> SUFFICES ASSUME IInv, [Next]_vars PROVE TypeOK'
  OBVIOUS
<1>0. TypeOK
  BY DEF IInv
<1> USE DEF TypeOK
<1>1. ASSUME NEW j \in Jobs, Enqueue(j) PROVE TypeOK'
  <2>1. \A kind \in Kinds : NewTask(kind) \in Task
    BY DEF NewTask, Task
  <2>2. QED
    BY <1>0, <1>1, <2>1 DEF Enqueue, Goto
<1>2. ASSUME NEW j \in Jobs, Start(j) PROVE TypeOK'
  <2>1. tries[j] + 1 \in 0 .. MaxTries
    BY <1>0, <1>2, InterviewPrepAssumption
       DEF IInv, TasksInv, TaskInv, RunsLeft, Start, InterviewPrepAssumption
  <2>2. QED
    BY <1>0, <1>2, <2>1 DEF Start, Goto, Awaits
<1>3. ASSUME NEW j \in Jobs, GetPack(j) PROVE TypeOK'
  <2>1. job' \in [Jobs -> Task]
    BY <1>0, <1>3 DEF GetPack, Task, Live, Saved
  <2>2. QED
    BY <1>0, <1>3, <2>1 DEF GetPack, Goto, Awaits
<1>4. ASSUME NEW j \in Jobs, Assemble(j) PROVE TypeOK'
  <2>1. CASE created < MaxPacks
    <3>1. created + 1 \in PackIds /\ created + 1 \in 0 .. MaxPacks
      BY <1>0, <2>1, InterviewPrepAssumption DEF PackIds, InterviewPrepAssumption
    <3>2. [job[j] EXCEPT !.pack = created + 1] \in Task
      BY <1>0, <3>1 DEF Task
    <3>3. QED
      BY <1>0, <1>4, <3>1, <3>2 DEF Assemble, Goto, Return, Awaits
  <2>2. CASE ~ (created < MaxPacks)
    BY <1>0, <1>4, <2>2 DEF Assemble, Return
  <2>3. QED
    BY <2>1, <2>2
<1>5. ASSUME NEW j \in Jobs, Save(j) PROVE TypeOK'
  <2>1. [NoRow EXCEPT !.status = "generating"] \in Row
    BY DEF NoRow, Row, PackStatus
  <2>2. QED
    BY <1>0, <1>5, <2>1 DEF Save, Goto, Awaits
<1>6. ASSUME NEW j \in Jobs, Generate(j) PROVE TypeOK'
  <2>1. job' \in [Jobs -> Task]
    BY <1>0, <1>6 DEF Generate, Task
  <2>2. QED
    BY <1>0, <1>6, <2>1 DEF Generate, Goto, Awaits
<1>7. ASSUME NEW j \in Jobs, NEW status \in PackStatus, SetStatus(j, status),
             pc[j] \in {"mark_grounding", "mark_failed"}
      PROVE  packs' \in [PackIds -> Row \cup {NoRow}]
  <2>1. packs[job[j].pack] \in Row \cup {NoRow} /\ packs[job[j].pack].status # "none"
    BY <1>0, <1>7
       DEF IInv, TasksInv, TaskInv, Numbered, OwnRow, Writing, Pending
  <2>2. [packs[job[j].pack] EXCEPT !.status = status] \in Row
    BY <2>1, <1>7 DEF Row, NoRow
  <2>3. QED
    BY <1>0, <1>7, <2>2 DEF SetStatus
<1>8. ASSUME NEW j \in Jobs, MarkGrounding(j) PROVE TypeOK'
  BY <1>0, <1>7, <1>8 DEF MarkGrounding, Goto, Awaits, PackStatus
<1>9. ASSUME NEW j \in Jobs, MarkFailed(j) PROVE TypeOK'
  BY <1>0, <1>7, <1>9 DEF MarkFailed, Goto, Awaits, PackStatus
<1>10. ASSUME NEW j \in Jobs, Verify(j) PROVE TypeOK'
  <2>1. job[j] \in Task
    BY <1>0
  <2>2. [job[j] EXCEPT !.verified = FALSE] \in Task
    BY <2>1 DEF Task
  <2>3. \A bad, found \in SUBSET Points :
            [job[j] EXCEPT !.ungrounded = bad, !.flagged = IF found = {} THEN Points ELSE found]
                \in Task
    BY <2>1, Judgements
  <2>4. job' \in [Jobs -> Task]
    <3>1. CASE job' = job
      BY <1>0, <3>1
    <3>2. CASE job' = [job EXCEPT ![j].verified = FALSE]
      BY <1>0, <2>2, <3>2
    <3>3. ASSUME NEW bad \in SUBSET Points, NEW found \in SUBSET bad,
                 job' = [job EXCEPT ![j].ungrounded = bad,
                                    ![j].flagged = IF found = {} THEN Points ELSE found]
          PROVE  job' \in [Jobs -> Task]
      <4> DEFINE r == [job[j] EXCEPT !.ungrounded = bad,
                                     !.flagged = IF found = {} THEN Points ELSE found]
      <4>1. r \in Task
        BY <2>3
      <4>2. job' = [job EXCEPT ![j] = r]
        BY <3>3
      <4> HIDE DEF r
      <4>3. QED
        BY <1>0, <4>1, <4>2
    <3>4. QED
      BY <1>10, <3>1, <3>2, <3>3 DEF Verify
  <2>5. QED
    BY <1>0, <1>10, <2>4 DEF Verify, Goto, Awaits
<1>11. ASSUME NEW j \in Jobs, Regenerate(j) PROVE TypeOK'
  <2>1. job' \in [Jobs -> Task]
    BY <1>0, <1>11 DEF Regenerate, FlagOriginal, Task
  <2>2. QED
    BY <1>0, <1>11, <2>1 DEF Regenerate, FlagOriginal, Goto, Awaits
<1>12. ASSUME NEW j \in Jobs, Reverify(j) PROVE TypeOK'
  <2>1. job[j] \in Task /\ job[j].ungrounded \subseteq Points /\ job[j].flagged \subseteq Points
    BY <1>0 DEF Task
  <2>2. [job[j] EXCEPT !.flags = job[j].ungrounded] \in Task
    BY <2>1 DEF Task
  <2>3. \A bad \in SUBSET job[j].flagged :
            [job[j] EXCEPT !.ungrounded = (job[j].ungrounded \ job[j].flagged) \cup bad,
                           !.flags = bad] \in Task
    BY <2>1, Judgements
  <2>4. [job[j] EXCEPT !.ungrounded = job[j].ungrounded \ job[j].flagged,
                       !.verified = FALSE] \in Task
    BY <2>1, Judgements
  <2>5. job' \in [Jobs -> Task]
    BY <1>0, <1>12, <2>2, <2>3, <2>4 DEF Reverify, FlagOriginal
  <2>6. QED
    BY <1>0, <1>12, <2>5 DEF Reverify, FlagOriginal, Goto, Awaits
<1>13. ASSUME NEW j \in Jobs, SaveFinal(j) PROVE TypeOK'
  <2>1. packs[job[j].pack] \in Row
    BY <1>0, <1>13
       DEF IInv, TasksInv, TaskInv, Numbered, OwnRow, Writing, Pending, SaveFinal, NoRow
  <2>2. [packs[job[j].pack] EXCEPT !.status = FinalStatus(j), !.flags = job[j].flags,
             !.ungrounded = job[j].ungrounded, !.verified = job[j].verified] \in Row
    <3>1. job[j] \in Task /\ FinalStatus(j) \in PackStatus
      BY <1>0 DEF FinalStatus, PackStatus, Delivered
    <3>2. job[j].flags \subseteq Points /\ job[j].ungrounded \subseteq Points
          /\ job[j].verified \in BOOLEAN
      BY <3>1 DEF Task
    <3>3. QED
      BY <2>1, <3>1, <3>2, Judgements
  <2>3. QED
    BY <1>0, <1>13, <2>2 DEF SaveFinal, Goto, Awaits
<1>14. ASSUME NEW j \in Jobs, Publish(j) PROVE TypeOK'
  <2>1. job[j].pack \in PackIds /\ FinalStatus(j) \in Delivered
    BY <1>0, <1>14
       DEF IInv, TasksInv, TaskInv, Numbered, Writing, Finishing, Publish, FinalStatus, Delivered
  <2>2. QED
    BY <1>0, <1>14, <2>1 DEF Publish, Return, Goto, Awaits
<1>15. ASSUME NEW j \in Jobs, Supersede(j) PROVE TypeOK'
  <2>1. job[j].existing \in Saved /\ job[j].pack \in PackIds
    BY <1>0, <1>15
       DEF IInv, TasksInv, TaskInv, Numbered, Replaces, Writing, Finishing, Supersede
  <2>2. packs[job[j].existing] \in Row
    BY <1>0, <2>1 DEF Saved
  <2>3. [packs[job[j].existing] EXCEPT !.superseded_by = job[j].pack] \in Row
    BY <2>1, <2>2 DEF Row
  <2>4. QED
    BY <1>0, <1>15, <2>3 DEF Supersede, Goto, Awaits
<1>16. ASSUME NEW j \in Jobs, SaveHistory(j) PROVE TypeOK'
  <2>1. job[j].pack \in PackIds /\ FinalStatus(j) \in Delivered
    BY <1>0, <1>16
       DEF IInv, TasksInv, TaskInv, Numbered, Writing, Finishing, SaveHistory, FinalStatus, Delivered
  <2>2. QED
    BY <1>0, <1>16, <2>1 DEF SaveHistory, Return
<1>17. ASSUME NEW j \in Jobs, PublishFailed(j) PROVE TypeOK'
  <2>1. job[j].pack \in PackIds
    BY <1>0, <1>17 DEF IInv, TasksInv, TaskInv, Numbered, Writing, PublishFailed
  <2>2. QED
    BY <1>0, <1>17, <2>1 DEF PublishFailed, Return
<1>18. ASSUME NEW j \in Jobs, Abandon(j) PROVE TypeOK'
  BY <1>0, <1>18 DEF Abandon, Return
<1>19. ASSUME NEW j \in Jobs, Die(j) PROVE TypeOK'
  <2>1. NewTask(job[j].kind) \in Task
    BY <1>0 DEF NewTask, Task
  <2>2. QED
    BY <1>0, <1>19, <2>1 DEF Die, Goto
<1>20. CASE UNCHANGED vars
  BY <1>0, <1>20 DEF vars
<1>21. QED
  BY <1>1, <1>2, <1>3, <1>4, <1>5, <1>6, <1>8, <1>9, <1>10, <1>11, <1>12, <1>13, <1>14,
     <1>15, <1>16, <1>17, <1>18, <1>19, <1>20 DEF Next, Step

-----------------------------------------------------------------------------
(* A step of one task leaves the others where they are; it writes the row  *)
(* of its own pack, or of another the pack that supersedes it.             *)
Alone(j) ==
    \A k \in Jobs : k # j =>
        pc'[k] = pc[k] /\ job'[k] = job[k] /\ tries'[k] = tries[k] /\ result'[k] = result[k]

Renumbers(j) ==
    \/ created' = created /\ job'[j].pack \in {0, job[j].pack}
    \/ created' = created + 1 /\ job'[j].pack = created + 1

OwnRowOnly(j) ==
    \A n \in PackIds :
        /\ packs[n] # NoRow => packs'[n] # NoRow
        /\ n # job[j].pack => packs'[n] = packs[n] \/
              (packs[n] # NoRow /\ packs'[n] # NoRow /\ packs'[n].status = packs[n].status)

(* The other tasks' part of the invariant holds after such a step. *)
LEMMA OtherTasks ==
    ASSUME IInv, NEW j \in Jobs, Alone(j), Renumbers(j), OwnRowOnly(j),
           NEW k \in Jobs, k # j
    PROVE  TaskInv(k)'
<1>1. /\ pc'[k] = pc[k] /\ job'[k] = job[k] /\ tries'[k] = tries[k] /\ result'[k] = result[k]
      /\ created \in Nat /\ job[k].pack \in Nat /\ job[j].pack \in Nat
  BY InterviewPrepAssumption
     DEF Alone, IInv, TypeOK, Task, PackIds, InterviewPrepAssumption
<1>2. TaskInv(k) /\ \A i \in Jobs : Numbered(i)
  BY DEF IInv, TasksInv, TaskInv
<1>3. Numbered(k)'
  <2>1. job[k].pack <= created /\ created' \in Nat /\ created <= created'
    BY <1>1, <1>2 DEF Numbered, Renumbers
  <2>2. ASSUME NEW i \in Jobs, job'[i].pack = job[k].pack, job[k].pack # 0 PROVE i = k
    <3>1. CASE i = j
      BY <1>1, <1>2, <2>1, <2>2, <3>1 DEF Numbered, Renumbers
    <3>2. CASE i # j
      BY <1>2, <2>2, <3>2 DEF Numbered, Alone
    <3>3. QED
      BY <3>1, <3>2
  <2>3. QED
    BY <1>1, <1>2, <2>1, <2>2 DEF Numbered
<1>4. \A n \in PackIds : n = job[k].pack =>
          packs'[n] = packs[n] \/ (packs[n] # NoRow /\ packs'[n].status = packs[n].status)
  <2>1. \A n \in PackIds : n = job[k].pack => n # job[j].pack
    BY <1>2 DEF Numbered, PackIds
  <2>2. QED
    BY <2>1 DEF OwnRowOnly
<1>5. OwnRow(k)'
  <2>1. pc[k] \in Writing => job[k].pack \in PackIds
    BY <1>2 DEF TaskInv, Numbered
  <2>2. QED
    BY <1>1, <1>2, <1>4, <2>1 DEF TaskInv, OwnRow, Writing
<1>6. Answered(k)'
  BY <1>1, <1>2, <1>4 DEF TaskInv, Answered
<1>7. Replaces(k)'
  <2>1. \A n \in Saved : n \in Saved'
    BY DEF Saved, OwnRowOnly
  <2>2. QED
    BY <1>1, <1>2, <2>1 DEF TaskInv, Replaces
<1>8. RunsLeft(k)'
  BY <1>1, <1>2 DEF TaskInv, RunsLeft
<1>9. QED
  BY <1>3, <1>5, <1>6, <1>7, <1>8 DEF TaskInv

(* A step that writes no row keeps what is said of the rows. *)
LEMMA NoRowWritten ==
    ASSUME IInv, packs' = packs, created' \in {created, created + 1}
    PROVE  /\ Unused' /\ SupersededByDelivered'
           /\ events' = events => EventsFollowRows'
<1>1. created \in Nat /\ \A n \in PackIds : n \in Nat
  BY InterviewPrepAssumption DEF IInv, TypeOK, PackIds, InterviewPrepAssumption
<1>2. Unused'
  BY <1>1 DEF IInv, Unused
<1>3. Saved' = Saved
  BY DEF Saved
<1>4. QED
  BY <1>2, <1>3 DEF IInv, SupersededByDelivered, EventsFollowRows

(* A task writes the row of its pack, which nothing points at as yet. *)
LEMMA OwnRowWritten ==
    ASSUME IInv, NEW j \in Jobs, NEW n \in PackIds, n = job[j].pack, NEW r \in Row,
           packs[n].status \notin Delivered \cup {"failed"},
           r.superseded_by = packs[n].superseded_by,
           packs' = [packs EXCEPT ![n] = r], created' = created, events' = events
    PROVE  Unused' /\ SupersededByDelivered' /\ EventsFollowRows' /\ OwnRowOnly(j)
<1>1. packs'[n] = r /\ \A m \in PackIds : m # n => packs'[m] = packs[m]
  BY DEF IInv, TypeOK
<1>2. r # NoRow
  BY DEF Row, NoRow, PackStatus, Delivered
<1>3. n <= created /\ n \in Nat /\ created \in Nat
  BY InterviewPrepAssumption
     DEF IInv, TypeOK, TasksInv, TaskInv, Numbered, PackIds, InterviewPrepAssumption
<1>4. OwnRowOnly(j)
  BY <1>1, <1>2 DEF OwnRowOnly
<1>5. Unused'
  BY <1>1, <1>3 DEF IInv, Unused, PackIds
<1>6. EventsFollowRows'
  BY <1>1 DEF IInv, EventsFollowRows
<1>7. Saved' = Saved \cup {n}
  BY <1>1, <1>2 DEF Saved
<1>8. ASSUME NEW m \in Saved', packs'[m].superseded_by # 0
      PROVE  LET q == packs'[m].superseded_by
             IN q > m /\ q \in Saved' /\ packs'[q].status \in Delivered
  <2> DEFINE q == packs'[m].superseded_by
  <2>1. m \in Saved /\ q = packs[m].superseded_by
    <3>1. CASE m = n
      <4>1. packs[n].superseded_by # 0
        BY <1>1, <1>8, <3>1
      <4>2. packs[n] # NoRow
        BY <4>1 DEF NoRow
      <4>3. QED
        BY <1>1, <3>1, <4>2 DEF Saved
    <3>2. CASE m # n
      BY <1>1, <1>7, <3>2 DEF Saved
    <3>3. QED
      BY <3>1, <3>2
  <2>2. q > m /\ q \in Saved /\ packs[q].status \in Delivered
    BY <1>8, <2>1 DEF IInv, SupersededByDelivered
  <2>3. q # n /\ q \in PackIds
    BY <2>2 DEF Saved
  <2>4. packs'[q] = packs[q]
    BY <1>1, <2>3
  <2>5. QED
    BY <1>7, <2>2, <2>4
<1>9. SupersededByDelivered'
  BY <1>8 DEF SupersededByDelivered
<1>10. QED
  BY <1>4, <1>5, <1>6, <1>9

-----------------------------------------------------------------------------
Others == Unused /\ SupersededByDelivered /\ EventsFollowRows

(* What a task is known to have while it works on its pack. *)
LEMMA Known ==
    ASSUME IInv, NEW j \in Jobs
    PROVE  /\ TypeOK /\ TaskInv(j)
           /\ job[j] \in Task /\ created \in Nat
           /\ job[j].pack \in Nat /\ job[j].existing \in Nat
           /\ pc[j] \in Writing => job[j].pack \in PackIds
           /\ pc[j] # "done" => result[j] \notin Delivered
           /\ FinalStatus(j) \in Delivered
  BY InterviewPrepAssumption
     DEF IInv, TypeOK, TasksInv, TaskInv, Task, PackIds, Numbered, Answered, FinalStatus,
         Delivered, InterviewPrepAssumption

(* A step that leaves the rows and the task's two packs as they are. *)
LEMMA Advance ==
    ASSUME IInv, NEW j \in Jobs, Alone(j), packs' = packs, created' = created,
           job'[j].pack = job[j].pack, job'[j].existing = job[j].existing,
           pc'[j] \notin {"absent", "queued", "get_pack", "assemble"},
           pc'[j] \in Writing => job[j].pack \in PackIds,
           OwnRow(j)', Answered(j)', pc'[j] = "supersede" => job[j].existing # 0
    PROVE  TasksInv' /\ Unused' /\ SupersededByDelivered'
<1>1. TaskInv(j) /\ Renumbers(j) /\ OwnRowOnly(j)
  BY Known DEF Renumbers, OwnRowOnly
<1>2. Numbered(j)'
  <2>1. \A k \in Jobs : job'[k].pack = job[k].pack
    BY DEF Alone
  <2>2. QED
    BY <1>1, <2>1 DEF TaskInv, Numbered
<1>3. Replaces(j)'
  <2>1. Saved' = Saved
    BY DEF Saved
  <2>2. QED
    BY <1>1, <2>1 DEF TaskInv, Replaces
<1>4. TaskInv(j)'
  BY <1>2, <1>3 DEF TaskInv, RunsLeft
<1>5. QED
  BY <1>1, <1>4, OtherTasks, NoRowWritten DEF TasksInv

(* A task's steps on the way to its number. *)
LEMMA Opening ==
    ASSUME IInv, NEW j \in Jobs, Enqueue(j) \/ Start(j) \/ GetPack(j)
    PROVE  TasksInv' /\ Others'
<1>0. TypeOK /\ TaskInv(j) /\ result[j] \notin Delivered
  BY Known DEF Enqueue, Start, GetPack
<1>1. /\ packs' = packs /\ created' = created /\ events' = events /\ result' = result
      /\ job[j].pack = 0 /\ job'[j].pack = 0
      /\ job'[j].existing \in Saved \cup {0, job[j].existing}
      /\ pc'[j] \in {"queued", "get_pack", "assemble"}
  <2>1. CASE Enqueue(j)
    BY <1>0, <2>1 DEF Enqueue, Goto, NewTask, TypeOK, TaskInv, Numbered
  <2>2. CASE Start(j)
    BY <1>0, <2>2 DEF Start, Goto, TypeOK, TaskInv, Numbered
  <2>3. CASE GetPack(j)
    <3>1. job'[j] = job[j] \/ \E n \in Saved : job'[j] = [job[j] EXCEPT !.existing = n]
      BY <1>0, <2>3 DEF GetPack, Live, TypeOK
    <3>2. job[j] \in Task /\ job[j].pack = 0
      BY <1>0, <2>3, Known DEF GetPack, TaskInv, Numbered
    <3>3. job'[j].pack = 0 /\ job'[j].existing \in Saved \cup {0, job[j].existing}
      BY <3>1, <3>2 DEF Task
    <3>4. QED
      BY <1>0, <2>3, <3>2, <3>3 DEF GetPack, Goto, TypeOK
  <2>4. QED
    BY <2>1, <2>2, <2>3
<1>2. Alone(j) /\ Renumbers(j) /\ OwnRowOnly(j)
  <2>1. Alone(j)
    BY <1>0 DEF Enqueue, Start, GetPack, Goto, TypeOK, Alone
  <2>2. QED
    BY <1>1, <2>1 DEF Renumbers, OwnRowOnly
<1>3. Numbered(j)'
  BY <1>0, <1>1 DEF TaskInv, Numbered, Writing, Pending, Finishing
<1>4. OwnRow(j)' /\ Answered(j)'
  BY <1>0, <1>1 DEF OwnRow, Answered, Pending, Finishing
<1>5. Replaces(j)'
  <2>1. Saved' = Saved
    BY <1>1 DEF Saved
  <2>2. job'[j].existing # 0 => job'[j].existing \in Saved
    BY <1>0, <1>1 DEF TaskInv, Replaces
  <2>3. QED
    BY <1>1, <2>1, <2>2 DEF Replaces
<1>6. RunsLeft(j)'
  <2>1. CASE Enqueue(j)
    BY <1>0, <2>1 DEF Enqueue, TaskInv, RunsLeft
  <2>2. CASE Start(j) \/ GetPack(j)
    BY <1>0, <2>2 DEF Start, GetPack, Goto, RunsLeft, TypeOK
  <2>3. QED
    BY <2>1, <2>2
<1>7. TaskInv(j)'
  BY <1>3, <1>4, <1>5, <1>6 DEF TaskInv
<1>8. QED
  BY <1>1, <1>2, <1>7, OtherTasks, NoRowWritten DEF TasksInv, Others

(* Gathering what a pack is made of gives the run its number, or ends it.  *)
LEMMA AssembleStep ==
    ASSUME IInv, NEW j \in Jobs, Assemble(j)
    PROVE  TasksInv' /\ Others'
<1>0. TypeOK /\ TaskInv(j) /\ result[j] \notin Delivered /\ created \in Nat /\ job[j].pack = 0
  BY Known DEF Assemble, TaskInv, Numbered
<1>1. packs' = packs /\ events' = events /\ Saved' = Saved /\ Alone(j)
  BY <1>0 DEF Assemble, Goto, Return, Alone, TypeOK, Saved
<1>2. CASE /\ created < MaxPacks /\ created' = created + 1
           /\ job' = [job EXCEPT ![j].pack = created + 1]
           /\ Goto(j, "save") /\ UNCHANGED result
  <2>1. /\ job'[j].pack = created + 1 /\ job'[j].existing = job[j].existing
        /\ pc'[j] = "save" /\ result'[j] = result[j]
    BY <1>0, <1>2 DEF Goto, TypeOK, Task
  <2>2. created + 1 \in PackIds /\ packs[created + 1] = NoRow
    BY <1>0, <1>2, InterviewPrepAssumption
       DEF PackIds, IInv, Unused, InterviewPrepAssumption
  <2>3. Renumbers(j) /\ OwnRowOnly(j)
    BY <1>1, <1>2, <2>1 DEF Renumbers, OwnRowOnly
  <2>4. \A k \in Jobs : k # j => job'[k].pack <= created /\ job'[k].pack \in Nat
    BY <1>1, Known DEF Alone, TaskInv, Numbered
  <2>5. Numbered(j)'
    BY <1>0, <1>2, <2>1, <2>2, <2>4 DEF Numbered
  <2>6. OwnRow(j)' /\ Answered(j)' /\ RunsLeft(j)'
    BY <1>0, <1>1, <2>1, <2>2
       DEF OwnRow, Answered, RunsLeft, Pending, Finishing
  <2>7. Replaces(j)'
    <3>1. job[j].existing # 0 => job[j].existing \in Saved /\ job[j].existing \in Nat
                                 /\ job[j].existing < created + 1
      BY <1>0, Known DEF TaskInv, Replaces, IInv, Unused, Saved
    <3>2. QED
      BY <1>1, <2>1, <3>1 DEF Replaces
  <2>8. TaskInv(j)'
    BY <2>5, <2>6, <2>7 DEF TaskInv
  <2>9. QED
    BY <1>1, <1>2, <2>3, <2>8, OtherTasks, NoRowWritten DEF TasksInv, Others
<1>3. CASE Return(j, "failed") /\ UNCHANGED <<created, job>>
  <2>1. pc'[j] = "done" /\ result'[j] = "failed"
    BY <1>0, <1>3 DEF Return, TypeOK
  <2>2. OwnRow(j)' /\ Answered(j)'
    BY <2>1 DEF OwnRow, Answered, Pending, Finishing, Delivered
  <2>3. pc'[j] \notin Writing
    BY <2>1 DEF Writing, Pending, Finishing
  <2>4. QED
    BY <1>1, <1>3, <2>1, <2>2, <2>3, Advance, NoRowWritten DEF Others
<1>4. QED
  BY <1>2, <1>3 DEF Assemble

(* The calls of the model and of the verifier write nothing. *)
LEMMA ModelCalls ==
    ASSUME IInv, NEW j \in Jobs, Generate(j) \/ Verify(j) \/ Regenerate(j) \/ Reverify(j)
    PROVE  TasksInv' /\ Others'
<1>0. /\ TypeOK /\ TaskInv(j) /\ job[j] \in Task /\ pc[j] \in Pending
      /\ result[j] \notin Delivered /\ job[j].pack \in PackIds
  BY Known DEF Generate, Verify, Regenerate, Reverify, Pending, Writing
<1>1. /\ packs' = packs /\ created' = created /\ events' = events /\ result' = result
      /\ Alone(j)
  BY <1>0 DEF Generate, Verify, Regenerate, Reverify, FlagOriginal, Goto, Alone, TypeOK
<1>2. job'[j].pack = job[j].pack /\ job'[j].existing = job[j].existing
  <2>1. CASE Generate(j)
    BY <1>0, <2>1 DEF Generate, TypeOK, Task
  <2>2. CASE Verify(j)
    <3>1. ASSUME NEW bad, NEW found,
                 job' = [job EXCEPT ![j].ungrounded = bad, ![j].flagged = found]
          PROVE  job'[j].pack = job[j].pack /\ job'[j].existing = job[j].existing
      <4>1. job'[j] = [job[j] EXCEPT !.ungrounded = bad, !.flagged = found]
        BY <1>0, <3>1 DEF TypeOK
      <4>2. QED
        BY <1>0, <4>1 DEF Task
    <3>2. CASE job' = [job EXCEPT ![j].verified = FALSE]
      BY <1>0, <3>2 DEF TypeOK, Task
    <3>3. CASE job' = job
      BY <3>3
    <3>4. QED
      BY <2>2, <3>1, <3>2, <3>3 DEF Verify
  <2>3. CASE Regenerate(j)
    BY <1>0, <2>3 DEF Regenerate, FlagOriginal, TypeOK, Task
  <2>4. CASE Reverify(j)
    <3>1. ASSUME NEW bad, NEW left,
                 job' = [job EXCEPT ![j].ungrounded = bad, ![j].flags = left]
          PROVE  job'[j].pack = job[j].pack /\ job'[j].existing = job[j].existing
      <4>1. job'[j] = [job[j] EXCEPT !.ungrounded = bad, !.flags = left]
        BY <1>0, <3>1 DEF TypeOK
      <4>2. QED
        BY <1>0, <4>1 DEF Task
    <3>2. ASSUME NEW bad, job' = [job EXCEPT ![j].ungrounded = bad, ![j].verified = FALSE]
          PROVE  job'[j].pack = job[j].pack /\ job'[j].existing = job[j].existing
      <4>1. job'[j] = [job[j] EXCEPT !.ungrounded = bad, !.verified = FALSE]
        BY <1>0, <3>2 DEF TypeOK
      <4>2. QED
        BY <1>0, <4>1 DEF Task
    <3>3. CASE job' = [job EXCEPT ![j].flags = job[j].ungrounded]
      BY <1>0, <3>3 DEF TypeOK, Task
    <3>4. QED
      BY <2>4, <3>1, <3>2, <3>3 DEF Reverify, FlagOriginal
  <2>5. QED
    BY <2>1, <2>2, <2>3, <2>4
<1>3. pc'[j] \in Pending
  BY <1>0 DEF Generate, Verify, Regenerate, Reverify, FlagOriginal, Goto, TypeOK, Pending
<1>4. OwnRow(j)' /\ Answered(j)'
  <2>1. packs[job[j].pack].status \in {"generating", "grounding"}
    BY <1>0 DEF TaskInv, OwnRow
  <2>2. QED
    BY <1>0, <1>1, <1>2, <1>3, <2>1 DEF OwnRow, Answered, Pending, Finishing
<1>5. pc'[j] \notin {"absent", "queued", "get_pack", "assemble", "supersede"}
  BY <1>3 DEF Pending
<1>6. QED
  BY <1>0, <1>1, <1>2, <1>4, <1>5, Advance, NoRowWritten DEF Others

(* A step that ends a task without a pack, or leads to its last awaits. *)
LEMMA LastAwaits ==
    ASSUME IInv, NEW j \in Jobs,
           Publish(j) \/ SaveHistory(j) \/ PublishFailed(j) \/ Abandon(j)
    PROVE  TasksInv' /\ Unused' /\ SupersededByDelivered'
<1>0. TypeOK /\ TaskInv(j) /\ FinalStatus(j) \in Delivered /\ result[j] \notin Delivered
  BY Known DEF Publish, SaveHistory, PublishFailed, Abandon, Awaits
<1>1. packs' = packs /\ created' = created /\ job' = job /\ Alone(j)
  BY <1>0 DEF Publish, SaveHistory, PublishFailed, Abandon, Goto, Return, Alone, TypeOK
<1>2. CASE Publish(j) \/ SaveHistory(j)
  <2>1. pc[j] \in Finishing /\ job[j].pack \in PackIds
    BY <1>2, Known DEF Publish, SaveHistory, Finishing, Writing
  <2>2. packs[job[j].pack].status \in Delivered
    BY <1>0, <2>1 DEF TaskInv, OwnRow
  <2>3. \/ pc'[j] = "done"
        \/ /\ pc'[j] \in {"history", "supersede"} /\ result' = result
           /\ pc'[j] = "supersede" => job[j].existing # 0
    BY <1>0, <1>2 DEF Publish, SaveHistory, Goto, Return, TypeOK
  <2>4. OwnRow(j)' /\ Answered(j)'
    BY <1>0, <1>1, <2>1, <2>2, <2>3 DEF OwnRow, Answered, Pending, Finishing
  <2>5. QED
    BY <1>1, <2>1, <2>3, <2>4, Advance
<1>3. CASE PublishFailed(j) \/ Abandon(j)
  <2>1. pc'[j] = "done" /\ result'[j] = "failed"
    BY <1>0, <1>3 DEF PublishFailed, Abandon, Return, TypeOK
  <2>2. OwnRow(j)' /\ Answered(j)' /\ pc'[j] \notin Writing
    BY <2>1 DEF OwnRow, Answered, Pending, Finishing, Delivered, Writing
  <2>3. QED
    BY <1>1, <2>1, <2>2, Advance
<1>4. QED
  BY <1>2, <1>3

(* What a task publishes is so in the row of its pack. *)
LEMMA EventsAreTrue ==
    ASSUME IInv, NEW j \in Jobs,
           Publish(j) \/ SaveHistory(j) \/ PublishFailed(j) \/ Abandon(j)
    PROVE  EventsFollowRows'
<1>0. TaskInv(j) /\ packs' = packs /\ EventsFollowRows
  BY Known DEF Publish, SaveHistory, PublishFailed, Abandon, IInv
<1>1. CASE Publish(j)
  <2>1. packs[job[j].pack].status \in Delivered
    BY <1>0, <1>1 DEF TaskInv, OwnRow, Finishing, Publish
  <2>2. events' = events \cup {<<"pack_ready", job[j].pack>>}
    BY <1>1 DEF Publish
  <2>3. QED
    BY <1>0, <2>1, <2>2 DEF EventsFollowRows
<1>2. CASE PublishFailed(j)
  <2>1. packs[job[j].pack].status = "failed"
    BY <1>0, <1>2 DEF TaskInv, OwnRow, PublishFailed
  <2>2. events' = events \cup {<<"pack_failed", job[j].pack>>}
    BY <1>2 DEF PublishFailed
  <2>3. QED
    BY <1>0, <2>1, <2>2 DEF EventsFollowRows
<1>3. CASE SaveHistory(j) \/ Abandon(j)
  BY <1>0, <1>3 DEF SaveHistory, Abandon, EventsFollowRows
<1>4. QED
  BY <1>1, <1>2, <1>3

(* The rows a task writes as its pack is made. *)
LEMMA OwnWrites ==
    ASSUME IInv, NEW j \in Jobs,
           Save(j) \/ MarkGrounding(j) \/ SaveFinal(j) \/ MarkFailed(j)
    PROVE  TasksInv' /\ Others'
<1> DEFINE n == job[j].pack
<1>0. /\ TypeOK /\ TaskInv(j) /\ job[j] \in Task
      /\ result[j] \notin Delivered /\ n \in PackIds /\ FinalStatus(j) \in Delivered
  BY Known DEF Save, MarkGrounding, SaveFinal, MarkFailed, Pending, Writing
<1>1. /\ created' = created /\ events' = events /\ result' = result /\ job' = job
      /\ Alone(j)
  BY <1>0 DEF Save, MarkGrounding, SaveFinal, MarkFailed, Goto, Alone, TypeOK
<1>2. packs[n].status \notin Delivered \cup {"failed"}
  BY <1>0 DEF TaskInv, OwnRow, Save, MarkGrounding, SaveFinal, MarkFailed, Pending, NoRow,
              Delivered
<1>3. \E r \in Row : /\ packs' = [packs EXCEPT ![n] = r]
                     /\ r.superseded_by = packs[n].superseded_by
                     /\ \/ r.status \in {"generating", "grounding"} /\ pc'[j] \in {"generate", "verify"}
                        \/ r.status \in Delivered /\ pc'[j] = "publish"
                        \/ r.status = "failed" /\ pc'[j] = "publish_failed"
  <2>1. CASE Save(j)
    <3>1. packs[n] = NoRow /\ pc'[j] = "generate"
      BY <1>0, <2>1 DEF TaskInv, OwnRow, Save, Goto, TypeOK
    <3>2. /\ [NoRow EXCEPT !.status = "generating"] \in Row
          /\ [NoRow EXCEPT !.status = "generating"].status = "generating"
          /\ [NoRow EXCEPT !.status = "generating"].superseded_by = NoRow.superseded_by
      BY DEF NoRow, Row, PackStatus
    <3>3. QED
      BY <2>1, <3>1, <3>2 DEF Save
  <2>2. ASSUME ~ Save(j) PROVE packs[n] \in Row
    <3>1. packs[n].status \in {"generating", "grounding"}
      BY <1>0, <2>2 DEF TaskInv, OwnRow, MarkGrounding, SaveFinal, MarkFailed, Pending
    <3>2. QED
      BY <1>0, <3>1 DEF TypeOK, NoRow
  <2>3. CASE MarkGrounding(j) \/ MarkFailed(j)
    <3>1. packs[n] \in Row
      BY <1>0, <2>2, <2>3 DEF Save, MarkGrounding, MarkFailed
    <3>2. \A s \in PackStatus :
             LET r == [packs[n] EXCEPT !.status = s]
             IN r \in Row /\ r.status = s /\ r.superseded_by = packs[n].superseded_by
      BY <3>1 DEF Row
    <3>3. \E s \in PackStatus :
             /\ packs' = [packs EXCEPT ![n] = [packs[n] EXCEPT !.status = s]]
             /\ \/ s = "grounding" /\ pc'[j] = "verify"
                \/ s = "failed" /\ pc'[j] = "publish_failed"
      BY <1>0, <2>3 DEF MarkGrounding, MarkFailed, SetStatus, Goto, PackStatus, TypeOK
    <3>4. QED
      BY <3>2, <3>3
  <2>4. CASE SaveFinal(j)
    <3> DEFINE r == [packs[n] EXCEPT !.status = FinalStatus(j), !.flags = job[j].flags,
                       !.ungrounded = job[j].ungrounded, !.verified = job[j].verified]
    <3>1. packs[n] \in Row
      BY <2>2, <2>4 DEF Save, SaveFinal
    <3>2. /\ job[j].flags \subseteq Points /\ job[j].ungrounded \subseteq Points
          /\ job[j].verified \in BOOLEAN /\ FinalStatus(j) \in PackStatus
      BY <1>0 DEF Task, PackStatus
    <3>3. r \in Row
      BY <3>1, <3>2, Judgements
    <3>4. r.status = FinalStatus(j) /\ r.superseded_by = packs[n].superseded_by
      BY <3>1 DEF Row
    <3>5. packs' = [packs EXCEPT ![n] = r] /\ pc'[j] = "publish"
      BY <1>0, <2>4 DEF SaveFinal, Goto, TypeOK
    <3> HIDE DEF r
    <3>6. QED
      BY <1>0, <3>3, <3>4, <3>5
  <2>5. QED
    BY <2>1, <2>3, <2>4
<1>4. PICK r \in Row :
         /\ packs' = [packs EXCEPT ![n] = r]
         /\ r.superseded_by = packs[n].superseded_by
         /\ \/ r.status \in {"generating", "grounding"} /\ pc'[j] \in {"generate", "verify"}
            \/ r.status \in Delivered /\ pc'[j] = "publish"
            \/ r.status = "failed" /\ pc'[j] = "publish_failed"
  BY <1>3
<1>5. Others' /\ OwnRowOnly(j)
  BY <1>0, <1>1, <1>2, <1>4, OwnRowWritten DEF Others
<1>6. Numbered(j)'
  <2>1. pc'[j] \notin {"absent", "queued", "get_pack", "assemble"}
    BY <1>4
  <2>2. QED
    BY <1>0, <1>1, <2>1 DEF TaskInv, Numbered
<1>7. packs'[n] = r
  BY <1>0, <1>4 DEF TypeOK
<1>8. OwnRow(j)' /\ Answered(j)'
  BY <1>0, <1>1, <1>4, <1>7 DEF OwnRow, Answered, Pending, Finishing
<1>9. Replaces(j)' /\ RunsLeft(j)'
  <2>1. \A m \in Saved : m \in Saved'
    BY <1>5 DEF OwnRowOnly, Saved
  <2>2. QED
    BY <1>0, <1>1, <1>4, <2>1 DEF TaskInv, Replaces, RunsLeft
<1>10. Renumbers(j)
  BY <1>1 DEF Renumbers
<1>11. TaskInv(j)'
  BY <1>6, <1>8, <1>9 DEF TaskInv
<1>12. QED
  BY <1>1, <1>5, <1>10, <1>11, OtherTasks DEF TasksInv

(* A task points the pack it found at its own, which is later and          *)
(* delivered.                                                              *)
LEMMA SupersedeStep ==
    ASSUME IInv, NEW j \in Jobs, Supersede(j)
    PROVE  TasksInv' /\ Others'
<1> DEFINE n == job[j].pack
           e == job[j].existing
<1>0. /\ TypeOK /\ TaskInv(j) /\ result[j] \notin Delivered
      /\ n \in PackIds /\ n \in Nat /\ created \in Nat
  BY Known DEF Supersede, Finishing, Writing
<1>1. /\ created' = created /\ events' = events /\ result' = result /\ job' = job
      /\ Alone(j) /\ pc'[j] = "history"
  BY <1>0 DEF Supersede, Goto, Alone, TypeOK
<1>2. /\ e \in Saved /\ e \in PackIds /\ e < n
      /\ packs[n].status \in Delivered /\ n \in Saved
  <2>1. e \in Saved /\ e < n /\ packs[n].status \in Delivered
    BY <1>0, InterviewPrepAssumption
       DEF TaskInv, Replaces, OwnRow, Finishing, Supersede, PackIds, InterviewPrepAssumption
  <2>2. packs[n] # NoRow
    BY <2>1 DEF NoRow, Delivered
  <2>3. QED
    BY <1>0, <2>1, <2>2 DEF Saved
<1>3. /\ packs'[e] = [packs[e] EXCEPT !.superseded_by = n]
      /\ \A m \in PackIds : m # e => packs'[m] = packs[m]
  BY <1>0, <1>2 DEF Supersede, TypeOK
<1>4. packs[e] \in Row
  BY <1>0, <1>2 DEF TypeOK, Saved
<1>5. /\ packs'[e].status = packs[e].status /\ packs'[e].superseded_by = n
      /\ packs'[e] \in Row /\ packs'[e] # NoRow
  <2>1. packs'[e].status = packs[e].status /\ packs'[e].superseded_by = n /\ packs'[e] \in Row
    BY <1>0, <1>3, <1>4 DEF Row
  <2>2. packs'[e] # NoRow
    BY <2>1 DEF Row, NoRow, PackStatus, Delivered
  <2>3. QED
    BY <2>1, <2>2
<1>6. \A m \in PackIds : packs'[m].status = packs[m].status
  BY <1>3, <1>5
<1>7. Saved' = Saved
  BY <1>2, <1>3, <1>5 DEF Saved
<1>8. OwnRowOnly(j) /\ Renumbers(j)
  BY <1>1, <1>2, <1>3, <1>5 DEF OwnRowOnly, Renumbers, Saved
<1>9. TaskInv(j)'
  <2>1. Numbered(j)'
    BY <1>0, <1>1 DEF TaskInv, Numbered
  <2>2. OwnRow(j)' /\ Answered(j)'
    BY <1>0, <1>1, <1>2, <1>6 DEF OwnRow, Answered, Pending, Finishing
  <2>3. Replaces(j)' /\ RunsLeft(j)'
    BY <1>0, <1>1, <1>7 DEF TaskInv, Replaces, RunsLeft
  <2>4. QED
    BY <2>1, <2>2, <2>3 DEF TaskInv
<1>10. Unused'
  BY <1>1, <1>2, <1>3 DEF IInv, Unused, Saved
<1>11. SupersededByDelivered'
  <2> SUFFICES ASSUME NEW m \in Saved, packs'[m].superseded_by # 0
               PROVE  LET q == packs'[m].superseded_by
                      IN q > m /\ q \in Saved /\ packs'[q].status \in Delivered
    BY <1>7 DEF SupersededByDelivered
  <2>1. CASE m = e
    BY <1>0, <1>2, <1>5, <1>6, <2>1 DEF PackIds
  <2>2. CASE m # e
    <3>1. packs'[m] = packs[m]
      BY <1>3, <2>2 DEF Saved
    <3>2. LET q == packs[m].superseded_by
          IN q > m /\ q \in Saved /\ packs[q].status \in Delivered
      BY <3>1 DEF IInv, SupersededByDelivered
    <3>3. QED
      BY <1>6, <3>1, <3>2 DEF Saved
  <2>3. QED
    BY <2>1, <2>2
<1>12. EventsFollowRows'
  BY <1>1, <1>6 DEF IInv, EventsFollowRows
<1>13. QED
  BY <1>1, <1>8, <1>9, <1>10, <1>11, <1>12, OtherTasks DEF TasksInv, Others

(* A run that dies gives up its number; its row stays as it is. *)
LEMMA DieStep ==
    ASSUME IInv, NEW j \in Jobs, Die(j)
    PROVE  TasksInv' /\ Others'
<1>0. TypeOK /\ TaskInv(j) /\ result[j] \notin Delivered
  BY Known DEF Die, Awaits
<1>1. /\ packs' = packs /\ created' = created /\ events' = events /\ result' = result
      /\ job'[j].pack = 0 /\ job'[j].existing = 0 /\ pc'[j] = "queued"
      /\ tries'[j] < MaxTries /\ Alone(j) /\ created \in Nat
  BY <1>0, Known DEF Die, Goto, Alone, TypeOK, NewTask
<1>2. Renumbers(j) /\ OwnRowOnly(j)
  BY <1>1 DEF Renumbers, OwnRowOnly
<1>3. Numbered(j)'
  BY <1>1 DEF Numbered, Writing, Pending, Finishing
<1>4. OwnRow(j)' /\ Answered(j)'
  BY <1>0, <1>1 DEF OwnRow, Answered, Pending, Finishing
<1>5. Replaces(j)' /\ RunsLeft(j)'
  BY <1>1 DEF Replaces, RunsLeft
<1>6. TaskInv(j)'
  BY <1>3, <1>4, <1>5 DEF TaskInv
<1>7. QED
  BY <1>1, <1>2, <1>6, OtherTasks, NoRowWritten DEF TasksInv, Others

-----------------------------------------------------------------------------
(* The invariant of all tasks holds throughout. *)
THEOREM Inductive == Spec => []IInv
<1>1. Init => IInv
  BY InitInv
<1>2. IInv /\ [Next]_vars => IInv'
  <2> SUFFICES ASSUME IInv, [Next]_vars PROVE IInv'
    OBVIOUS
  <2>1. TypeOK'
    BY TypeStep
  <2>2. TasksInv' /\ Others'
    <3>1. ASSUME NEW j \in Jobs, Enqueue(j) \/ Step(j) \/ Abandon(j) \/ Die(j)
          PROVE  TasksInv' /\ Others'
      BY <3>1, Opening, AssembleStep, ModelCalls, LastAwaits, EventsAreTrue, OwnWrites,
         SupersedeStep, DieStep DEF Step, Others
    <3>2. CASE UNCHANGED vars
      BY <3>2 DEF vars, IInv, Others, TasksInv, TaskInv, Numbered, OwnRow, Answered,
                  Replaces, RunsLeft, Unused, SupersededByDelivered, EventsFollowRows, Saved
    <3>3. QED
      BY <3>1, <3>2 DEF Next
  <2>3. QED
    BY <2>1, <2>2 DEF IInv, Others
<1>3. QED
  BY <1>1, <1>2, PTL DEF Spec

(* Every variable keeps its type, whatever the tasks and the bounds. *)
THEOREM TypeCorrect == Spec => []TypeOK
<1>1. IInv => TypeOK
  BY DEF IInv
<1>2. QED
  BY <1>1, Inductive, PTL

(* Regeneration never loses what was delivered, with any number of tasks   *)
(* that fail, die and run again: a pack gives way only to a later one that *)
(* was delivered, since a task supersedes after it has saved its own, and  *)
(* the packs that supersede one another end in a current one.              *)
THEOREM Retention == Spec => []PacksAreKept
<1>1. IInv => PacksAreKept
  BY LastDelivered DEF IInv, DeliveredIsKept, PacksAreKept
<1>2. QED
  BY <1>1, Inductive, PTL

(* Once a task has reported a pack, no older pack is shown. *)
THEOREM Visibility == Spec => []ReportedIsShown
<1>1. ASSUME IInv, NEW j \in Jobs, result[j] \in Delivered
      PROVE  \E n \in PackIds : IsShown(n) /\ n >= job[j].pack
  <2>1. /\ TypeOK /\ SupersededByDelivered /\ job[j].pack \in PackIds
        /\ packs[job[j].pack].status \in Delivered
    BY <1>1, Known DEF IInv, TaskInv, Answered
  <2>2. job[j].pack \in Saved
    BY <2>1 DEF Saved, NoRow, Delivered
  <2>3. PICK m \in Live : m >= job[j].pack
    BY <2>1, <2>2, LastDelivered
  <2>4. PICK n \in PackIds : IsShown(n) /\ n >= m
    BY SomePackShown
  <2>5. n \in Nat /\ m \in Nat /\ job[j].pack \in Nat
    BY <2>1, InterviewPrepAssumption DEF PackIds, Live, Saved, InterviewPrepAssumption
  <2>6. QED
    BY <2>3, <2>4, <2>5
<1>2. IInv => ReportedIsShown
  BY <1>1 DEF ReportedIsShown
<1>3. QED
  BY <1>2, Inductive, PTL

(* The events that were published say what the rows say. *)
THEOREM Announcements == Spec => []EventsFollowRows
<1>1. IInv => EventsFollowRows
  BY DEF IInv
<1>2. QED
  BY <1>1, Inductive, PTL

-----------------------------------------------------------------------------
\* Flags: what a task holds before its verification is clean, and what it
\* writes in the end was judged by the verification that raised it.

Unjudged == {"absent", "queued", "get_pack", "assemble", "save", "generate", "mark_grounding",
             "verify", "regenerate", "reverify"}

HoldsJudged(j) ==
    /\ pc[j] \in Unjudged => job[j].flags = {} /\ job[j].verified
    /\ pc[j] = "save_final" => /\ job[j].flags \subseteq job[j].ungrounded
                               /\ job[j].flags # {} => job[j].verified

RowsJudged ==
    \A n \in PackIds : packs[n].status \in Delivered =>
        /\ packs[n].flags \subseteq packs[n].ungrounded
        /\ packs[n].flags # {} => packs[n].verified

FlagsInv == RowsJudged /\ \A j \in Jobs : HoldsJudged(j)

(* What a step leaves in the task that takes it.                           *)
LEMMA HeldFlags ==
    ASSUME TypeOK, FlagsInv, NEW j \in Jobs, Enqueue(j) \/ Step(j) \/ Abandon(j) \/ Die(j)
    PROVE  HoldsJudged(j)'
<1> USE DEF Goto, Return, Unjudged
<1>0. job[j] \in Task /\ HoldsJudged(j) /\ job \in [Jobs -> Task] /\ j \in DOMAIN pc
  BY DEF TypeOK, FlagsInv
<1>1. CASE Enqueue(j) \/ Die(j)
  <2>1. job'[j].flags = {} /\ job'[j].verified
    BY <1>0, <1>1 DEF Enqueue, Die, NewTask
  <2>2. pc'[j] = "queued"
    BY <1>0, <1>1 DEF Enqueue, Die
  <2>3. QED
    BY <2>1, <2>2 DEF HoldsJudged
<1>2. CASE Start(j) \/ GetPack(j) \/ Assemble(j) \/ Save(j) \/ Generate(j) \/ MarkGrounding(j)
  <2>1. pc[j] \in Unjudged /\ pc'[j] # "save_final"
    BY <1>0, <1>2 DEF Start, GetPack, Assemble, Save, Generate, MarkGrounding
  <2>2. job'[j].flags = job[j].flags /\ job'[j].verified = job[j].verified
    BY <1>0, <1>2 DEF Start, GetPack, Assemble, Save, Generate, MarkGrounding, Task
  <2>3. QED
    BY <1>0, <2>1, <2>2 DEF HoldsJudged
<1>3. CASE Verify(j)
  <2>1. /\ pc[j] = "verify" /\ pc'[j] \in {"save_final", "regenerate"}
        /\ job'[j].flags = job[j].flags
        /\ pc'[j] = "regenerate" => job'[j].verified = job[j].verified
    <3>1. CASE job' = [job EXCEPT ![j].verified = FALSE] /\ Goto(j, "save_final")
      BY <1>0, <1>3, <3>1 DEF Verify, Task
    <3>2. CASE UNCHANGED job /\ Goto(j, "save_final")
      BY <1>0, <1>3, <3>2 DEF Verify
    <3>3. ASSUME NEW bad, NEW found, Goto(j, "regenerate"),
                 job' = [job EXCEPT ![j].ungrounded = bad,
                                    ![j].flagged = IF found = {} THEN Points ELSE found]
          PROVE  /\ pc'[j] = "regenerate"
                 /\ job'[j].flags = job[j].flags /\ job'[j].verified = job[j].verified
      BY <1>0, <3>3 DEF Task
    <3>4. QED
      BY <1>3, <3>1, <3>2, <3>3 DEF Verify
  <2>2. QED
    BY <1>0, <2>1 DEF HoldsJudged
<1>4. CASE Regenerate(j)
  <2>1. CASE FlagOriginal(j)
    <3>1. /\ pc[j] = "regenerate" /\ pc'[j] = "save_final" /\ job'[j].verified = job[j].verified
          /\ job'[j].flags = job[j].ungrounded /\ job'[j].ungrounded = job[j].ungrounded
      BY <1>0, <1>4, <2>1 DEF Regenerate, FlagOriginal, Task
    <3>2. QED
      BY <1>0, <3>1 DEF HoldsJudged
  <2>2. CASE Goto(j, "reverify") /\ UNCHANGED job
    BY <1>0, <1>4, <2>2 DEF Regenerate, HoldsJudged
  <2>3. QED
    BY <1>4, <2>1, <2>2 DEF Regenerate
<1>5. CASE Reverify(j)
  <2> DEFINE kept == job[j].ungrounded \ job[j].flagged
  <2>0. pc[j] = "reverify" /\ pc'[j] = "save_final"
    BY <1>0, <1>5 DEF Reverify, FlagOriginal
  <2>1. ASSUME NEW bad \in SUBSET job[j].flagged,
               job' = [job EXCEPT ![j].ungrounded = kept \cup bad, ![j].flags = bad]
        PROVE  HoldsJudged(j)'
    <3>1. /\ job'[j].verified = job[j].verified /\ job'[j].flags = bad
          /\ job'[j].ungrounded = kept \cup bad
      BY <1>0, <2>1 DEF Task
    <3>2. QED
      BY <1>0, <2>0, <3>1 DEF HoldsJudged
  <2>2. CASE job' = [job EXCEPT ![j].ungrounded = kept, ![j].verified = FALSE]
    <3>1. job'[j].flags = job[j].flags
      BY <1>0, <2>2 DEF Task
    <3>2. QED
      BY <1>0, <2>0, <3>1 DEF HoldsJudged
  <2>3. CASE FlagOriginal(j)
    <3>1. /\ job'[j].verified = job[j].verified
          /\ job'[j].flags = job[j].ungrounded /\ job'[j].ungrounded = job[j].ungrounded
      BY <1>0, <2>3 DEF FlagOriginal, Task
    <3>2. QED
      BY <1>0, <2>0, <3>1 DEF HoldsJudged
  <2>4. QED
    BY <1>5, <2>1, <2>2, <2>3 DEF Reverify
<1>6. CASE \/ SaveFinal(j) \/ Publish(j) \/ Supersede(j) \/ SaveHistory(j) \/ MarkFailed(j)
           \/ PublishFailed(j) \/ Abandon(j)
  <2>1. pc'[j] \in {"publish", "history", "supersede", "publish_failed", "done"}
    BY <1>0, <1>6 DEF SaveFinal, Publish, Supersede, SaveHistory, MarkFailed, PublishFailed, Abandon
  <2>2. QED
    BY <2>1 DEF HoldsJudged
<1>7. QED
  BY <1>1, <1>2, <1>3, <1>4, <1>5, <1>6 DEF Step

(* What a step leaves in the rows.                                         *)
LEMMA RowFlags ==
    ASSUME IInv, FlagsInv, NEW j \in Jobs, Enqueue(j) \/ Step(j) \/ Abandon(j) \/ Die(j)
    PROVE  RowsJudged'
<1>0. /\ packs \in [PackIds -> Row \cup {NoRow}] /\ job[j] \in Task /\ HoldsJudged(j) /\ RowsJudged
  BY DEF IInv, TypeOK, FlagsInv
<1>1. CASE UNCHANGED packs
  BY <1>0, <1>1 DEF RowsJudged
<1>2. ASSUME NEW status \in {"generating", "grounding", "failed"}, NEW n \in PackIds,
             packs'[n].status = status, \A m \in PackIds \ {n} : packs'[m] = packs[m]
      PROVE  RowsJudged'
  BY <1>0, <1>2 DEF RowsJudged, Delivered
<1>3. CASE SaveFinal(j)
  <2>1. PICK n : n = job[j].pack
    OBVIOUS
  <2>2. ASSUME n \in PackIds
        PROVE  /\ packs'[n].flags = job[j].flags /\ packs'[n].ungrounded = job[j].ungrounded
               /\ packs'[n].verified = job[j].verified
    BY <1>0, <1>3, <2>1, <2>2 DEF SaveFinal, Row, NoRow
  <2>3. \A m \in PackIds \ {n} : packs'[m] = packs[m]
    BY <1>0, <1>3, <2>1 DEF SaveFinal
  <2>4. pc[j] = "save_final"
    BY <1>3 DEF SaveFinal
  <2>5. QED
    BY <1>0, <2>2, <2>3, <2>4 DEF RowsJudged, HoldsJudged
<1>4. CASE Supersede(j)
  <2>1. \A m \in PackIds : /\ packs'[m].status = packs[m].status /\ packs'[m].flags = packs[m].flags
                           /\ packs'[m].ungrounded = packs[m].ungrounded
                           /\ packs'[m].verified = packs[m].verified
    BY <1>0, <1>4 DEF Supersede, Row, NoRow
  <2>2. QED
    BY <1>0, <2>1 DEF RowsJudged
<1>5. CASE Save(j)
  <2>1. CASE job[j].pack \in PackIds
    <3>1. packs'[job[j].pack].status = "generating"
      BY <1>0, <1>5, <2>1 DEF Save, NoRow
    <3>2. \A m \in PackIds \ {job[j].pack} : packs'[m] = packs[m]
      BY <1>0, <1>5 DEF Save
    <3>3. QED
      BY <1>2, <2>1, <3>1, <3>2
  <2>2. CASE job[j].pack \notin PackIds
    <3>1. \A m \in PackIds : packs'[m] = packs[m]
      BY <1>0, <1>5, <2>2 DEF Save
    <3>2. QED
      BY <1>0, <3>1 DEF RowsJudged
  <2>3. QED
    BY <2>1, <2>2
<1>6. ASSUME NEW status \in {"grounding", "failed"}, SetStatus(j, status) PROVE RowsJudged'
  <2>1. CASE job[j].pack \in PackIds
    <3>1. packs'[job[j].pack].status = status
      BY <1>0, <1>6, <2>1 DEF SetStatus, Row, NoRow
    <3>2. \A m \in PackIds \ {job[j].pack} : packs'[m] = packs[m]
      BY <1>0, <1>6 DEF SetStatus
    <3>3. QED
      BY <1>2, <2>1, <3>1, <3>2
  <2>2. CASE job[j].pack \notin PackIds
    <3>1. \A m \in PackIds : packs'[m] = packs[m]
      BY <1>0, <1>6, <2>2 DEF SetStatus
    <3>2. QED
      BY <1>0, <3>1 DEF RowsJudged
  <2>3. QED
    BY <2>1, <2>2
<1>7. QED
  BY <1>1, <1>3, <1>4, <1>5, <1>6
     DEF Enqueue, Step, Abandon, Die, Start, GetPack, Assemble, Generate, MarkGrounding, Verify,
         Regenerate, Reverify, Publish, SaveHistory, MarkFailed, PublishFailed

(* A step of one task leaves the await and the locals of the others alone. *)
LEMMA OtherLocals ==
    ASSUME TypeOK, NEW j \in Jobs, Enqueue(j) \/ Step(j) \/ Abandon(j) \/ Die(j), NEW k \in Jobs, k # j
    PROVE  pc'[k] = pc[k] /\ job'[k] = job[k]
<1> USE DEF Goto, Return
<1>0. job \in [Jobs -> Task] /\ pc \in [Jobs -> Awaits \cup {"absent", "queued", "done"}]
  BY DEF TypeOK
<1>1. CASE Enqueue(j) \/ Start(j) \/ GetPack(j)
  BY <1>0, <1>1 DEF Enqueue, Start, GetPack
<1>2. CASE Assemble(j)
  BY <1>0, <1>2 DEF Assemble
<1>3. CASE Save(j) \/ MarkGrounding(j) \/ SaveFinal(j) \/ Supersede(j) \/ MarkFailed(j)
  BY <1>0, <1>3 DEF Save, MarkGrounding, SaveFinal, Supersede, MarkFailed
<1>4. CASE Generate(j)
  BY <1>0, <1>4 DEF Generate
<1>5. CASE Verify(j)
  BY <1>0, <1>5 DEF Verify
<1>6. CASE Regenerate(j)
  BY <1>0, <1>6 DEF Regenerate, FlagOriginal
<1>7. CASE Reverify(j)
  BY <1>0, <1>7 DEF Reverify, FlagOriginal
<1>8. CASE Publish(j) \/ SaveHistory(j) \/ PublishFailed(j) \/ Abandon(j)
  BY <1>0, <1>8 DEF Publish, SaveHistory, PublishFailed, Abandon
<1>9. CASE Die(j)
  BY <1>0, <1>9 DEF Die
<1>10. QED
  BY <1>1, <1>2, <1>3, <1>4, <1>5, <1>6, <1>7, <1>8, <1>9 DEF Step

(* Whatever path regeneration took, a delivered pack flags only what its   *)
(* last verification found ungrounded, for any points, tasks and packs.    *)
THEOREM Flagging == Spec => []FlagsAreJudged
<1>1. Init => FlagsInv
  BY DEF Init, FlagsInv, RowsJudged, HoldsJudged, NoRow, NewTask, Delivered
<1>2. IInv /\ FlagsInv /\ [Next]_vars => FlagsInv'
  <2> SUFFICES ASSUME IInv, FlagsInv, [Next]_vars PROVE FlagsInv'
    OBVIOUS
  <2>1. ASSUME NEW j \in Jobs, Enqueue(j) \/ Step(j) \/ Abandon(j) \/ Die(j) PROVE FlagsInv'
    <3>1. HoldsJudged(j)' /\ RowsJudged'
      BY <2>1, HeldFlags, RowFlags DEF IInv
    <3>2. ASSUME NEW k \in Jobs, k # j PROVE pc'[k] = pc[k] /\ job'[k] = job[k]
      BY <2>1, <3>2, OtherLocals DEF IInv
    <3>3. ASSUME NEW k \in Jobs, k # j PROVE HoldsJudged(k)'
      BY <3>2, <3>3 DEF FlagsInv, HoldsJudged
    <3>4. QED
      BY <3>1, <3>3 DEF FlagsInv
  <2>2. CASE UNCHANGED vars
    BY <2>2 DEF vars, FlagsInv, RowsJudged, HoldsJudged
  <2>3. QED
    BY <2>1, <2>2 DEF Next
<1>3. FlagsInv => FlagsAreJudged
  BY DEF FlagsInv, RowsJudged, FlagsAreJudged, Saved
<1>4. QED
  BY <1>1, <1>2, <1>3, Inductive, PTL DEF Spec
=============================================================================

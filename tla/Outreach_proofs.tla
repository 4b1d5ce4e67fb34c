--------------------------- MODULE Outreach_proofs ----------------------------
(***************************************************************************)
(* What stands behind an outgoing message, for any materials, rules, steps,*)
(* operations, answers and schedules: validation stands between a job and  *)
(* its channel (SendHolds), a sequence delivers its steps once and no further*)
(* than a reply allows, slips excepted (SequenceHolds), and reviews hand on*)
(* what they say they hand on (ReviewHolds).  The three share no variable and*)
(* no definition; each has its own inductive invariant.                    *)
(***************************************************************************)
EXTENDS OutboundSend, LemlistSequence, ReviewCycle, Selection_proofs, FiniteSetTheorems,
        SequenceTheorems

-----------------------------------------------------------------------------
\* The rules: the verdict of a job is a function of its material.

Verdict(j) == BlockingFailures(SyncResults(j))

(* The links are warnings: they never change a verdict.                    *)
LEMMA LinksNeverBlock ==
  ASSUME NEW j, NEW alive, NEW results
  PROVE  BlockingFailures(results \cup LinkResults(j, alive)) = BlockingFailures(results)
<1>1. \A r \in LinkResults(j, alive) : r.severity = "warning"
  BY DEF LinkResults
<1> QED
  BY <1>1 DEF BlockingFailures

(* Only the synchronous rules decide.                                      *)
LEMMA VerdictIsOfRules == ASSUME NEW j PROVE Verdict(j) \subseteq SyncRules
<1>1. \A r \in SyncResults(j) : r.rule \in SyncRules
  BY DEF SyncResults
<1> QED
  BY <1>1 DEF Verdict, BlockingFailures

(* What a technique forbids the validator finds.                           *)
LEMMA ForbiddenIsFound ==
  ASSUME NEW j, Forbidden(j)
  PROVE  Verdict(j) # {}
<1>1. PICK c \in RulesFor(j) : c.rule \in SyncRules /\ SeverityOf(c) = "blocking" /\ ~ Passes(c, MaterialOf[j])
  BY DEF Forbidden
<1> DEFINE r == [rule |-> c.rule, severity |-> SeverityOf(c), passed |-> Passes(c, MaterialOf[j])]
<1>2. r \in SyncResults(j)
  BY <1>1 DEF SyncResults
<1>3. ~ r.passed /\ r.severity = "blocking"
  BY <1>1
<1>4. c.rule \in Verdict(j)
  BY <1>2, <1>3 DEF Verdict, BlockingFailures
<1> QED
  BY <1>4

-----------------------------------------------------------------------------
\* The inductive invariant.

Report(j) == [job |-> j, failed |-> Verdict(j)]

Found == {{}} \cup {SyncResults(j) : j \in Jobs} \cup {SyncResults(j) \cup LinkResults(j, a) : j \in Jobs, a \in BOOLEAN}

Runs == [pc : {"queued", "links", "saving", "blocking", "sending", "done"}, results : Found,
         failed : SUBSET (SyncRules \cup AsyncRules), result : Results]

SendTypes ==
    /\ send \in [Jobs -> Runs]
    /\ gate \subseteq Jobs
    /\ delivered \in [Jobs -> Nat]
    /\ stops \in [Jobs -> Nat]

(* Where a run is says what it has found; its verdict is that of every     *)
(* other run of the job.                                                   *)
RunInv(j) ==
    /\ send[j].pc = "links" => send[j].results = SyncResults(j)
    /\ send[j].pc \in {"saving", "blocking", "sending"} => send[j].failed = Verdict(j)
    /\ send[j].pc = "sending" => Verdict(j) = {} /\ Report(j) \in reports
    /\ send[j].pc = "blocking" => Verdict(j) # {}
    /\ send[j].pc # "done" => send[j].result = "none" /\ delivered[j] <= stops[j]

(* What a job has come to.                                                 *)
OutcomeInv(j) ==
    /\ delivered[j] > 0 \/ send[j].result \in {"sent", "enrolled"} => Verdict(j) = {} /\ Report(j) \in reports
    /\ send[j].result = "blocked" => Verdict(j) # {} /\ (j \in KnownRecord => j \in gate)
    /\ delivered[j] <= stops[j] + 1

SendInv ==
    /\ SendTypes
    /\ reports \subseteq {Report(j) : j \in Jobs}
    /\ \A j \in Jobs : RunInv(j) /\ OutcomeInv(j)

(* What a run may have found.                                              *)
LEMMA FoundHas ==
  /\ {} \in Found
  /\ \A j \in Jobs : SyncResults(j) \in Found
  /\ \A j \in Jobs, a \in BOOLEAN : SyncResults(j) \cup LinkResults(j, a) \in Found
  BY DEF Found

(* Initially every job is queued.                                          *)
LEMMA SendInitially == SendInit => SendInv
  BY DEF SendInit, SendInv, SendTypes, Runs, Found, NoRun, RunInv, OutcomeInv, Results

(* A step that changes the run of one job only, and keeps what was stored  *)
(* for the others.                                                         *)
Moved(j, r) ==
    /\ send' \in [Jobs -> Runs]
    /\ send'[j] = r
    /\ \A k \in Jobs \ {j} : send'[k] = send[k]

(* A step of one run that leaves the reports alone, but for what it adds.  *)
LEMMA OneRun ==
  ASSUME SendInv, NEW j \in Jobs, NEW r, Moved(j, r), reports \subseteq reports', gate \subseteq gate',
         reports' \subseteq {Report(k) : k \in Jobs}, gate' \subseteq Jobs,
         delivered' \in [Jobs -> Nat], stops' \in [Jobs -> Nat],
         \A k \in Jobs \ {j} : delivered'[k] = delivered[k] /\ stops'[k] = stops[k],
         RunInv(j)', OutcomeInv(j)'
  PROVE  SendInv'
<1>1. SendTypes'
  BY DEF SendTypes, Moved
<1>2. ASSUME NEW k \in Jobs PROVE RunInv(k)' /\ OutcomeInv(k)'
  <2>1. CASE k = j
    BY <2>1
  <2>2. CASE k # j
    BY <2>2 DEF SendInv, Moved, RunInv, OutcomeInv, Report
  <2> QED
    BY <2>1, <2>2
<1> QED
  BY <1>1, <1>2 DEF SendInv, Report

(* Each step of a job keeps the invariant.                                 *)
LEMMA SendStep == SendInv /\ [SendNext]_sendVars => SendInv'
<1> SUFFICES ASSUME SendInv, [SendNext]_sendVars PROVE SendInv'
  OBVIOUS
<1>0. ASSUME NEW j \in Jobs
      PROVE  /\ send \in [Jobs -> Runs] /\ send[j] \in Runs /\ RunInv(j) /\ OutcomeInv(j)
             /\ delivered \in [Jobs -> Nat] /\ stops \in [Jobs -> Nat] /\ gate \subseteq Jobs
             /\ reports \subseteq {Report(k) : k \in Jobs}
  BY DEF SendInv, SendTypes
<1>f. ASSUME NEW j \in Jobs, NEW result \in Results, Finish(j, result)
      PROVE  Moved(j, [send[j] EXCEPT !.pc = "done", !.result = result, !.results = {}])
<2> DEFINE r == [send[j] EXCEPT !.pc = "done", !.result = result, !.results = {}]
<2>1. r \in Runs
  BY <1>0, <1>f, FoundHas DEF Runs
<2>2. send' = [send EXCEPT ![j] = r]
  BY <1>f DEF Finish
<2> QED
  BY <1>0, <2>1, <2>2 DEF Moved
<1>1. ASSUME NEW j \in Jobs, BeginSend(j) PROVE SendInv'
  <2>1. CASE Finish(j, "error")
    <3> DEFINE r == [send[j] EXCEPT !.pc = "done", !.result = "error", !.results = {}]
    <3>1. Moved(j, r)
      BY <2>1, <1>f DEF Results
    <3>2. RunInv(j)' /\ OutcomeInv(j)'
      BY <1>0, <1>1, <3>1 DEF BeginSend, Moved, Runs, RunInv, OutcomeInv, Report
    <3> QED
      BY <1>0, <1>1, <3>1, <3>2, OneRun DEF BeginSend
  <2>2. CASE send' = [send EXCEPT ![j] = [@ EXCEPT !.pc = "links", !.results = SyncResults(j)]]
    <3> DEFINE r == [send[j] EXCEPT !.pc = "links", !.results = SyncResults(j)]
    <3>0. r \in Runs
      BY <1>0, FoundHas DEF Runs
    <3>1. Moved(j, r)
      BY <1>0, <2>2, <3>0 DEF Moved
    <3>2. RunInv(j)' /\ OutcomeInv(j)'
      BY <1>0, <1>1, <3>1 DEF BeginSend, Moved, Runs, RunInv, OutcomeInv, Report
    <3> QED
      BY <1>0, <1>1, <3>1, <3>2, OneRun DEF BeginSend
  <2> QED
    BY <1>1, <2>1, <2>2 DEF BeginSend
<1>2. ASSUME NEW j \in Jobs, CheckLinks(j) PROVE SendInv'
  <2>1. PICK alive \in BOOLEAN :
            LET results == send[j].results \cup LinkResults(j, alive) IN
            send' = [send EXCEPT ![j] = [@ EXCEPT !.pc = "saving", !.results = results,
                                                  !.failed = BlockingFailures(results)]]
    BY <1>2 DEF CheckLinks
  <2> DEFINE results == send[j].results \cup LinkResults(j, alive)
             r == [send[j] EXCEPT !.pc = "saving", !.results = results, !.failed = Verdict(j)]
  <2>2. results = SyncResults(j) \cup LinkResults(j, alive) /\ BlockingFailures(results) = Verdict(j)
    <3>1. send[j].results = SyncResults(j)
      BY <1>0, <1>2 DEF CheckLinks, RunInv
    <3>2. BlockingFailures(SyncResults(j) \cup LinkResults(j, alive)) = BlockingFailures(SyncResults(j))
      BY LinksNeverBlock
    <3> QED
      BY <3>1, <3>2 DEF Verdict
  <2>3. results \in Found /\ Verdict(j) \in SUBSET (SyncRules \cup AsyncRules)
    BY <2>2, VerdictIsOfRules, FoundHas
  <2>4. Moved(j, r)
    BY <1>0, <2>1, <2>2, <2>3 DEF Moved, Runs
  <2>5. RunInv(j)' /\ OutcomeInv(j)'
    BY <1>0, <1>2, <2>4 DEF CheckLinks, Moved, Runs, RunInv, OutcomeInv, Report
  <2> QED
    BY <1>0, <1>2, <2>4, <2>5, OneRun DEF CheckLinks
<1>3. ASSUME NEW j \in Jobs, SaveReport(j) PROVE SendInv'
  <2> DEFINE r == [send[j] EXCEPT !.pc = IF send[j].failed = {} THEN "sending" ELSE "blocking"]
  <2>1. Moved(j, r)
    BY <1>0, <1>3 DEF SaveReport, Moved, Runs
  <2>2. reports' = reports \cup {Report(j)}
    BY <1>0, <1>3 DEF SaveReport, RunInv, Report
  <2>3. RunInv(j)' /\ OutcomeInv(j)'
    BY <1>0, <1>3, <2>1, <2>2 DEF SaveReport, Moved, Runs, RunInv, OutcomeInv, Report
  <2> QED
    BY <1>0, <1>3, <2>1, <2>2, <2>3, OneRun DEF SaveReport
<1>4. ASSUME NEW j \in Jobs, Block(j) PROVE SendInv'
  <2> DEFINE r == [send[j] EXCEPT !.pc = "done", !.result = "blocked", !.results = {}]
  <2>1. Moved(j, r)
    BY <1>4, <1>f DEF Block, Results
  <2>2. RunInv(j)' /\ OutcomeInv(j)'
    BY <1>0, <1>4, <2>1 DEF Block, Moved, Runs, RunInv, OutcomeInv, Report
  <2> QED
    BY <1>0, <1>4, <2>1, <2>2, OneRun DEF Block
<1>5. ASSUME NEW j \in Jobs, PostMessage(j) PROVE SendInv'
  <2>1. PICK result \in {"sent", "raised"} : Finish(j, result)
    BY <1>5 DEF PostMessage
  <2> DEFINE r == [send[j] EXCEPT !.pc = "done", !.result = result, !.results = {}]
  <2>2. Moved(j, r)
    BY <2>1, <1>f DEF Results
  <2>3. delivered' \in [Jobs -> Nat] /\ delivered'[j] = delivered[j] + 1
        /\ \A k \in Jobs \ {j} : delivered'[k] = delivered[k]
    BY <1>0, <1>5 DEF PostMessage
  <2>4. RunInv(j)' /\ OutcomeInv(j)'
    BY <1>0, <1>5, <2>2, <2>3 DEF PostMessage, Moved, Runs, RunInv, OutcomeInv, Report
  <2> QED
    BY <1>0, <1>5, <2>2, <2>3, <2>4, OneRun DEF PostMessage
<1>6. ASSUME NEW j \in Jobs, Enroll(j) PROVE SendInv'
  <2>1. PICK result \in {"enrolled", "raised"} : Finish(j, result)
    BY <1>6 DEF Enroll
  <2> DEFINE r == [send[j] EXCEPT !.pc = "done", !.result = result, !.results = {}]
  <2>2. Moved(j, r)
    BY <2>1, <1>f DEF Results
  <2>3. RunInv(j)' /\ OutcomeInv(j)'
    BY <1>0, <1>6, <2>2 DEF Enroll, Moved, Runs, RunInv, OutcomeInv, Report
  <2> QED
    BY <1>0, <1>6, <2>2, <2>3, OneRun DEF Enroll
<1>7. ASSUME NEW j \in Jobs, Raise(j) PROVE SendInv'
  <2> DEFINE r == [send[j] EXCEPT !.pc = "done", !.result = "raised", !.results = {}]
  <2>1. Moved(j, r)
    BY <1>7, <1>f DEF Raise, Results
  <2>2. RunInv(j)' /\ OutcomeInv(j)'
    BY <1>0, <1>7, <2>1 DEF Raise, Moved, Runs, RunInv, OutcomeInv, Report
  <2> QED
    BY <1>0, <1>7, <2>1, <2>2, OneRun DEF Raise
<1>8. ASSUME NEW j \in Jobs, Stop(j) PROVE SendInv'
  <2>1. Moved(j, NoRun)
    BY <1>0, <1>8 DEF Stop, Moved, Runs, Found, NoRun, Results
  <2>2. stops' \in [Jobs -> Nat] /\ stops'[j] = stops[j] + 1 /\ \A k \in Jobs \ {j} : stops'[k] = stops[k]
    BY <1>0, <1>8 DEF Stop
  <2>3. /\ delivered' \in [Jobs -> Nat] /\ \A k \in Jobs \ {j} : delivered'[k] = delivered[k]
        /\ delivered'[j] = delivered[j] \/ (send[j].pc = "sending" /\ delivered'[j] = delivered[j] + 1)
    BY <1>0, <1>8 DEF Stop
  <2>4. RunInv(j)' /\ OutcomeInv(j)'
    BY <1>0, <1>8, <2>1, <2>2, <2>3 DEF Stop, Moved, NoRun, Runs, RunInv, OutcomeInv, Report
  <2> QED
    BY <1>0, <1>8, <2>1, <2>2, <2>3, <2>4, OneRun DEF Stop
<1>9. CASE UNCHANGED sendVars
  BY <1>9 DEF SendInv, SendTypes, RunInv, OutcomeInv, Report, sendVars
<1> QED
  BY <1>1, <1>2, <1>3, <1>4, <1>5, <1>6, <1>7, <1>8, <1>9 DEF SendNext

(* The invariant says what was promised.                                   *)
LEMMA SendImplies == SendInv => SendSafety
<1> SUFFICES ASSUME SendInv PROVE SendSafety
  OBVIOUS
<1>1. \A j \in Jobs : Verdict(j) \in SUBSET (SyncRules \cup AsyncRules)
  BY VerdictIsOfRules
<1>2. SendTypeOK
  BY <1>1 DEF SendInv, SendTypes, Runs, Report, SendTypeOK
<1>3. ForbiddenIsNeverDelivered
  <2> SUFFICES ASSUME NEW j \in Jobs, Forbidden(j)
               PROVE  delivered[j] = 0 /\ send[j].result \notin {"sent", "enrolled"}
    BY DEF ForbiddenIsNeverDelivered
  <2> QED
    BY ForbiddenIsFound DEF SendInv, SendTypes, OutcomeInv
<1>4. DeliveredWasReported
  BY DEF SendInv, OutcomeInv, Report, DeliveredWasReported
<1>5. VerdictIsStable
  BY DEF SendInv, Report, VerdictIsStable
<1>6. SecondSendNeedsAStop
  BY DEF SendInv, OutcomeInv, SecondSendNeedsAStop
<1>7. BlockedIsGated
  BY DEF SendInv, SendTypes, OutcomeInv, BlockedIsGated
<1> QED
  BY <1>2, <1>3, <1>4, <1>5, <1>6, <1>7 DEF SendSafety

(* Whatever the materials, the rules and the re-runs: nothing forbidden is *)
(* delivered, what is delivered has a report that passed it, and a job is  *)
(* delivered again only after a stop of its worker.                        *)
THEOREM SendHolds == SendSpec => []SendSafety
<1>1. SendSpec => []SendInv
  BY SendInitially, SendStep, PTL DEF SendSpec
<1> QED
  BY <1>1, SendImplies, PTL

-----------------------------------------------------------------------------
\* A sequence: the inductive invariant.

Enrollments == [status : {"absent", "active", "paused", "complete"}, step : Nat, count : Nat]
Events == [kind : Kinds, step : SequenceSteps]
Locals == [op : {"none", "enroll", "advance", "poll"},
           pc : {"idle", "save", "post", "touch", "complete", "event", "mark", "pause"},
           copy : Enrollments, steps : SUBSET SequenceSteps, stale : BOOLEAN, outcome : {"none", "sent", "failed"}, events : Seq(Events)]
Touched == {"none", "sent", "failed", "bounced", "opened", "clicked"}

SequenceTypes ==
    /\ enrollment \in Enrollments
    /\ touchpoint \in [SequenceSteps -> Touched]
    /\ task \in [EngineTasks -> Locals]
    /\ activities \in Seq(Events)
    /\ reached \in [SequenceSteps -> Nat]
    /\ slips \in Nat
    /\ promoted \in Variants \cup {"none"}

(* The step follows from the count, which stays within the maximum.        *)
Counted(row) == row.step = row.count + 1 /\ row.count <= MAX_FOLLOWUPS

(* An advance with a touchpoint before it works on an active enrollment;   *)
(* what an operation holds is the stored enrollment, unless it is known to *)
(* be outdated.                                                            *)
LocalsOK(l, row) ==
    /\ Counted(l.copy)
    /\ l.op = "enroll" => l.pc = "save" /\ l.copy = NewEnrollment
    /\ l.op = "advance" => /\ l.pc \in {"post", "touch", "save", "complete"} /\ l.copy.status = "active"
                           /\ l.pc # "complete" => l.copy.count < MAX_FOLLOWUPS /\ l.copy.step \in SequenceSteps
                           /\ l.pc \in {"touch", "save"} => l.outcome # "none"
    /\ l.op = "poll" => /\ l.pc \in {"event", "mark", "pause"} /\ l.events # <<>>
                        /\ l.pc = "mark" => Head(l.events).kind \notin Pauses
                        /\ l.pc = "pause" => l.copy.status = "active"
    /\ l.op = "none" <=> l.pc = "idle"
    /\ ~ l.stale =>
        /\ l.op = "enroll" => row = NotEnrolled
        /\ l.op = "advance" \/ l.pc = "pause" => l.copy = row

OutAt(s) == \E u \in EngineTasks : task[u].op = "advance" /\ task[u].pc \in {"touch", "save"} /\ task[u].copy.step = s

(* What has reached the prospect beyond the slips is behind the            *)
(* enrollment, but for a step that an advance is about to count.           *)
Behind == \A s \in SequenceSteps : s >= enrollment.step => reached[s] <= slips \/ OutAt(s)

(* An advance with the stored enrollment finds the steps from its own, or  *)
(* when its message is out those after it, delivered by slips only.        *)
AheadOK(l) ==
    l.op = "advance" /\ ~ l.stale =>
        /\ l.pc = "post" => \A s \in SequenceSteps : s >= l.copy.step => reached[s] <= slips
        /\ l.pc \in {"touch", "save"} => \A s \in SequenceSteps : s > l.copy.step => reached[s] <= slips

NotYet == \A t \in EngineTasks : AheadOK(task[t])

SequenceInv ==
    /\ SequenceTypes
    /\ Counted(enrollment)
    /\ enrollment.status = "absent" <=> enrollment = NotEnrolled
    /\ \A t \in EngineTasks : LocalsOK(task[t], enrollment)
    /\ StepDeliveredOnce /\ Behind /\ NotYet

-----------------------------------------------------------------------------
\* The locals of the operations.

(* Steps are counted from 1.                                               *)
LEMMA StepsAreNumbers == SequenceSteps \subseteq Nat \ {0} /\ \A steps \in Versions : steps \subseteq SequenceSteps
  BY SequenceAssumption DEF SequenceSteps

(* An operation that is not in progress, and the first enrollment.         *)
LEMMA NoTaskOK ==
    /\ NoTask \in Locals /\ NoTask.op = "none" /\ NoTask.pc = "idle"
    /\ (\A row : LocalsOK(NoTask, row)) /\ AheadOK(NoTask)
    /\ NewEnrollment \in Enrollments /\ NotEnrolled \in Enrollments
    /\ NewEnrollment.step = 1 /\ NotEnrolled.step = 1 /\ Counted(NewEnrollment) /\ Counted(NotEnrolled)
    /\ NewEnrollment.status = "active" /\ NotEnrolled.status = "absent"
<1>1. NewEnrollment = [status |-> "active", step |-> 1, count |-> 0]
      /\ NotEnrolled = [status |-> "absent", step |-> 1, count |-> 0]
  BY DEF NewEnrollment, NotEnrolled, EnrollmentRow
<1>2. /\ NewEnrollment \in Enrollments /\ NotEnrolled \in Enrollments
      /\ NewEnrollment.step = 1 /\ NotEnrolled.step = 1 /\ Counted(NewEnrollment) /\ Counted(NotEnrolled)
      /\ NewEnrollment.status = "active" /\ NotEnrolled.status = "absent"
  <2>1. 0 \in Nat /\ 1 \in Nat /\ 1 = 0 + 1 /\ 0 <= MAX_FOLLOWUPS
    BY SequenceAssumption
  <2>2. /\ NewEnrollment.status = "active" /\ NewEnrollment.step = 1 /\ NewEnrollment.count = 0
        /\ NotEnrolled.status = "absent" /\ NotEnrolled.step = 1 /\ NotEnrolled.count = 0
    BY <1>1
  <2>3. NewEnrollment \in Enrollments /\ NotEnrolled \in Enrollments
    BY <1>1 DEF Enrollments
  <2> QED
    BY <2>1, <2>2, <2>3 DEF Counted
<1>3. <<>> \in Seq(Events)
  OBVIOUS
<1>4. NoTask \in Locals /\ NoTask.op = "none" /\ NoTask.pc = "idle" /\ NoTask.copy = NotEnrolled
  BY <1>2, <1>3 DEF NoTask, Locals
<1> QED
  BY <1>2, <1>4 DEF LocalsOK, AheadOK

(* The locals of an operation when another one saves the enrollment.       *)
Outdated(l) == IF l.pc = "idle" THEN l ELSE [l EXCEPT !.stale = TRUE]

(* What an operation holds may become outdated.                            *)
LEMMA OutdatedOK ==
    ASSUME NEW l \in Locals, NEW row, LocalsOK(l, row), NEW row2
    PROVE  /\ Outdated(l) \in Locals /\ LocalsOK(Outdated(l), row2)
           /\ Outdated(l).op = l.op /\ Outdated(l).pc = l.pc /\ Outdated(l).copy = l.copy
           /\ Outdated(l).stale \/ l.pc = "idle"
<1>1. CASE l.pc = "idle"
  <2>1. Outdated(l) = l /\ l.op = "none"
    BY <1>1 DEF Outdated, LocalsOK
  <2> QED
    BY <1>1, <2>1 DEF LocalsOK
<1>2. CASE l.pc # "idle"
  <2> DEFINE k == Outdated(l)
  <2>1. k = [l EXCEPT !.stale = TRUE]
    BY <1>2 DEF Outdated
  <2> HIDE DEF k
  <2>2. /\ k \in Locals /\ k.op = l.op /\ k.pc = l.pc /\ k.copy = l.copy /\ k.stale = TRUE
        /\ k.outcome = l.outcome /\ k.events = l.events /\ k.steps = l.steps
    BY <2>1 DEF Locals
  <2> QED
    BY <2>2 DEF LocalsOK, k
<1> QED
  BY <1>1, <1>2

(* What a poll does next.                                                  *)
LEMMA NextEventOK ==
    ASSUME SequenceInv, NEW t \in EngineTasks, task[t].op = "poll"
    PROVE  /\ NextEvent(t) \in Locals /\ \A row : LocalsOK(NextEvent(t), row)
           /\ NextEvent(t).op # "advance"
<1> DEFINE ev == task[t].events
           rest == Tail(ev)
<1>1. ev \in Seq(Events) /\ ev # <<>>
  BY DEF SequenceInv, SequenceTypes, LocalsOK, Locals
<1>2. CASE Len(ev) = 1
  BY <1>2, NoTaskOK DEF NextEvent
<1>3. CASE Len(ev) # 1
  <2>1. rest \in Seq(Events) /\ rest # <<>>
    <3> HIDE DEF ev
    <3>1. Len(ev) \in Nat /\ Len(ev) # 0
      BY <1>1
    <3>2. rest \in Seq(Events) /\ Len(rest) = Len(ev) - 1
      BY <1>1
    <3>3. Len(rest) # 0
      BY <1>3, <3>1, <3>2
    <3> QED
      BY <3>2, <3>3
  <2> DEFINE k == NextEvent(t)
  <2>2. k = [NoTask EXCEPT !.op = "poll", !.pc = "event", !.events = rest]
    BY <1>3 DEF NextEvent
  <2> HIDE DEF k, rest
  <2>3. k \in Locals /\ k.op = "poll" /\ k.pc = "event" /\ k.events = rest /\ k.copy = NoTask.copy
    BY <2>1, <2>2, NoTaskOK DEF Locals
  <2> QED
    BY <2>1, <2>3, NoTaskOK DEF LocalsOK, k
<1> QED
  BY <1>2, <1>3

(* A save of the enrollment keeps the invariant: every other operation is  *)
(* outdated now.  A slip is one more that each step may be ahead; without  *)
(* one, the enrollment stays where it is or goes on by the step that is    *)
(* out.                                                                    *)
LEMMA SaveOK ==
    ASSUME SequenceInv, NEW t \in EngineTasks, NEW row \in Enrollments, NEW mine \in Locals, SaveRow(t, row, mine),
           UNCHANGED <<touchpoint, activities, reached, promoted>>,
           Counted(row), row.status # "absent", LocalsOK(mine, row),
           ~ task[t].stale =>
              \/ row.step = enrollment.step /\ mine.op # "advance"
                 /\ ~ (task[t].op = "advance" /\ task[t].pc \in {"touch", "save"})
              \/ /\ row.step = enrollment.step + 1 /\ (mine.op = "advance" => mine.copy = row)
                 /\ task[t].op = "advance" /\ task[t].pc \in {"touch", "save"}
                 /\ mine.op = "advance" => mine.pc \in {"post", "complete"}
    PROVE  SequenceInv'
<1>1. /\ enrollment' = row
      /\ slips' = IF task[t].stale THEN slips + 1 ELSE slips
      /\ task' = [u \in EngineTasks |-> IF u = t THEN mine ELSE Outdated(task[u])]
  BY DEF SaveRow, Outdate, Outdated, Slip
<1>2. /\ SequenceTypes /\ Counted(enrollment) /\ enrollment \in Enrollments
      /\ \A u \in EngineTasks : task[u] \in Locals /\ LocalsOK(task[u], enrollment)
      /\ StepDeliveredOnce /\ Behind /\ NotYet
      /\ slips \in Nat /\ reached \in [SequenceSteps -> Nat]
  BY DEF SequenceInv, SequenceTypes
<1>3. task'[t] = mine /\ \A u \in EngineTasks : u # t =>
         /\ task'[u] \in Locals /\ LocalsOK(task'[u], row)
         /\ task'[u].op = task[u].op /\ task'[u].pc = task[u].pc /\ task'[u].copy = task[u].copy
         /\ task'[u].stale \/ task'[u].pc = "idle"
  BY <1>1, <1>2, OutdatedOK
<1>4. SequenceTypes'
  <2>1. task' \in [EngineTasks -> Locals]
    BY <1>1, <1>3
  <2>2. slips' \in Nat
    BY <1>1, <1>2
  <2> QED
    BY <1>1, <1>2, <2>1, <2>2 DEF SequenceTypes
<1>5. \A u \in EngineTasks : LocalsOK(task'[u], row)
  BY <1>3
<1>6. row.step \in Nat /\ enrollment.step \in Nat /\ SequenceSteps \subseteq Nat
  BY <1>2, StepsAreNumbers DEF Enrollments
<1>7. \A u \in EngineTasks : u # t => task'[u].stale \/ task'[u].op = "none"
  BY <1>3 DEF LocalsOK
<1>8. CASE task[t].stale
  <2>1. \A s \in SequenceSteps : reached'[s] <= slips' /\ reached'[s] <= 1 + slips'
    BY <1>1, <1>2, <1>8 DEF StepDeliveredOnce
  <2> QED
    BY <1>1, <1>4, <1>5, <2>1, NoTaskOK DEF SequenceInv, StepDeliveredOnce, Behind, NotYet, AheadOK
<1>9. CASE ~ task[t].stale
  <2>1. slips' = slips /\ StepDeliveredOnce' /\ AheadOK(task[t])
    BY <1>1, <1>2, <1>9 DEF StepDeliveredOnce, NotYet
  <2>2. CASE /\ row.step = enrollment.step /\ mine.op # "advance"
             /\ ~ (task[t].op = "advance" /\ task[t].pc \in {"touch", "save"})
    <3>1. ASSUME NEW s \in SequenceSteps, OutAt(s) PROVE OutAt(s)'
      <4>1. PICK u \in EngineTasks : task[u].op = "advance" /\ task[u].pc \in {"touch", "save"} /\ task[u].copy.step = s
        BY <3>1 DEF OutAt
      <4>2. u # t
        BY <2>2, <4>1
      <4> QED
        BY <1>3, <4>1, <4>2 DEF OutAt
    <3>2. Behind'
      BY <1>1, <1>2, <2>1, <2>2, <3>1 DEF Behind
    <3>3. NotYet'
      BY <1>3, <1>7, <2>2 DEF NotYet, AheadOK
    <3> QED
      BY <1>1, <1>4, <1>5, <2>1, <3>2, <3>3, NoTaskOK DEF SequenceInv
  <2>3. CASE /\ row.step = enrollment.step + 1 /\ (mine.op = "advance" => mine.copy = row)
             /\ task[t].op = "advance" /\ task[t].pc \in {"touch", "save"}
             /\ mine.op = "advance" => mine.pc \in {"post", "complete"}
    <3>1. task[t].copy = enrollment
      BY <1>2, <1>9, <2>3 DEF LocalsOK
    <3>2. ASSUME NEW s \in SequenceSteps, s >= row.step PROVE reached[s] <= slips
      <4>1. s > enrollment.step
        BY <1>6, <2>3, <3>2
      <4> QED
        BY <1>9, <2>1, <2>3, <3>1, <4>1 DEF AheadOK
    <3>3. Behind'
      BY <1>1, <2>1, <3>2 DEF Behind
    <3>4. NotYet'
      <4>1. mine.op = "advance" => mine.copy.step = row.step /\ mine.pc \in {"post", "complete"}
        BY <2>3
      <4>2. AheadOK(mine)'
        BY <2>1, <3>2, <4>1 DEF AheadOK
      <4>3. ASSUME NEW u \in EngineTasks, u # t PROVE AheadOK(task[u])'
        BY <1>7, <4>3 DEF AheadOK
      <4>4. AheadOK(task[t])'
        BY <1>3, <4>2 DEF AheadOK
      <4> QED
        BY <4>3, <4>4 DEF NotYet
    <3> QED
      BY <1>1, <1>4, <1>5, <2>1, <3>3, <3>4, NoTaskOK DEF SequenceInv
  <2> QED
    BY <1>9, <2>2, <2>3
<1> QED
  BY <1>8, <1>9

(* A step of one operation that leaves the enrollment and what has reached *)
(* the prospect: it is a slip, or what is out stays out.                   *)
LEMMA OneOK ==
    ASSUME SequenceInv, NEW t \in EngineTasks, NEW mine \in Locals, task' = [task EXCEPT ![t] = mine],
           UNCHANGED <<enrollment, reached>>, LocalsOK(mine, enrollment),
           touchpoint' \in [SequenceSteps -> Touched], activities' \in Seq(Events), promoted' \in Variants \cup {"none"},
           slips' = slips \/ slips' = slips + 1,
           slips' = slips => AheadOK(mine),
           slips' = slips /\ task[t].op = "advance" /\ task[t].pc \in {"touch", "save"} =>
               mine.op = "advance" /\ mine.pc \in {"touch", "save"} /\ mine.copy = task[t].copy
    PROVE  SequenceInv'
<1>1. /\ SequenceTypes /\ Counted(enrollment) /\ enrollment \in Enrollments
      /\ \A u \in EngineTasks : task[u] \in Locals /\ LocalsOK(task[u], enrollment)
      /\ StepDeliveredOnce /\ Behind /\ NotYet
      /\ (enrollment.status = "absent" <=> enrollment = NotEnrolled)
      /\ slips \in Nat /\ reached \in [SequenceSteps -> Nat]
  BY DEF SequenceInv, SequenceTypes
<1>2. task'[t] = mine /\ \A u \in EngineTasks : u # t => task'[u] = task[u]
  BY <1>1 DEF SequenceTypes
<1>3. SequenceTypes'
  <2>1. task' \in [EngineTasks -> Locals] /\ slips' \in Nat
    BY <1>1 DEF SequenceTypes
  <2> QED
    BY <1>1, <2>1 DEF SequenceTypes
<1>4. StepDeliveredOnce' /\ Behind' /\ NotYet'
  <2>1. CASE slips' = slips
    <3>1. StepDeliveredOnce'
      BY <1>1, <2>1 DEF StepDeliveredOnce
    <3>2. ASSUME NEW s \in SequenceSteps, OutAt(s) PROVE OutAt(s)'
      <4>1. PICK u \in EngineTasks : task[u].op = "advance" /\ task[u].pc \in {"touch", "save"} /\ task[u].copy.step = s
        BY <3>2 DEF OutAt
      <4>2. task'[u].op = "advance" /\ task'[u].pc \in {"touch", "save"} /\ task'[u].copy.step = s
        BY <1>2, <2>1, <4>1
      <4> QED
        BY <4>2 DEF OutAt
    <3>3. Behind'
      BY <1>1, <2>1, <3>2 DEF Behind
    <3>4. NotYet'
      BY <1>1, <1>2, <2>1 DEF NotYet, AheadOK
    <3> QED
      BY <3>1, <3>3, <3>4
  <2>2. CASE slips' = slips + 1
    <3>1. \A s \in SequenceSteps : reached'[s] <= slips' /\ reached'[s] <= 1 + slips'
      BY <1>1, <2>2 DEF StepDeliveredOnce
    <3> QED
      BY <3>1 DEF StepDeliveredOnce, Behind, NotYet, AheadOK
  <2> QED
    BY <2>1, <2>2
<1>5. \A u \in EngineTasks : LocalsOK(task'[u], enrollment)
  BY <1>1, <1>2
<1> QED
  BY <1>1, <1>3, <1>4, <1>5 DEF SequenceInv

-----------------------------------------------------------------------------
\* The steps.

(* Facts of the invariant in one place.                                    *)
LEMMA Known ==
    ASSUME SequenceInv
    PROVE  /\ SequenceTypes /\ Counted(enrollment) /\ enrollment \in Enrollments
           /\ \A u \in EngineTasks : task[u] \in Locals /\ LocalsOK(task[u], enrollment) /\ task[u].copy \in Enrollments
           /\ StepDeliveredOnce /\ Behind /\ NotYet
           /\ slips \in Nat /\ reached \in [SequenceSteps -> Nat]
           /\ (enrollment.status = "absent" <=> enrollment = NotEnrolled)
  BY DEF SequenceInv, SequenceTypes, Locals

(* Enrolling reads the store.                                              *)
LEMMA LookUpStep == ASSUME SequenceInv, NEW t \in EngineTasks, LookUp(t) PROVE SequenceInv'
<1> DEFINE mine == [NoTask EXCEPT !.op = "enroll", !.pc = "save", !.copy = NewEnrollment]
<1>1. /\ mine \in Locals /\ mine.op = "enroll" /\ mine.pc = "save" /\ mine.copy = NewEnrollment
  BY NoTaskOK DEF Locals
<1>2. /\ task[t].pc = "idle" /\ enrollment = NotEnrolled /\ task' = [task EXCEPT ![t] = mine]
      /\ UNCHANGED <<enrollment, touchpoint, activities, reached, slips, sends, promoted>>
  BY DEF LookUp
<1> HIDE DEF mine
<1>3. LocalsOK(mine, enrollment) /\ AheadOK(mine)
  BY <1>1, <1>2, NoTaskOK DEF LocalsOK, AheadOK
<1> QED
  BY <1>1, <1>2, <1>3, OneOK, Known DEF SequenceTypes

(* Enrolling writes it.                                                    *)
LEMMA SaveEnrollmentStep == ASSUME SequenceInv, NEW t \in EngineTasks, SaveEnrollment(t) PROVE SequenceInv'
<1> DEFINE row == task[t].copy
<1>1. /\ task[t].op = "enroll" /\ SaveRow(t, row, NoTask)
      /\ UNCHANGED <<touchpoint, activities, reached, promoted>>
  BY DEF SaveEnrollment
<1>2. row = NewEnrollment /\ (~ task[t].stale => enrollment = NotEnrolled)
  BY <1>1, Known DEF LocalsOK
<1> HIDE DEF row
<1> QED
  BY <1>1, <1>2, NoTaskOK, SaveOK

(* An advance takes its copy of the enrollment.                            *)
LEMMA LoadEnrollmentStep == ASSUME SequenceInv, NEW t \in EngineTasks, LoadEnrollment(t) PROVE SequenceInv'
<1> DEFINE out == MessageOut
<1>0. PICK steps \in Versions :
         /\ NextPc(enrollment, steps) # "idle"
         /\ task' = [task EXCEPT ![t] = [NoTask EXCEPT !.op = "advance", !.pc = NextPc(enrollment, steps),
                                                       !.copy = enrollment, !.steps = steps, !.stale = out]]
  BY DEF LoadEnrollment
<1> DEFINE next == NextPc(enrollment, steps)
           mine == [NoTask EXCEPT !.op = "advance", !.pc = next, !.copy = enrollment, !.steps = steps, !.stale = out]
<1>1. /\ task[t].pc = "idle" /\ next # "idle" /\ task' = [task EXCEPT ![t] = mine]
      /\ out \in BOOLEAN /\ steps \subseteq SequenceSteps
      /\ UNCHANGED <<enrollment, touchpoint, activities, reached, slips, sends, promoted>>
  <2>1. out \in BOOLEAN
    BY DEF MessageOut
  <2>2. steps \subseteq SequenceSteps
    BY StepsAreNumbers
  <2> HIDE DEF out
  <2> QED
    BY <1>0, <2>1, <2>2 DEF LoadEnrollment
<1>2. /\ next \in {"complete", "post"} /\ enrollment.status = "active"
      /\ next = "post" => ~ (enrollment.count >= MAX_FOLLOWUPS) /\ enrollment.step \in steps
  BY <1>1 DEF NextPc, SequenceOver
<1>3. enrollment.count \in Nat /\ MAX_FOLLOWUPS \in Nat /\ enrollment.step \in Nat
  BY Known, SequenceAssumption DEF Enrollments
<1>4. next = "post" => enrollment.count < MAX_FOLLOWUPS /\ enrollment.step \in SequenceSteps
  BY <1>1, <1>2, <1>3
<1> HIDE DEF next
<1>5. ASSUME ~ out, NEW s \in SequenceSteps, s >= enrollment.step PROVE reached[s] <= slips
  <2>1. Behind /\ ~ OutAt(s)
    BY <1>5, Known DEF OutAt, MessageOut
  <2> QED
    BY <1>5, <2>1 DEF Behind
<1> HIDE DEF out
<1>6. /\ mine \in Locals /\ mine.op = "advance" /\ mine.pc = next /\ mine.copy = enrollment /\ mine.stale = out
  BY <1>1, <1>2, Known, NoTaskOK DEF Locals
<1> HIDE DEF mine
<1>7. LocalsOK(mine, enrollment)
  BY <1>2, <1>4, <1>6, Known DEF LocalsOK
<1>8. AheadOK(mine)
  BY <1>2, <1>5, <1>6 DEF AheadOK
<1> QED
  BY <1>1, <1>2, <1>6, <1>7, <1>8, OneOK, Known DEF SequenceTypes

(* After the last step the enrollment is complete.                         *)
LEMMA CompleteSequenceStep == ASSUME SequenceInv, NEW t \in EngineTasks, CompleteSequence(t) PROVE SequenceInv'
<1> DEFINE row == [task[t].copy EXCEPT !.status = "complete"]
<1>1. /\ task[t].pc = "complete" /\ SaveRow(t, row, NoTask)
      /\ UNCHANGED <<touchpoint, activities, reached, promoted>>
  BY DEF CompleteSequence
<1>2. /\ task[t].op = "advance" /\ Counted(task[t].copy) /\ task[t].copy \in Enrollments
      /\ ~ task[t].stale => task[t].copy = enrollment
  BY <1>1, Known DEF LocalsOK, Locals
<1>3. row \in Enrollments /\ row.status = "complete" /\ Counted(row) /\ row.step = task[t].copy.step
  BY <1>2 DEF Enrollments, Counted
<1> HIDE DEF row
<1> QED
  BY <1>1, <1>2, <1>3, NoTaskOK, SaveOK

(* An advance notes what it delivered.                                     *)
LEMMA SaveTouchpointStep == ASSUME SequenceInv, NEW t \in EngineTasks, SaveTouchpoint(t) PROVE SequenceInv'
<1> DEFINE l == task[t]
           mine == [l EXCEPT !.pc = "save"]
<1>1. /\ l.pc = "touch" /\ touchpoint' = [touchpoint EXCEPT ![l.copy.step] = l.outcome]
      /\ task' = [task EXCEPT ![t] = mine]
      /\ UNCHANGED <<enrollment, activities, reached, slips, sends, promoted>>
  BY DEF SaveTouchpoint
<1>2. /\ l \in Locals /\ LocalsOK(l, enrollment) /\ l.op = "advance" /\ l.outcome \in {"sent", "failed"}
      /\ AheadOK(l)
  BY <1>1, Known DEF LocalsOK, Locals, NotYet
<1>3. touchpoint' \in [SequenceSteps -> Touched]
  BY <1>1, <1>2, Known DEF SequenceTypes, Touched
<1> HIDE DEF l
<1>4. /\ mine \in Locals /\ mine.pc = "save" /\ mine.op = l.op /\ mine.copy = l.copy /\ mine.stale = l.stale
      /\ mine.outcome = l.outcome /\ mine.events = l.events
  BY <1>2 DEF Locals
<1> HIDE DEF mine
<1>5. LocalsOK(mine, enrollment) /\ AheadOK(mine)
  BY <1>1, <1>2, <1>4 DEF LocalsOK, AheadOK
<1> QED
  BY <1>1, <1>2, <1>3, <1>4, <1>5, OneOK, Known DEF SequenceTypes, l

(* And counts it.                                                          *)
LEMMA SaveAdvanceStep == ASSUME SequenceInv, NEW t \in EngineTasks, SaveAdvance(t) PROVE SequenceInv'
<1> DEFINE l == task[t]
           row == [l.copy EXCEPT !.step = @ + 1, !.count = @ + 1]
           next == NextPc(row, l.steps)
           on == [l EXCEPT !.copy = row, !.pc = next, !.outcome = "none"]
           mine == IF l.outcome = "sent" THEN NoTask ELSE IF next = "idle" THEN NoTask ELSE on
<1>1. /\ l.op = "advance" /\ l.pc = "save" /\ SaveRow(t, row, mine)
      /\ UNCHANGED <<touchpoint, activities, reached, promoted>>
  BY DEF SaveAdvance
<1>2. /\ l \in Locals /\ LocalsOK(l, enrollment) /\ l.copy \in Enrollments
      /\ l.copy.status = "active" /\ l.copy.count < MAX_FOLLOWUPS /\ Counted(l.copy)
      /\ ~ l.stale => l.copy = enrollment
  BY <1>1, Known DEF LocalsOK
<1>3. l.copy.step \in Nat /\ l.copy.count \in Nat /\ MAX_FOLLOWUPS \in Nat
  BY <1>2, SequenceAssumption DEF Enrollments
<1> HIDE DEF l
<1>4. /\ row \in Enrollments /\ row.status = "active" /\ row.step = l.copy.step + 1 /\ row.count = l.copy.count + 1
  <2> DEFINE c == l.copy
             step == c.step + 1
             count == c.count + 1
  <2>1. row = [c EXCEPT !.step = step, !.count = count] /\ step \in Nat /\ count \in Nat
    BY <1>3
  <2> HIDE DEF c, step, count, row
  <2>2. c \in Enrollments /\ c.status = "active"
    BY <1>2 DEF c
  <2>3. row \in Enrollments /\ row.status = "active" /\ row.step = step /\ row.count = count
    BY <2>1, <2>2 DEF Enrollments
  <2> QED
    BY <2>3 DEF step, count, c
<1> HIDE DEF row
<1>5. Counted(row) /\ row.count \in Nat
  BY <1>2, <1>3, <1>4 DEF Counted
<1>6. /\ next \in {"complete", "post", "idle"}
      /\ next = "post" => row.count < MAX_FOLLOWUPS /\ row.step \in SequenceSteps
  <2>1. l.steps \subseteq SequenceSteps
    BY <1>2 DEF Locals
  <2> QED
    BY <1>3, <1>4, <1>5, <2>1 DEF NextPc, SequenceOver
<1> HIDE DEF next
<1>7. /\ on \in Locals /\ on.op = "advance" /\ on.pc = next /\ on.copy = row /\ on.stale = l.stale
  BY <1>1, <1>2, <1>4, <1>6 DEF Locals
<1>8. next # "idle" => LocalsOK(on, row)
  BY <1>4, <1>5, <1>6, <1>7 DEF LocalsOK
<1> HIDE DEF on
<1>9. /\ mine \in Locals /\ LocalsOK(mine, row)
      /\ mine.op = "advance" => mine.copy = row /\ mine.pc \in {"post", "complete"}
  BY <1>6, <1>7, <1>8, NoTaskOK
<1> HIDE DEF mine
<1>10. ~ l.stale => /\ row.step = enrollment.step + 1 /\ (mine.op = "advance" => mine.copy = row)
                    /\ l.op = "advance" /\ l.pc \in {"touch", "save"}
                    /\ mine.op = "advance" => mine.pc \in {"post", "complete"}
  BY <1>1, <1>2, <1>4, <1>9
<1>11. row.status # "absent" /\ row \in Enrollments
  BY <1>4
<1> QED
  BY <1>1, <1>5, <1>9, <1>10, <1>11, SaveOK DEF l

(* A poll takes what Lemlist answers.                                      *)
LEMMA PollStep == ASSUME SequenceInv, NEW t \in EngineTasks, Poll(t) PROVE SequenceInv'
<1> DEFINE mine == [NoTask EXCEPT !.op = "poll", !.pc = "event", !.events = activities]
<1>1. /\ task[t].pc = "idle" /\ activities # <<>> /\ task' = [task EXCEPT ![t] = mine]
      /\ UNCHANGED <<enrollment, touchpoint, activities, reached, slips, sends, promoted>>
  BY DEF Poll
<1>2. /\ mine \in Locals /\ mine.op = "poll" /\ mine.pc = "event" /\ mine.copy = NotEnrolled /\ mine.events = activities
  <2>1. NoTask.copy = NotEnrolled
    BY DEF NoTask
  <2> QED
    BY <2>1, NoTaskOK, Known DEF Locals, SequenceTypes
<1> HIDE DEF mine
<1>3. LocalsOK(mine, enrollment) /\ AheadOK(mine)
  BY <1>1, <1>2, NoTaskOK DEF LocalsOK, AheadOK
<1> QED
  BY <1>1, <1>2, <1>3, OneOK, Known DEF SequenceTypes

(* It looks at one response after another.                                 *)
LEMMA ProcessEventStep == ASSUME SequenceInv, NEW t \in EngineTasks, ProcessEvent(t) PROVE SequenceInv'
<1> DEFINE l == task[t]
           event == Head(l.events)
           pausing == [l EXCEPT !.pc = "pause", !.copy = enrollment, !.stale = FALSE]
           marking == [l EXCEPT !.pc = "mark"]
<1>1. /\ l.pc = "event"
      /\ \/ enrollment.status = "active" /\ task' = [task EXCEPT ![t] = pausing]
         \/ event.kind \notin Pauses /\ task' = [task EXCEPT ![t] = marking]
         \/ task' = [task EXCEPT ![t] = NextEvent(t)]
      /\ UNCHANGED <<enrollment, touchpoint, activities, reached, slips, sends, promoted>>
  BY DEF ProcessEvent
<1>2. /\ l \in Locals /\ LocalsOK(l, enrollment) /\ l.op = "poll" /\ l.events \in Seq(Events) /\ l.events # <<>>
  BY <1>1, Known DEF LocalsOK, Locals
<1>3. NextEvent(t) \in Locals /\ LocalsOK(NextEvent(t), enrollment) /\ NextEvent(t).op # "advance"
  BY <1>2, NextEventOK
<1>4. /\ touchpoint' \in [SequenceSteps -> Touched] /\ activities' \in Seq(Events) /\ promoted' \in Variants \cup {"none"}
      /\ task[t].op # "advance"
  BY <1>1, <1>2, Known DEF SequenceTypes
<1> HIDE DEF l, event
<1>5. CASE enrollment.status = "active" /\ task' = [task EXCEPT ![t] = pausing]
  <2>1. /\ pausing \in Locals /\ pausing.op = "poll" /\ pausing.pc = "pause" /\ pausing.copy = enrollment
        /\ pausing.events = l.events
    BY <1>2, Known DEF Locals
  <2> HIDE DEF pausing
  <2>2. LocalsOK(pausing, enrollment) /\ AheadOK(pausing)
    BY <1>2, <1>5, <2>1, Known DEF LocalsOK, AheadOK
  <2> QED
    BY <1>1, <1>4, <1>5, <2>1, <2>2, OneOK
<1>6. CASE event.kind \notin Pauses /\ task' = [task EXCEPT ![t] = marking]
  <2>1. /\ marking \in Locals /\ marking.op = "poll" /\ marking.pc = "mark" /\ marking.copy = l.copy
        /\ marking.events = l.events
    BY <1>2 DEF Locals
  <2>2. Head(marking.events).kind \notin Pauses
    BY <1>6, <2>1 DEF event
  <2> HIDE DEF marking
  <2>3. LocalsOK(marking, enrollment) /\ AheadOK(marking)
    BY <1>2, <2>1, <2>2 DEF LocalsOK, AheadOK
  <2> QED
    BY <1>1, <1>4, <1>6, <2>1, <2>3, OneOK
<1>7. CASE task' = [task EXCEPT ![t] = NextEvent(t)]
  <2>1. AheadOK(NextEvent(t))
    BY <1>3 DEF AheadOK
  <2> QED
    BY <1>1, <1>3, <1>4, <1>7, <2>1, OneOK
<1> QED
  BY <1>1, <1>5, <1>6, <1>7

(* And marks the touchpoint of all but those that pause.                   *)
LEMMA MarkTouchpointStep == ASSUME SequenceInv, NEW t \in EngineTasks, MarkTouchpoint(t) PROVE SequenceInv'
<1> DEFINE l == task[t]
           event == Head(l.events)
           shown == ShownAs[event.kind]
<1>1. /\ l.pc = "mark" /\ task' = [task EXCEPT ![t] = NextEvent(t)]
      /\ touchpoint' = [touchpoint EXCEPT ![event.step] = shown]
      /\ UNCHANGED <<enrollment, activities, reached, slips, sends, promoted>>
  BY DEF MarkTouchpoint
<1>2. /\ l.op = "poll" /\ l.events \in Seq(Events) /\ l.events # <<>> /\ event.kind \notin Pauses
  BY <1>1, Known DEF LocalsOK, Locals
<1>3. event \in Events
  BY <1>2
<1>4. NextEvent(t) \in Locals /\ LocalsOK(NextEvent(t), enrollment) /\ NextEvent(t).op # "advance"
  BY <1>2, NextEventOK
<1>5. AheadOK(NextEvent(t)) /\ task[t].op # "advance"
  BY <1>2, <1>4 DEF AheadOK
<1> HIDE DEF l, event
<1>6. shown \in Touched /\ event.step \in SequenceSteps
  <2>1. event.kind \in {"bounce", "open", "click"} /\ event.step \in SequenceSteps
    BY <1>2, <1>3, SequenceAssumption DEF Events, Pauses
  <2> QED
    BY <2>1 DEF ShownAs, Touched
<1> HIDE DEF shown
<1>7. /\ touchpoint' \in [SequenceSteps -> Touched] /\ activities' \in Seq(Events) /\ promoted' \in Variants \cup {"none"}
  BY <1>1, <1>6, Known DEF SequenceTypes
<1> QED
  BY <1>1, <1>4, <1>5, <1>7, OneOK

(* A reply pauses the enrollment.                                          *)
LEMMA PauseProspectStep == ASSUME SequenceInv, NEW t \in EngineTasks, PauseProspect(t) PROVE SequenceInv'
<1> DEFINE row == [task[t].copy EXCEPT !.status = "paused"]
<1>1. /\ task[t].pc = "pause" /\ SaveRow(t, row, NextEvent(t))
      /\ UNCHANGED <<touchpoint, activities, reached, promoted>>
  BY DEF PauseProspect
<1>2. /\ task[t].op = "poll" /\ Counted(task[t].copy) /\ task[t].copy \in Enrollments
      /\ ~ task[t].stale => task[t].copy = enrollment
  <2>1. task[t] \in Locals /\ LocalsOK(task[t], enrollment)
    BY Known
  <2> HIDE DEF row
  <2> QED
    BY <1>1, <2>1 DEF LocalsOK, Locals
<1>3. row \in Enrollments /\ row.status = "paused" /\ Counted(row) /\ row.step = task[t].copy.step
  BY <1>2 DEF Enrollments, Counted
<1>4. NextEvent(t) \in Locals /\ LocalsOK(NextEvent(t), row) /\ NextEvent(t).op # "advance"
  BY <1>2, NextEventOK
<1> HIDE DEF row
<1> QED
  BY <1>1, <1>2, <1>3, <1>4, SaveOK

(* An operation may end before its next write: a slip, if its message is   *)
(* out.                                                                    *)
LEMMA CutShortStep == ASSUME SequenceInv, NEW t \in EngineTasks, CutShort(t) PROVE SequenceInv'
<1> DEFINE out == task[t].op = "advance" /\ task[t].pc \in {"touch", "save"}
<1>1. /\ task' = [task EXCEPT ![t] = NoTask] /\ slips' = IF out THEN slips + 1 ELSE slips
      /\ UNCHANGED <<enrollment, touchpoint, activities, reached, sends, promoted>>
  BY DEF CutShort, Slip
<1>2. slips' = slips => ~ out
  BY <1>1, Known
<1>3. slips' = slips \/ slips' = slips + 1
  BY <1>1
<1> QED
  BY <1>1, <1>2, <1>3, NoTaskOK, OneOK, Known DEF SequenceTypes

(* A step is delivered.                                                    *)
LEMMA PostTouchpointStep == ASSUME SequenceInv, NEW t \in EngineTasks, PostTouchpoint(t) PROVE SequenceInv'
<1> DEFINE l == task[t]
           step == l.copy.step
           refused == [l EXCEPT !.pc = "touch", !.outcome = "failed"]
<1>1. /\ l.pc = "post" /\ UNCHANGED <<enrollment, touchpoint, activities, promoted>>
      /\ \/ /\ reached' = [reached EXCEPT ![step] = @ + 1]
            /\ slips' = IF l.stale THEN slips + 1 ELSE slips
            /\ \E outcome \in {"sent", "failed"} :
                  task' = Outdate(t, [l EXCEPT !.pc = "touch", !.outcome = outcome])
         \/ /\ task' = [task EXCEPT ![t] = refused] /\ UNCHANGED <<reached, slips>>
  <2>1. task' = [task EXCEPT ![t] = [@ EXCEPT !.pc = "touch", !.outcome = "failed"]] => task' = [task EXCEPT ![t] = refused]
    OBVIOUS
  <2> QED
    BY <2>1 DEF PostTouchpoint, Slip
<1>2. /\ l \in Locals /\ LocalsOK(l, enrollment) /\ l.op = "advance" /\ l.copy.status = "active"
      /\ l.copy.count < MAX_FOLLOWUPS /\ step \in SequenceSteps /\ Counted(l.copy)
      /\ ~ l.stale => l.copy = enrollment /\ \A s \in SequenceSteps : s >= step => reached[s] <= slips
  <2>1. l \in Locals /\ LocalsOK(l, enrollment) /\ AheadOK(l)
    BY Known DEF NotYet
  <2> HIDE DEF l
  <2> QED
    BY <1>1, <2>1 DEF LocalsOK, Locals, AheadOK
<1>3. ASSUME NEW outcome \in {"sent", "failed"}, NEW mine, mine = [l EXCEPT !.pc = "touch", !.outcome = outcome]
      PROVE  /\ mine \in Locals /\ mine.op = "advance" /\ mine.pc = "touch" /\ mine.copy = l.copy /\ mine.stale = l.stale
             /\ LocalsOK(mine, enrollment)
  <2> HIDE DEF l
  <2>1. /\ mine \in Locals /\ mine.op = "advance" /\ mine.pc = "touch" /\ mine.copy = l.copy /\ mine.stale = l.stale
        /\ mine.outcome = outcome
    BY <1>2, <1>3 DEF Locals
  <2> QED
    BY <1>2, <2>1 DEF LocalsOK
<1>4. CASE task' = [task EXCEPT ![t] = refused] /\ UNCHANGED <<reached, slips>>
  <2>1. refused \in Locals /\ refused.op = "advance" /\ refused.pc = "touch" /\ LocalsOK(refused, enrollment)
    BY <1>3
  <2>2. task[t].pc = "post"
    BY <1>1
  <2>3. AheadOK(refused)
    <3>1. refused.copy = l.copy /\ refused.stale = l.stale
      BY <1>3
    <3>2. step \in Nat /\ SequenceSteps \subseteq Nat
      BY <1>2, StepsAreNumbers
    <3>3. ~ l.stale => \A s \in SequenceSteps : s > step => reached[s] <= slips
      BY <1>2, <3>2
    <3> HIDE DEF refused, l
    <3> QED
      BY <2>1, <3>1, <3>3 DEF AheadOK
  <2> HIDE DEF refused
  <2> QED
    BY <1>1, <1>4, <2>1, <2>2, <2>3, OneOK, Known DEF SequenceTypes
<1>5. ASSUME NEW outcome \in {"sent", "failed"}, reached' = [reached EXCEPT ![step] = @ + 1],
             slips' = IF l.stale THEN slips + 1 ELSE slips,
             task' = Outdate(t, [l EXCEPT !.pc = "touch", !.outcome = outcome])
      PROVE  SequenceInv'
  <2> DEFINE mine == [l EXCEPT !.pc = "touch", !.outcome = outcome]
  <2>1. /\ mine \in Locals /\ mine.op = "advance" /\ mine.pc = "touch" /\ mine.copy = l.copy /\ mine.stale = l.stale
        /\ LocalsOK(mine, enrollment)
    BY <1>3
  <2>2. task' = [u \in EngineTasks |-> IF u = t THEN mine ELSE Outdated(task[u])]
    BY <1>5 DEF Outdate, Outdated
  <2> HIDE DEF mine
  <2>3. task'[t] = mine /\ \A u \in EngineTasks : u # t =>
           /\ task'[u] \in Locals /\ LocalsOK(task'[u], enrollment)
           /\ task'[u].op = task[u].op /\ task'[u].pc = task[u].pc /\ task'[u].copy = task[u].copy
           /\ task'[u].stale \/ task'[u].pc = "idle"
    BY <2>2, Known, OutdatedOK
  <2>4. task' \in [EngineTasks -> Locals]
    BY <2>1, <2>2, <2>3
  <2> HIDE DEF l, step
  <2>5. reached \in [SequenceSteps -> Nat] /\ slips \in Nat /\ SequenceSteps \subseteq Nat /\ StepDeliveredOnce
    BY Known, StepsAreNumbers
  <2>6. /\ reached' \in [SequenceSteps -> Nat] /\ reached'[step] = reached[step] + 1
        /\ \A s \in SequenceSteps : s # step => reached'[s] = reached[s]
        /\ \A s \in SequenceSteps : reached[s] \in Nat /\ reached[s] <= 1 + slips
    BY <1>2, <1>5, <2>5 DEF StepDeliveredOnce
  <2>7. SequenceTypes'
    BY <1>1, <1>2, <1>5, <2>4, <2>5, <2>6, Known DEF SequenceTypes, Locals
  <2>8. \A u \in EngineTasks : LocalsOK(task'[u], enrollment)
    BY <2>1, <2>3
  <2>9. \A u \in EngineTasks : u # t => AheadOK(task[u])'
    <3>1. \A u \in EngineTasks : u # t => task'[u].stale \/ task'[u].op = "none"
      BY <2>3 DEF LocalsOK
    <3> QED
      BY <3>1 DEF AheadOK
  <2>10. ASSUME NEW s \in SequenceSteps, s = step PROVE OutAt(s)'
    BY <2>1, <2>3, <2>10 DEF OutAt, step
  <2>11. CASE l.stale
    <3>1. slips' = slips + 1
      BY <1>5, <2>11
    <3>2. ASSUME NEW s \in SequenceSteps PROVE reached'[s] <= 1 + slips' /\ (s # step => reached'[s] <= slips')
      <4>1. reached[s] \in Nat /\ reached[s] <= 1 + slips /\ slips \in Nat
        BY <2>5, <2>6
      <4>2. reached'[s] = IF s = step THEN reached[s] + 1 ELSE reached[s]
        BY <2>6
      <4> QED
        BY <3>1, <4>1, <4>2
    <3>3. StepDeliveredOnce'
      BY <3>2 DEF StepDeliveredOnce
    <3>4. Behind'
      BY <2>10, <3>2 DEF Behind
    <3>5. AheadOK(task[t])'
      BY <2>1, <2>3, <2>11 DEF AheadOK
    <3>6. NotYet'
      BY <2>9, <3>5 DEF NotYet
    <3> QED
      BY <1>1, <2>7, <2>8, <3>3, <3>4, <3>6, Known DEF SequenceInv
  <2>12. CASE ~ l.stale
    <3>1. slips' = slips /\ \A s \in SequenceSteps : s >= step => reached[s] <= slips
      BY <1>2, <1>5, <2>12
    <3>2. step \in Nat /\ reached[step] <= slips
      BY <1>2, <2>5, <3>1
    <3>3. StepDeliveredOnce'
      <4> SUFFICES ASSUME NEW s \in SequenceSteps PROVE reached'[s] <= 1 + slips'
        BY DEF StepDeliveredOnce
      <4>1. reached'[s] = IF s = step THEN reached[step] + 1 ELSE reached[s]
        BY <2>6
      <4>2. reached[s] \in Nat /\ reached[s] <= 1 + slips /\ reached[step] \in Nat
        BY <1>2, <2>6
      <4> QED
        BY <2>5, <3>1, <3>2, <4>1, <4>2
    <3>4. ASSUME NEW s \in SequenceSteps, s > step PROVE reached'[s] <= slips'
      <4>1. s # step /\ s >= step
        BY <2>5, <3>2, <3>4
      <4> QED
        BY <2>6, <3>1, <4>1
    <3>5. enrollment.step = step
      BY <1>2, <2>12 DEF step
    <3>6. Behind'
      <4> SUFFICES ASSUME NEW s \in SequenceSteps, s >= enrollment'.step PROVE reached'[s] <= slips' \/ OutAt(s)'
        BY DEF Behind
      <4>1. s = step \/ s > step
        BY <1>1, <2>5, <3>2, <3>5
      <4> QED
        BY <2>10, <3>4, <4>1
    <3>7. AheadOK(task[t])'
      BY <2>1, <2>3, <3>4 DEF AheadOK, step
    <3>8. NotYet'
      BY <2>9, <3>7 DEF NotYet
    <3> QED
      BY <1>1, <2>7, <2>8, <3>3, <3>6, <3>8, Known DEF SequenceInv
  <2> QED
    BY <2>11, <2>12
<1> QED
  BY <1>1, <1>4, <1>5

(* The prospect responds to what has reached them.                         *)
LEMMA RespondStep == ASSUME SequenceInv, NEW s \in SequenceSteps, NEW kind \in Kinds, Respond(kind, s) PROVE SequenceInv'
<1>1. /\ activities' = Append(activities, [kind |-> kind, step |-> s]) /\ activities \in Seq(Events)
      /\ UNCHANGED <<enrollment, touchpoint, task, reached, slips, sends, promoted>>
  BY Known DEF Respond, SequenceTypes
<1>2. activities' \in Seq(Events)
  <2>1. [kind |-> kind, step |-> s] \in Events
    BY DEF Events
  <2> QED
    BY <1>1, <2>1
<1> QED
  BY <1>1, <1>2 DEF SequenceInv, SequenceTypes, StepDeliveredOnce, Behind, OutAt, NotYet, AheadOK

(* So each step of a sequence keeps the invariant.                         *)
LEMMA SequenceStep == SequenceInv /\ [LemNext]_lemVars => SequenceInv'
<1> SUFFICES ASSUME SequenceInv, [LemNext]_lemVars PROVE SequenceInv'
  OBVIOUS
<1>1. CASE UNCHANGED <<enrollment, touchpoint, task, activities, reached, slips>> /\ promoted' \in Variants \cup {"none"}
  BY <1>1 DEF SequenceInv, SequenceTypes, StepDeliveredOnce, Behind, OutAt, NotYet, AheadOK
<1>2. CASE AssignOther
  BY <1>1, <1>2 DEF AssignOther, SequenceInv, SequenceTypes
<1>3. ASSUME NEW v \in Variants, PromoteVariant(v) PROVE SequenceInv'
  BY <1>1, <1>3 DEF PromoteVariant
<1>4. CASE UNCHANGED lemVars
  BY <1>1, <1>4 DEF lemVars, SequenceInv, SequenceTypes
<1> QED
  BY <1>2, <1>3, <1>4, LookUpStep, SaveEnrollmentStep, LoadEnrollmentStep, CompleteSequenceStep, PostTouchpointStep,
     SaveTouchpointStep, SaveAdvanceStep, PollStep, ProcessEventStep, MarkTouchpointStep, PauseProspectStep, CutShortStep, RespondStep DEF LemNext

-----------------------------------------------------------------------------
\* What a step may not do.

(* With the invariant, a paused prospect stays paused and gets no message. *)
LEMMA PausedStays == SequenceInv /\ [LemNext]_lemVars => PauseHolds
<1> SUFFICES ASSUME SequenceInv, [LemNext]_lemVars, enrollment.status = "paused", slips' = slips
             PROVE  enrollment'.status = "paused" /\ reached' = reached
  BY DEF PauseHolds
<1>1. CASE UNCHANGED <<enrollment, reached>>
  BY <1>1
<1>2. ASSUME NEW t \in EngineTasks
      PROVE  LocalsOK(task[t], enrollment) /\ task[t] \in Locals /\ (Slip(task[t].stale) => ~ task[t].stale)
  BY Known DEF Slip
<1>3. ASSUME NEW t \in EngineTasks, SaveEnrollment(t) PROVE FALSE
  <2>1. task[t].op = "enroll" /\ ~ task[t].stale
    BY <1>3, <1>2 DEF SaveEnrollment, SaveRow, Locals
  <2>2. enrollment = NotEnrolled
    BY <1>2, <2>1 DEF LocalsOK
  <2> QED
    BY <2>2, NoTaskOK
<1>4. ASSUME NEW t \in EngineTasks, CompleteSequence(t) \/ SaveAdvance(t) PROVE FALSE
  <2>1. task[t].pc \in {"complete", "save"} /\ ~ task[t].stale /\ (task[t].pc = "save" => task[t].op = "advance")
    BY <1>2, <1>4 DEF CompleteSequence, SaveAdvance, SaveRow, Locals
  <2>2. task[t].op = "advance"
    BY <1>2, <2>1 DEF LocalsOK, Locals
  <2> QED
    BY <1>2, <2>1, <2>2 DEF LocalsOK
<1>5. ASSUME NEW t \in EngineTasks, PauseProspect(t) PROVE FALSE
  <2>1. task[t].pc = "pause" /\ ~ task[t].stale
    BY <1>2, <1>5 DEF PauseProspect, SaveRow, Locals
  <2>2. task[t].op = "poll"
    BY <1>2, <2>1 DEF LocalsOK, Locals
  <2> QED
    BY <1>2, <2>1, <2>2 DEF LocalsOK
<1>6. ASSUME NEW t \in EngineTasks, PostTouchpoint(t) PROVE enrollment' = enrollment /\ reached' = reached
  <2>1. task[t].pc = "post" /\ enrollment' = enrollment /\ (reached' # reached => ~ task[t].stale)
    BY <1>2, <1>6 DEF PostTouchpoint, Locals
  <2>2. task[t].op = "advance"
    BY <1>2, <2>1 DEF LocalsOK, Locals
  <2> QED
    BY <1>2, <2>1, <2>2 DEF LocalsOK
<1>7. ASSUME NEW t \in EngineTasks,
             \/ LookUp(t) \/ LoadEnrollment(t) \/ SaveTouchpoint(t) \/ Poll(t) \/ ProcessEvent(t)
             \/ MarkTouchpoint(t) \/ CutShort(t)
      PROVE  UNCHANGED <<enrollment, reached>>
  BY <1>7 DEF LookUp, LoadEnrollment, SaveTouchpoint, Poll, ProcessEvent, MarkTouchpoint, CutShort
<1>8. ASSUME \/ \E s \in SequenceSteps, kind \in Kinds : Respond(kind, s)
             \/ AssignOther \/ (\E v \in Variants : PromoteVariant(v)) \/ UNCHANGED lemVars
      PROVE  UNCHANGED <<enrollment, reached>>
  BY <1>8 DEF Respond, AssignOther, PromoteVariant, lemVars
<1> QED
  BY <1>1, <1>3, <1>4, <1>5, <1>6, <1>7, <1>8 DEF LemNext

(* An assignment beyond the threshold goes to one of the least used.       *)
LEMMA Levels ==
    ASSUME sends \in [Variants -> Nat], TotalSends >= RANDOM_SENDS, promoted = "none",
           NEW x \in Assignable, Assign(x), NEW v \in Variants, NEW w \in Variants
    PROVE  sends'[v] - sends'[w] <= 1 \/ sends'[v] - sends'[w] <= sends[v] - sends[w]
<1>1. x \in Variants /\ sends[x] <= sends[w] /\ sends[v] \in Nat /\ sends[w] \in Nat /\ sends[x] \in Nat
  <2> HIDE DEF TotalSends
  <2> QED
    BY DEF Assignable
<1>2. sends' = [sends EXCEPT ![x] = @ + 1]
  BY DEF Assign
<1>3. /\ sends'[x] = sends[x] + 1
      /\ (v # x => sends'[v] = sends[v]) /\ (w # x => sends'[w] = sends[w])
  BY <1>1, <1>2
<1> QED
  BY <1>1, <1>3

(* The sends of the variants stay level while the assignment is random.    *)
LEMMA LevelKept == sends \in [Variants -> Nat] /\ [LemNext]_lemVars => VariantsDrawLevel /\ sends' \in [Variants -> Nat]
<1> SUFFICES ASSUME sends \in [Variants -> Nat], [LemNext]_lemVars
             PROVE  VariantsDrawLevel /\ sends' \in [Variants -> Nat]
  OBVIOUS
<1>1. UNCHANGED sends \/ \E v \in Assignable : Assign(v)
  BY DEF LemNext, lemVars, LookUp, SaveEnrollment, LoadEnrollment, CompleteSequence, PostTouchpoint, SaveTouchpoint,
         SaveAdvance, Poll, ProcessEvent, MarkTouchpoint, PauseProspect, CutShort, Respond, AssignOther, PromoteVariant
<1>2. CASE UNCHANGED sends
  BY <1>2 DEF VariantsDrawLevel
<1>3. CASE \E v \in Assignable : Assign(v)
  <2>1. PICK x \in Assignable : Assign(x)
    BY <1>3
  <2>2. VariantsDrawLevel
    BY <2>1, Levels DEF VariantsDrawLevel
  <2>3. sends' \in [Variants -> Nat]
    <3> DEFINE n == sends[x] + 1
    <3>1. sends' = [sends EXCEPT ![x] = n]
      BY <2>1 DEF Assign
    <3>2. x \in Variants => n \in Nat
      OBVIOUS
    <3> HIDE DEF n
    <3> QED
      BY <3>1, <3>2
  <2> QED
    BY <2>2, <2>3
<1> QED
  BY <1>1, <1>2, <1>3

-----------------------------------------------------------------------------
\* The theorem.

(* It holds before anybody is enrolled.                                    *)
LEMMA SequenceInitially == LemInit => SequenceInv /\ sends \in [Variants -> Nat]
<1> SUFFICES ASSUME LemInit PROVE SequenceInv /\ sends \in [Variants -> Nat]
  OBVIOUS
<1>1. /\ enrollment = NotEnrolled /\ touchpoint = [s \in SequenceSteps |-> "none"]
      /\ task = [t \in EngineTasks |-> NoTask] /\ activities = <<>>
      /\ reached = [s \in SequenceSteps |-> 0] /\ slips = 0 /\ sends = [v \in Variants |-> 0] /\ promoted = "none"
  BY DEF LemInit
<1>2. SequenceTypes
  <2>1. touchpoint \in [SequenceSteps -> Touched] /\ reached \in [SequenceSteps -> Nat] /\ slips \in Nat
    BY <1>1 DEF Touched
  <2>2. task \in [EngineTasks -> Locals] /\ enrollment \in Enrollments /\ promoted \in Variants \cup {"none"}
    BY <1>1, NoTaskOK
  <2>3. activities \in Seq(Events)
    BY <1>1
  <2> QED
    BY <2>1, <2>2, <2>3 DEF SequenceTypes
<1>3. \A t \in EngineTasks : LocalsOK(task[t], enrollment) /\ task[t].op = "none"
  BY <1>1, NoTaskOK
<1>4. StepDeliveredOnce /\ Behind /\ NotYet
  BY <1>1, <1>3 DEF StepDeliveredOnce, Behind, NotYet, AheadOK
<1>5. sends \in [Variants -> Nat]
  BY <1>1
<1> QED
  BY <1>1, <1>2, <1>3, <1>4, <1>5, NoTaskOK DEF SequenceInv

(* The invariants of a sequence follow from it.                            *)
LEMMA SequenceImplies == SequenceInv => LemTypeOK /\ StepDeliveredOnce
<1> SUFFICES ASSUME SequenceInv PROVE LemTypeOK /\ StepDeliveredOnce
  OBVIOUS
<1>1. LemTypeOK
  <2>1. enrollment.count \in 0 .. MAX_FOLLOWUPS
    <3>1. enrollment.count \in Nat /\ enrollment.count <= MAX_FOLLOWUPS /\ MAX_FOLLOWUPS \in Nat
      BY Known, SequenceAssumption DEF Counted, Enrollments
    <3> QED
      BY <3>1
  <2>2. Range(ShownAs) = {"bounced", "opened", "clicked"}
    BY DEF Range, ShownAs
  <2>3. \A s \in SequenceSteps : touchpoint[s] \in {"none", "sent", "failed"} \cup Range(ShownAs)
    BY <2>2, Known DEF SequenceTypes, Touched
  <2> QED
    BY <2>1, <2>3, Known DEF LemTypeOK, Enrollments, Counted, Locals, SequenceTypes
<1>2. StepDeliveredOnce
  BY Known DEF StepDeliveredOnce
<1> QED
  BY <1>1, <1>2

(* A sequence delivers its steps once and no further than a reply allows,  *)
(* except by slips, each time once, for any versions of the sequence,      *)
(* operations, responses and variants.                                     *)
THEOREM SequenceHolds == LemSpec => SequenceSafety
<1> DEFINE Inv == SequenceInv /\ sends \in [Variants -> Nat]
<1>1. LemInit => Inv
  BY SequenceInitially
<1>2. Inv /\ [LemNext]_lemVars => Inv'
  BY SequenceStep, LevelKept
<1>3. Inv => LemTypeOK /\ StepDeliveredOnce
  BY SequenceImplies
<1>4. Inv /\ [LemNext]_lemVars => [PauseHolds /\ VariantsDrawLevel]_lemVars
  BY PausedStays, LevelKept
<1> HIDE DEF Inv
<1> QED
  BY <1>1, <1>2, <1>3, <1>4, PTL DEF LemSpec, SequenceSafety

-----------------------------------------------------------------------------
\* Reviews: the inductive invariant.

Texts == Seq(Passages)
Edits == [old : Passages, new : Passages]
Reviews == [pc : {"none", "queued", "critique", "revise", "marking", "saving", "returned", "raised"},
            tries : 0 .. MAX_RETRIES, text : Texts, score : 0 .. 100, revised : BOOLEAN,
            cycles : 0 .. MAX_CYCLES, status : Statuses]
LogRows == [material : Materials, status : {"reviewed", "unreviewed"}, cycles : 0 .. MAX_CYCLES]
Stages == [state : {"idle", "reviewing", "prepared", "raised"}, text : Texts, status : Statuses,
           grounding : {"none", "checked"}]

ReviewTypes ==
    /\ review \in [Calls -> Reviews]
    /\ reviewLog \in Seq(LogRows)
    /\ batch \in [Batches -> [state : {"idle", "running", "ended"}, failed : Nat, unreviewed : Nat]]
    /\ stage \in [Pipelines -> Stages]

(* What the edits alone may leave in a text.                               *)
Grounded(text, c) ==
    Assets # {} => \A i \in 1 .. Len(text) :
        WordsOf[text[i]] \cap Significant \subseteq WordsIn(DraftOf(c)) \cup AssetWords

Logged(m) == \E i \in 1 .. Len(reviewLog) : reviewLog[i].material = m
Listed(m) == \E i \in 1 .. Len(reviewLog) : reviewLog[i].material = m /\ reviewLog[i].status = "unreviewed"

(* A review is degraded only to the draft and at its end, and its score is *)
(* of the text it ends with.                                               *)
CallOK(c, r) ==
    /\ r.pc \in {"critique", "revise"} => r.cycles < MAX_CYCLES
    /\ r.pc \in {"critique", "revise", "marking", "saving"} => c[2] \in Configured
    /\ r.pc = "marking" => r.status = "unreviewed"
    /\ r.pc = "saving" => r.status # "none"
    /\ r.status = "unreviewed" => r.text = DraftOf(c) /\ r.pc \in {"marking", "saving", "returned", "raised"}
    /\ r.pc \in {"saving", "returned"} /\ r.status = "reviewed" /\ r.cycles # 0
           => r.score = QualityScore(r.text, DraftOf(c))
    /\ ~ r.revised => Grounded(r.text, c)

(* What has returned is in the log as it says.                             *)
InLog(c, r) ==
    r.pc = "returned" => /\ c[2] \in Configured => Logged(c[2])
                         /\ r.status = "unreviewed" => Listed(c[2])

BatchOK(b) ==
    batch[b].state = "ended" /\ batch[b].failed = 0 =>
        /\ \A m \in Fetched : review[<<b, m>>].pc = "returned"
        /\ batch[b].unreviewed = UnreviewedBy(b)

(* The only call of the pipeline is that of m.                             *)
Owns(p, m) == \A x \in Materials : review[<<p, x>>].pc # "none" <=> x = m

StageOK(p) ==
    /\ stage[p].state \in {"idle", "raised"} => \A x \in Materials : review[<<p, x>>].pc = "none"
    /\ stage[p].state \in {"reviewing", "prepared"} =>
          \E m \in Materials : /\ Owns(p, m)
                               /\ stage[p].state = "prepared" /\ stage[p].status = "unreviewed" => stage[p].text = Draft[m]

ReviewInv ==
    /\ ReviewTypes
    /\ \A c \in Calls : CallOK(c, review[c]) /\ InLog(c, review[c])
    /\ \A b \in Batches : BatchOK(b)
    /\ \A p \in Pipelines : StageOK(p)

(* The log only grows, and its rows only degrade.                          *)
LogGrows ==
    /\ reviewLog' \in Seq(LogRows)
    /\ \A i \in 1 .. Len(reviewLog) :
        /\ i \in 1 .. Len(reviewLog')
        /\ reviewLog'[i].material = reviewLog[i].material /\ reviewLog'[i].cycles = reviewLog[i].cycles
        /\ reviewLog[i].status = "unreviewed" => reviewLog'[i].status = "unreviewed"

-----------------------------------------------------------------------------
\* The data: texts, edits and the score.

(* A draft is a text.                                                      *)
LEMMA DraftText == ASSUME NEW c \in Calls PROVE DraftOf(c) \in Texts /\ c[2] \in Materials
  BY ReviewAssumption DEF DraftOf, Calls, Materials, Texts

(* The words of a draft are in the draft.                                  *)
LEMMA DraftGrounded == ASSUME NEW c \in Calls PROVE Grounded(DraftOf(c), c)
<1>1. DraftOf(c) \in Texts
  BY DraftText
<1>2. ASSUME NEW i \in 1 .. Len(DraftOf(c)) PROVE WordsOf[DraftOf(c)[i]] \subseteq WordsIn(DraftOf(c))
  <2>1. DraftOf(c)[i] \in Range(DraftOf(c))
    BY <1>1 DEF Range, Texts
  <2> QED
    BY <2>1 DEF WordsIn
<1> QED
  BY <1>2 DEF Grounded

(* The score of a text is within the bounds.                               *)
LEMMA ScoreInRange ==
    ASSUME NEW text \in Texts, NEW draft \in Texts
    PROVE  QualityScore(text, draft) \in 0 .. 100
<1> DEFINE change == IF 2 * Len(text) < Len(draft) THEN -10
                     ELSE IF 2 * Len(text) > 3 * Len(draft) THEN -3 ELSE 2
           structure == IF Len(text) < 5 THEN Len(text) ELSE 5
           score == DRAFT_SCORE + change + structure
<1>1. Len(text) \in Int /\ DRAFT_SCORE \in 0 .. 100
  BY ReviewAssumption DEF Texts
<1>2. change \in Int /\ structure \in Int
  BY <1>1
<1>3. score \in Int
  BY <1>1, <1>2
<1>4. QualityScore(text, draft) = IF draft = <<>> THEN DRAFT_SCORE ELSE Clamp(score)
  BY DEF QualityScore
<1> HIDE DEF score
<1> QED
  BY <1>1, <1>3, <1>4 DEF Clamp

(* An edit keeps a text a text, and its significant words are those of the *)
(* passage it replaces or of the assets.                                   *)
LEMMA AppliedOK ==
    ASSUME NEW text \in Texts, NEW edit \in Edits, NEW c
    PROVE  /\ Applied(text, edit) \in Texts
           /\ Grounded(text, c) => Grounded(Applied(text, edit), c)
<1>1. CASE Outcome(text, edit) # "applied"
  BY <1>1 DEF Applied
<1>2. CASE Outcome(text, edit) = "applied"
  <2> DEFINE new == [i \in DOMAIN text |-> IF text[i] = edit.old THEN edit.new ELSE text[i]]
  <2>1. Applied(text, edit) = new
    BY <1>2 DEF Applied
  <2>2. DOMAIN text = 1 .. Len(text) /\ Len(text) \in Nat /\ \A i \in 1 .. Len(text) : text[i] \in Passages
    BY DEF Texts
  <2>3. edit.new \in Passages
    BY DEF Edits
  <2>4. new \in [1 .. Len(text) -> Passages]
    BY <2>2, <2>3
  <2>5. new \in Texts /\ Len(new) = Len(text)
    BY <2>2, <2>4 DEF Texts
  <2>6. ~ Ungrounded(edit)
    BY <1>2 DEF Outcome
  <2>7. ASSUME Assets # {}, Grounded(text, c), NEW i \in 1 .. Len(text)
        PROVE  WordsOf[new[i]] \cap Significant \subseteq WordsIn(DraftOf(c)) \cup AssetWords
    <3>1. WordsOf[text[i]] \cap Significant \subseteq WordsIn(DraftOf(c)) \cup AssetWords
      BY <2>7 DEF Grounded
    <3>2. (WordsOf[edit.new] \ WordsOf[edit.old]) \cap Significant \subseteq AssetWords
      BY <2>6, <2>7 DEF Ungrounded, Introduced
    <3>3. new[i] = IF text[i] = edit.old THEN edit.new ELSE text[i]
      BY <2>2
    <3> QED
      BY <3>1, <3>2, <3>3
  <2> HIDE DEF new
  <2> QED
    BY <2>1, <2>5, <2>7 DEF Grounded
<1> QED
  BY <1>1, <1>2

(* So do all edits of a critique, each on what the earlier left.           *)
LEMMA ApplyEditsOK ==
    ASSUME NEW text \in Texts, NEW edits \in Seq(Edits), NEW c
    PROVE  /\ ApplyEdits(text, edits) \in Texts
           /\ Grounded(text, c) => Grounded(ApplyEdits(text, edits), c)
<1> DEFINE S == {t \in Texts : Grounded(text, c) => Grounded(t, c)}
           n == Len(edits)
           step == [x \in S \X (1 .. n) |-> Applied(x[1], edits[x[2]])]
           After(h, i) == IF i = 0 THEN text ELSE Applied(h[i - 1], edits[i])
           after == CHOOSE after : after = [i \in 0 .. n |-> After(after, i)]
<1>1. n \in Nat /\ \A i \in 1 .. n : edits[i] \in Edits
  OBVIOUS
<1>2. \A t \in S, i \in 1 .. n : Applied(t, edits[i]) \in S
  BY <1>1, AppliedOK
<1>3. text \in S
  OBVIOUS
<1> HIDE DEF S, n
<1>4. step \in [S \X (1 .. n) -> S]
  BY <1>2
<1>5. \A t \in S, i \in 1 .. n : step[<<t, i>>] = Applied(t, edits[i])
  OBVIOUS
<1> HIDE DEF step
<1>a. n \in Nat
  BY <1>1
<1>b. Iterates(S, text, n, step)
  BY <1>a, <1>3, <1>4, Iteration
<1>6. PICK g \in [0 .. n -> S] : g[0] = text /\ \A i \in 1 .. n : g[i] = step[<<g[i - 1], i>>]
  BY <1>b, Zenon DEF Iterates
<1>7. g = [i \in 0 .. n |-> After(g, i)]
  <2>1. ASSUME NEW i \in 0 .. n, i # 0 PROVE g[i] = Applied(g[i - 1], edits[i])
    <3>1. i \in 1 .. n /\ i - 1 \in 0 .. n
      BY <1>1, <2>1
    <3> QED
      BY <1>5, <1>6, <3>1
  <2>2. \A i \in 0 .. n : g[i] = After(g, i)
    BY <1>6, <2>1
  <2> HIDE DEF After
  <2> QED
    BY <2>2
<1>8. after = [i \in 0 .. n |-> After(after, i)]
  <2> HIDE DEF After
  <2>1. \E h : h = [i \in 0 .. n |-> After(h, i)]
    BY <1>7, Zenon
  <2> QED
    BY <2>1, Zenon DEF after
<1>9. ApplyEdits(text, edits) = after[n]
  BY Zenon DEF ApplyEdits, n
<1> HIDE DEF after
<1> DEFINE T == {i \in Nat : i <= n => after[i] \in S}
<1>10. 0 \in T
  BY <1>1, <1>3, <1>8
<1>11. ASSUME NEW i \in T PROVE i + 1 \in T
  <2> SUFFICES ASSUME i + 1 <= n PROVE after[i + 1] \in S
    OBVIOUS
  <2>1. i \in Nat /\ after[i] \in S /\ i + 1 \in 1 .. n /\ i + 1 \in 0 .. n /\ i + 1 # 0 /\ (i + 1) - 1 = i
    BY <1>1
  <2>2. after[i + 1] = Applied(after[i], edits[i + 1])
    BY <1>8, <2>1
  <2> QED
    BY <1>2, <2>1, <2>2
<1>12. T = Nat
  <2> HIDE DEF T
  <2>1. T \in SUBSET Nat
    BY DEF T
  <2> QED
    BY <1>10, <1>11, <2>1, Induction
<1>13. after[n] \in S
  BY <1>1, <1>12
<1> QED
  BY <1>9, <1>13 DEF S

-----------------------------------------------------------------------------
\* What a step of one review leaves alone.

(* A batch fetches finitely many materials.                                *)
LEMMA FetchedFinite == Fetched \subseteq Materials /\ IsFiniteSet(Fetched) /\ Cardinality(Fetched) \in Nat
<1> DEFINE n == IF Len(Pending) < BATCH_SIZE THEN Len(Pending) ELSE BATCH_SIZE
           f == [i \in 1 .. n |-> Pending[i]]
<1>1. Len(Pending) \in Nat /\ BATCH_SIZE \in Nat /\ DOMAIN Pending = 1 .. Len(Pending)
  BY ReviewAssumption
<1>2. n \in Nat /\ n <= Len(Pending)
  BY <1>1
<1>3. Fetched = {Pending[i] : i \in 1 .. n}
  BY DEF Fetched
<1> HIDE DEF n
<1>4. f \in Surjection(1 .. n, Fetched)
  BY <1>3 DEF Surjection
<1>5. IsFiniteSet(1 .. n)
  BY <1>2, FS_Interval
<1>6. IsFiniteSet(Fetched)
  <2> HIDE DEF f
  <2> QED
    BY <1>4, <1>5, FS_Surjection
<1>7. Fetched \subseteq Materials
  BY <1>1, <1>2, <1>3 DEF Materials, Range
<1> QED
  BY <1>6, <1>7, FS_CardinalityType

(* So it can count them.                                                   *)
LEMMA CountedFinite ==
    ASSUME NEW T \in SUBSET Fetched
    PROVE  Cardinality(T) \in Nat
  BY FetchedFinite, FS_Subset, FS_CardinalityType

(* A log that stays as it is has grown by nothing.                         *)
LEMMA SameLog ==
    ASSUME ReviewTypes, UNCHANGED reviewLog
    PROVE  LogGrows
  BY DEF ReviewTypes, LogGrows

(* What is logged stays logged, and what is listed stays listed.           *)
LEMMA LogKept ==
    ASSUME LogGrows, NEW m
    PROVE  (Logged(m) => Logged(m)') /\ (Listed(m) => Listed(m)')
  BY DEF LogGrows, Logged, Listed

(* A review that was in progress has become new.                           *)
LEMMA OneCall ==
    ASSUME ReviewInv, NEW c \in Calls, NEW new \in Reviews, Becomes(c, new), LogGrows,
           UNCHANGED <<batch, stage>>, review[c].pc \notin {"none", "returned"}, new.pc # "none",
           CallOK(c, new),
           new.pc = "returned" => /\ c[2] \in Configured => Logged(c[2])'
                                  /\ new.status = "unreviewed" => Listed(c[2])'
    PROVE  ReviewInv'
<1>1. ReviewTypes'
  BY DEF ReviewInv, ReviewTypes, Becomes, LogGrows
<1>2. review'[c] = new /\ \A d \in Calls : d # c => review'[d] = review[d]
  BY DEF ReviewInv, ReviewTypes, Becomes
<1>3. ASSUME NEW d \in Calls PROVE (CallOK(d, review[d]) /\ InLog(d, review[d]))'
  <2>1. CASE d = c
    BY <1>2, <2>1 DEF InLog
  <2>2. CASE d # c
    <3>1. review'[d] = review[d] /\ CallOK(d, review[d]) /\ InLog(d, review[d])
      BY <1>2, <2>2 DEF ReviewInv
    <3>2. (Logged(d[2]) => Logged(d[2])') /\ (Listed(d[2]) => Listed(d[2])')
      BY LogKept
    <3> QED
      BY <3>1, <3>2 DEF InLog
  <2> QED
    BY <2>1, <2>2
<1>4. ASSUME NEW b \in Batches, batch'[b].state = "ended", batch'[b].failed = 0
      PROVE  /\ \A m \in Fetched : review'[<<b, m>>].pc = "returned"
             /\ batch'[b].unreviewed = UnreviewedBy(b)'
  <2>1. batch' = batch /\ BatchOK(b)
    BY DEF ReviewInv
  <2>2. \A m \in Fetched : review[<<b, m>>].pc = "returned"
    BY <1>4, <2>1 DEF BatchOK
  <2>3. \A m \in Fetched : <<b, m>> \in Calls /\ review'[<<b, m>>] = review[<<b, m>>]
    BY <1>2, <2>2, FetchedFinite DEF Calls
  <2>4. {m \in Fetched : review'[<<b, m>>].status = "unreviewed"} = {m \in Fetched : review[<<b, m>>].status = "unreviewed"}
    BY <2>3
  <2>5. UnreviewedBy(b)' = UnreviewedBy(b)
    BY <2>4, Zenon DEF UnreviewedBy
  <2> QED
    BY <1>4, <2>1, <2>2, <2>3, <2>5 DEF BatchOK
<1>5. ASSUME NEW p \in Pipelines PROVE StageOK(p)'
  <2>1. \A x \in Materials : review'[<<p, x>>].pc # "none" <=> review[<<p, x>>].pc # "none"
    BY <1>2 DEF Calls
  <2>2. StageOK(p) /\ stage' = stage
    BY DEF ReviewInv
  <2> QED
    BY <2>1, <2>2 DEF StageOK, Owns
<1> QED
  BY <1>1, <1>3, <1>4, <1>5 DEF ReviewInv, BatchOK

(* A call of review_material starts as it should.                          *)
LEMMA BegunOK ==
    ASSUME NEW c \in Calls
    PROVE  /\ Begun(c) \in Reviews /\ CallOK(c, Begun(c)) /\ Begun(c).pc # "none"
           /\ Begun(c).status # "unreviewed"
           /\ Begun(c).pc = "returned" => c[2] \notin Configured
<1> DEFINE text == DraftOf(c)
<1>1. text \in Texts /\ Grounded(text, c)
  BY DraftText, DraftGrounded
<1>2. MAX_CYCLES \in Nat /\ 0 < MAX_CYCLES /\ MAX_RETRIES \in Nat /\ DRAFT_SCORE \in 0 .. 100
  BY ReviewAssumption
<1> HIDE DEF text
<1>4. CASE c[2] \in Configured
  <2> DEFINE new == [pc |-> "critique", tries |-> 0, text |-> text, score |-> DRAFT_SCORE, revised |-> FALSE,
                     cycles |-> 0, status |-> "none"]
  <2>1. Begun(c) = new
    BY <1>4 DEF Begun, NoCall, text
  <2>2. new \in Reviews
    BY <1>1, <1>2 DEF Reviews, Statuses
  <2>3. CallOK(c, new)
    BY <1>1, <1>2, <1>4 DEF CallOK
  <2> QED
    BY <1>4, <2>1, <2>2, <2>3
<1>5. CASE c[2] \notin Configured
  <2> DEFINE new == [pc |-> "returned", tries |-> 0, text |-> text, score |-> DRAFT_SCORE, revised |-> FALSE,
                     cycles |-> 0, status |-> "reviewed"]
  <2>1. Begun(c) = new
    BY <1>5 DEF Begun, NoCall, text
  <2>2. new \in Reviews
    BY <1>1, <1>2 DEF Reviews, Statuses
  <2>3. CallOK(c, new)
    BY <1>1, <1>2, <1>5 DEF CallOK
  <2> QED
    BY <1>5, <2>1, <2>2, <2>3
<1> QED
  BY <1>4, <1>5

(* The end of a cycle.                                                     *)
LEMMA CycledOK ==
    ASSUME NEW c \in Calls, NEW call \in Reviews, NEW text \in Texts, call.cycles < MAX_CYCLES,
           call.status # "unreviewed", c[2] \in Configured, ~ call.revised => Grounded(text, c)
    PROVE  /\ Cycled(c, call, text) \in Reviews /\ CallOK(c, Cycled(c, call, text))
           /\ Cycled(c, call, text).pc \notin {"none", "returned"}
<1> DEFINE again == call.cycles + 1 < MAX_CYCLES
           score == QualityScore(text, DraftOf(c))
           new == Cycled(c, call, text)
<1>1. MAX_CYCLES \in Nat /\ MAX_RETRIES \in Nat /\ score \in 0 .. 100
  BY ReviewAssumption, ScoreInRange, DraftText
<1>2. call.cycles \in Nat /\ call.cycles + 1 \in 0 .. MAX_CYCLES
  BY <1>1 DEF Reviews
<1> HIDE DEF score
<1>3. new = [call EXCEPT !.text = text, !.tries = 0, !.cycles = @ + 1, !.score = score,
                         !.pc = IF again THEN "critique" ELSE "saving",
                         !.status = IF again THEN @ ELSE "reviewed"]
  BY DEF Cycled, score
<1>4. new \in Reviews
  <2> DEFINE pc == IF again THEN "critique" ELSE "saving"
             status == IF again THEN call.status ELSE "reviewed"
             cycles == call.cycles + 1
  <2>1. pc \in {"critique", "saving"} /\ status \in Statuses /\ cycles \in 0 .. MAX_CYCLES /\ 0 \in 0 .. MAX_RETRIES
    BY <1>1, <1>2 DEF Reviews, Statuses
  <2>2. new = [call EXCEPT !.text = text, !.tries = 0, !.cycles = cycles, !.score = score, !.pc = pc, !.status = status]
    BY <1>3 DEF Reviews
  <2> HIDE DEF again, pc, status, cycles, new
  <2> QED
    BY <1>1, <2>1, <2>2 DEF Reviews
<1>5. /\ new.text = text /\ new.cycles = call.cycles + 1 /\ new.score = score /\ new.revised = call.revised
      /\ new.pc = IF again THEN "critique" ELSE "saving"
      /\ new.status = IF again THEN call.status ELSE "reviewed"
  BY <1>3 DEF Reviews
<1> HIDE DEF new
<1>6. CallOK(c, new)
  BY <1>5 DEF CallOK, score
<1> QED
  BY <1>4, <1>5, <1>6 DEF new

-----------------------------------------------------------------------------
\* The steps.

(* Each step of a review keeps the invariant, and the rows of the log.     *)
LEMMA CallSteps ==
    ASSUME ReviewInv, NEW c \in Calls, CallStep(c)
    PROVE  ReviewInv' /\ LogGrows
<1> DEFINE r == review[c]
<1>1. r \in Reviews /\ CallOK(c, r) /\ ReviewTypes
  BY DEF ReviewInv, ReviewTypes
<1>2. MAX_CYCLES \in Nat /\ MAX_RETRIES \in Nat
  BY ReviewAssumption
<1>3. CASE Admit(c)
  <2>1. LogGrows
    BY <1>1, <1>3, SameLog DEF Admit
  <2>2. r.pc \notin {"none", "returned"} /\ Becomes(c, Begun(c)) /\ UNCHANGED <<batch, stage>>
    BY <1>3 DEF Admit
  <2>3. ReviewInv'
    BY <2>1, <2>2, BegunOK, OneCall
  <2> QED
    BY <2>1, <2>3
<1>4. CASE Critique(c)
  <2>1. LogGrows /\ r.pc = "critique" /\ UNCHANGED <<batch, stage>>
    BY <1>1, <1>4, SameLog DEF Critique
  <2>2. r.cycles < MAX_CYCLES /\ c[2] \in Configured /\ r.status # "unreviewed" /\ (~ r.revised => Grounded(r.text, c))
        /\ r.text \in Texts
    BY <1>1, <2>1 DEF CallOK, Reviews
  <2>3. PICK edits \in Critiques, findings \in BOOLEAN :
            IF findings
            THEN Becomes(c, [r EXCEPT !.pc = "revise", !.tries = 0, !.text = ApplyEdits(r.text, edits)])
            ELSE EndCycle(c, r, ApplyEdits(r.text, edits))
    BY <1>4 DEF Critique
  <2> DEFINE text == ApplyEdits(r.text, edits)
  <2>4. text \in Texts /\ (~ r.revised => Grounded(text, c))
    BY <2>2, ReviewAssumption, ApplyEditsOK DEF Edits
  <2> HIDE DEF text
  <2>5. CASE findings
    <3> DEFINE new == [r EXCEPT !.pc = "revise", !.tries = 0, !.text = text]
    <3>1. new \in Reviews
      <4>1. 0 \in 0 .. MAX_RETRIES
        BY <1>2
      <4>2. \A q \in Reviews : [q EXCEPT !.pc = "revise", !.tries = 0, !.text = text] \in Reviews
        BY <2>4, <4>1 DEF Reviews
      <4> QED
        BY <1>1, <4>2
    <3>2. new.pc = "revise" /\ new.text = text /\ new.cycles = r.cycles /\ new.status = r.status /\ new.revised = r.revised
      BY <1>1 DEF Reviews
    <3>3. Becomes(c, new)
      BY <2>3, <2>5 DEF text
    <3> HIDE DEF new
    <3>4. CallOK(c, new)
      BY <2>2, <2>4, <3>2 DEF CallOK
    <3> QED
      BY <2>1, <3>1, <3>2, <3>3, <3>4, OneCall
  <2>6. CASE ~ findings
    <3>1. Becomes(c, Cycled(c, r, text))
      BY <2>3, <2>6 DEF text, EndCycle
    <3>2. Cycled(c, r, text) \in Reviews /\ CallOK(c, Cycled(c, r, text)) /\ Cycled(c, r, text).pc \notin {"none", "returned"}
      BY <1>1, <2>2, <2>4, CycledOK
    <3> QED
      BY <2>1, <3>1, <3>2, OneCall
  <2> QED
    BY <2>5, <2>6
<1>5. ASSUME r.pc \in {"critique", "revise"}, r.tries < MAX_RETRIES PROVE Retried(r) \in Reviews /\ CallOK(c, Retried(r)) /\ Retried(r).pc = r.pc
  <2> DEFINE tries == r.tries + 1
  <2>1. tries \in 0 .. MAX_RETRIES
    BY <1>1, <1>2, <1>5 DEF Reviews
  <2>2. Retried(r) = [r EXCEPT !.tries = tries]
    BY DEF Retried
  <2> HIDE DEF tries, r
  <2>3. Retried(r) \in Reviews /\ \A f \in {"pc", "text", "score", "revised", "cycles", "status"} : Retried(r)[f] = r[f]
    BY <1>1, <2>1, <2>2 DEF Reviews
  <2>4. /\ Retried(r).pc = r.pc /\ Retried(r).text = r.text /\ Retried(r).score = r.score /\ Retried(r).revised = r.revised
        /\ Retried(r).cycles = r.cycles /\ Retried(r).status = r.status
    BY <1>1, <2>2 DEF Reviews
  <2> QED
    BY <1>1, <2>3, <2>4 DEF CallOK
<1>6. CASE CritiqueFails(c)
  <2>1. LogGrows /\ r.pc = "critique" /\ UNCHANGED <<batch, stage>>
        /\ Becomes(c, IF r.tries < MAX_RETRIES THEN Retried(r) ELSE Degraded(c, r))
    BY <1>1, <1>6, SameLog DEF CritiqueFails
  <2>2. CASE r.tries < MAX_RETRIES
    BY <1>5, <2>1, <2>2, OneCall
  <2>3. CASE ~ r.tries < MAX_RETRIES
    <3> DEFINE new == Degraded(c, r)
               text == DraftOf(c)
    <3>1. text \in Texts /\ Grounded(text, c)
      BY DraftText, DraftGrounded
    <3> HIDE DEF text
    <3>2. new = [r EXCEPT !.pc = "marking", !.status = "unreviewed", !.text = text]
      BY DEF Degraded, text
    <3>3. new \in Reviews
      BY <1>1, <3>1, <3>2 DEF Reviews, Statuses
    <3>4. new.pc = "marking" /\ new.status = "unreviewed" /\ new.text = text
      BY <1>1, <3>2 DEF Reviews
    <3>5. Becomes(c, new) /\ c[2] \in Configured
      BY <1>1, <2>1, <2>3 DEF CallOK
    <3> HIDE DEF new
    <3>6. CallOK(c, new)
      BY <3>1, <3>4, <3>5 DEF CallOK, text
    <3> QED
      BY <2>1, <3>3, <3>4, <3>5, <3>6, OneCall
  <2> QED
    BY <2>2, <2>3
<1>7. CASE Revise(c)
  <2>1. LogGrows /\ r.pc = "revise" /\ UNCHANGED <<batch, stage>>
    BY <1>1, <1>7, SameLog DEF Revise
  <2> DEFINE new == [r EXCEPT !.revised = TRUE]
  <2>2. PICK text \in Revisions : EndCycle(c, new, text)
    BY <1>7 DEF Revise
  <2>3. text \in Texts
    BY ReviewAssumption DEF Texts
  <2>4. new \in Reviews /\ new.cycles = r.cycles /\ new.status = r.status /\ new.revised
    BY <1>1 DEF Reviews
  <2> HIDE DEF new
  <2>5. new.cycles < MAX_CYCLES /\ new.status # "unreviewed" /\ c[2] \in Configured
    BY <1>1, <2>1, <2>4 DEF CallOK
  <2>6. Cycled(c, new, text) \in Reviews /\ CallOK(c, Cycled(c, new, text)) /\ Cycled(c, new, text).pc \notin {"none", "returned"}
    BY <2>3, <2>4, <2>5, CycledOK
  <2>7. Becomes(c, Cycled(c, new, text))
    BY <2>2 DEF EndCycle
  <2> QED
    BY <2>1, <2>6, <2>7, OneCall
<1>8. CASE RevisionFails(c)
  <2>1. LogGrows /\ r.pc = "revise" /\ UNCHANGED <<batch, stage>>
    BY <1>1, <1>8, SameLog DEF RevisionFails
  <2>2. CASE r.tries < MAX_RETRIES
    <3>1. Becomes(c, Retried(r))
      BY <1>8, <2>2 DEF RevisionFails
    <3> QED
      BY <1>5, <2>1, <2>2, <3>1, OneCall
  <2>3. CASE ~ r.tries < MAX_RETRIES
    <3>1. Becomes(c, Cycled(c, r, r.text))
      BY <1>8, <2>3 DEF RevisionFails, EndCycle
    <3>2. r.text \in Texts /\ r.cycles < MAX_CYCLES /\ r.status # "unreviewed" /\ c[2] \in Configured
          /\ (~ r.revised => Grounded(r.text, c))
      BY <1>1, <2>1 DEF CallOK, Reviews
    <3>3. Cycled(c, r, r.text) \in Reviews /\ CallOK(c, Cycled(c, r, r.text)) /\ Cycled(c, r, r.text).pc \notin {"none", "returned"}
      BY <1>1, <3>2, CycledOK
    <3> QED
      BY <2>1, <3>1, <3>3, OneCall
  <2> QED
    BY <2>2, <2>3
<1>9. ASSUME NEW pc \in {"saving", "returned", "raised"}, r.pc \in {"marking", "saving"}
      PROVE  LET new == [r EXCEPT !.pc = pc] IN
             new \in Reviews /\ CallOK(c, new) /\ new.pc = pc /\ new.status = r.status
  <2> DEFINE new == [r EXCEPT !.pc = pc]
  <2>1. new \in Reviews
    BY <1>1, <1>9 DEF Reviews
  <2>2. /\ new.pc = pc /\ new.text = r.text /\ new.score = r.score /\ new.revised = r.revised
        /\ new.cycles = r.cycles /\ new.status = r.status
    BY <1>1 DEF Reviews
  <2> HIDE DEF new
  <2>3. CallOK(c, new)
    BY <1>1, <1>9, <2>2 DEF CallOK
  <2> QED
    BY <2>1, <2>2, <2>3 DEF new
<1>10. CASE MarkUnreviewed(c)
  <2>1. r.pc = "marking" /\ Becomes(c, [r EXCEPT !.pc = "saving"]) /\ UNCHANGED <<batch, stage>>
    BY <1>10 DEF MarkUnreviewed
  <2>2. LogGrows
    <3> DEFINE others == {i \in DOMAIN reviewLog : reviewLog[i].material = c[2] /\ reviewLog[i].status # "unreviewed"}
               row == Row(c[2], "unreviewed", 0)
               marked == [i \in DOMAIN reviewLog |-> IF i \in others THEN [reviewLog[i] EXCEPT !.status = "unreviewed"]
                                                     ELSE reviewLog[i]]
    <3>1. row \in LogRows
      BY <1>2, DraftText DEF Row, LogRows
    <3>2. reviewLog \in Seq(LogRows) /\ Len(reviewLog) \in Nat /\ DOMAIN reviewLog = 1 .. Len(reviewLog)
          /\ \A i \in 1 .. Len(reviewLog) : reviewLog[i] \in LogRows
      BY <1>1 DEF ReviewTypes
    <3>3. reviewLog' = IF others = {} THEN Append(reviewLog, row) ELSE marked
      BY <1>10 DEF MarkUnreviewed
    <3>4. CASE others = {}
      <4> HIDE DEF others, row
      <4> QED
        BY <3>1, <3>2, <3>3, <3>4, AppendProperties DEF LogGrows
    <3>5. CASE others # {}
      <4>1. \A i \in 1 .. Len(reviewLog) : /\ marked[i] \in LogRows
                                           /\ marked[i].material = reviewLog[i].material /\ marked[i].cycles = reviewLog[i].cycles
                                           /\ reviewLog[i].status = "unreviewed" => marked[i].status = "unreviewed"
        BY <3>2 DEF LogRows
      <4>2. DOMAIN marked = 1 .. Len(reviewLog)
        BY <3>2
      <4>3. reviewLog' = marked
        BY <3>3, <3>5
      <4>4. marked \in Seq(LogRows) /\ Len(marked) = Len(reviewLog)
        <5>1. marked = [i \in 1 .. Len(reviewLog) |-> marked[i]]
          BY <3>2
        <5> HIDE DEF marked
        <5> QED
          BY <3>2, <4>1, <4>2, <5>1
      <4> HIDE DEF marked
      <4> QED
        BY <4>1, <4>3, <4>4 DEF LogGrows
    <3> QED
      BY <3>4, <3>5
  <2> QED
    BY <1>9, <2>1, <2>2, OneCall
<1>11. CASE SaveLog(c)
  <2> DEFINE row == Row(c[2], r.status, r.cycles)
             new == [r EXCEPT !.pc = "returned"]
  <2>1. r.pc = "saving" /\ Becomes(c, new) /\ UNCHANGED <<batch, stage>> /\ reviewLog' = Append(reviewLog, row)
    BY <1>11 DEF SaveLog
  <2>2. row \in LogRows /\ row.material = c[2] /\ row.status = r.status
    BY <1>1, <2>1, DraftText DEF Row, LogRows, CallOK, Reviews, Statuses
  <2> HIDE DEF row
  <2>3. reviewLog \in Seq(LogRows) /\ Len(reviewLog) \in Nat
    BY <1>1 DEF ReviewTypes
  <2>4. /\ reviewLog' \in Seq(LogRows) /\ Len(reviewLog') = Len(reviewLog) + 1
        /\ \A i \in 1 .. Len(reviewLog) : reviewLog'[i] = reviewLog[i]
        /\ reviewLog'[Len(reviewLog) + 1] = row
    BY <2>1, <2>2, <2>3, AppendProperties
  <2>5. LogGrows
    BY <2>3, <2>4 DEF LogGrows
  <2>6. Len(reviewLog) + 1 \in 1 .. Len(reviewLog')
    BY <2>3, <2>4
  <2>7. Logged(c[2])' /\ (r.status = "unreviewed" => Listed(c[2])')
    BY <2>2, <2>4, <2>6 DEF Logged, Listed
  <2>8. new \in Reviews /\ CallOK(c, new) /\ new.pc = "returned" /\ new.status = r.status
    BY <1>9, <2>1
  <2> HIDE DEF new
  <2> QED
    BY <2>1, <2>5, <2>7, <2>8, OneCall
<1>12. CASE StoreFails(c)
  <2>1. r.pc \in {"marking", "saving"} /\ Becomes(c, [r EXCEPT !.pc = "raised"]) /\ UNCHANGED <<batch, stage>>
    BY <1>12 DEF StoreFails
  <2>2. LogGrows
    BY <1>1, <1>12, SameLog DEF StoreFails
  <2> QED
    BY <1>9, <2>1, <2>2, OneCall
<1> QED
  BY <1>3, <1>4, <1>6, <1>7, <1>8, <1>10, <1>11, <1>12 DEF CallStep

(* So does each step of a batch: one that ends without a failure has the   *)
(* results of all its reviews.                                             *)
LEMMA BatchSteps ==
    ASSUME ReviewInv, NEW b \in Batches, FetchPending(b) \/ Gather(b)
    PROVE  ReviewInv' /\ LogGrows
<1>1. ReviewTypes /\ UNCHANGED <<reviewLog, stage>>
  BY DEF ReviewInv, FetchPending, Gather
<1>2. LogGrows
  BY <1>1, SameLog
<1>3. \A m : (Logged(m)' <=> Logged(m)) /\ (Listed(m)' <=> Listed(m))
  BY <1>1 DEF Logged, Listed
<1>4. Batches \cap Pipelines = {}
  BY ReviewAssumption
<1>5. ASSUME FetchPending(b), UNCHANGED review PROVE ReviewInv'
  <2> DEFINE ended == Summary("ended", Cardinality(Fetched), 0)
             running == Summary("running", 0, 0)
  <2>0. CASE batch' = [batch EXCEPT ![b] = running] /\ review' = [c \in Calls |-> IF c[1] = b /\ c[2] \in Fetched
                                        THEN [NoCall EXCEPT !.pc = "queued"] ELSE review[c]]
    <3>1. batch'[b].state = "running" /\ \A d \in Batches : d # b => batch'[d] = batch[d]
      BY <1>1, <2>0 DEF ReviewTypes, Summary
    <3>2. \A d \in Batches : UnreviewedBy(d)' = UnreviewedBy(d)
      BY <1>5 DEF UnreviewedBy
    <3>3. \A d \in Batches : BatchOK(d)'
      BY <1>5, <3>1, <3>2 DEF ReviewInv, BatchOK
    <3>4. ReviewTypes'
      BY <1>1, <1>5, <2>0 DEF ReviewTypes, Summary
    <3> QED
      BY <1>1, <1>3, <1>5, <3>3, <3>4 DEF ReviewInv, InLog, StageOK, Owns
  <2>1. CASE batch' = [batch EXCEPT ![b] = ended]
    <3>1. /\ batch'[b].state = "ended" /\ batch'[b].failed = Cardinality(Fetched) /\ batch'[b].unreviewed = 0
          /\ \A d \in Batches : d # b => batch'[d] = batch[d]
      BY <1>1, <2>1 DEF ReviewTypes, Summary
    <3>2. \A d \in Batches : UnreviewedBy(d)' = UnreviewedBy(d)
      BY <1>5 DEF UnreviewedBy
    <3>3. Cardinality(Fetched) = 0 => Fetched = {} /\ UnreviewedBy(b) = 0
      <4>1. Fetched = {} => {m \in Fetched : review[<<b, m>>].status = "unreviewed"} = {}
        OBVIOUS
      <4> QED
        BY <4>1, FetchedFinite, FS_EmptySet DEF UnreviewedBy
    <3>4. \A d \in Batches : BatchOK(d)'
      BY <1>5, <3>1, <3>2, <3>3 DEF ReviewInv, BatchOK
    <3>5. ReviewTypes'
      BY <1>1, <1>5, <2>1, FetchedFinite DEF ReviewTypes, Summary
    <3> QED
      BY <1>1, <1>3, <1>5, <3>4, <3>5 DEF ReviewInv, InLog, StageOK, Owns
  <2> QED
    BY <1>5, <2>0, <2>1 DEF FetchPending
<1>6. ASSUME FetchPending(b), ~ UNCHANGED review PROVE ReviewInv'
  <2> DEFINE queued == [NoCall EXCEPT !.pc = "queued"]
             running == Summary("running", 0, 0)
  <2>1. /\ batch[b].state = "idle" /\ batch' = [batch EXCEPT ![b] = running]
        /\ review' = [c \in Calls |-> IF c[1] = b /\ c[2] \in Fetched THEN queued ELSE review[c]]
    BY <1>6 DEF FetchPending
  <2>2. queued \in Reviews /\ queued.pc = "queued" /\ \A c : CallOK(c, queued)
    <3>1. 0 \in 0 .. MAX_CYCLES /\ 0 \in 0 .. MAX_RETRIES /\ <<>> \in Texts /\ Len(<<>>) = 0
      BY ReviewAssumption DEF Texts
    <3>2. NoCall \in Reviews
      BY <3>1 DEF NoCall, Reviews, Statuses
    <3>3. NoCall.status = "none" /\ NoCall.text = <<>>
      BY DEF NoCall
    <3>4. queued \in Reviews /\ queued.pc = "queued" /\ queued.status = NoCall.status /\ queued.text = NoCall.text
      BY <3>2 DEF Reviews
    <3> HIDE DEF queued
    <3> QED
      BY <3>1, <3>3, <3>4 DEF CallOK, Grounded
  <2> HIDE DEF queued
  <2>3. batch'[b].state = "running" /\ \A d \in Batches : d # b => batch'[d] = batch[d]
    BY <1>1, <2>1 DEF ReviewTypes, Summary
  <2>4. ReviewTypes'
    BY <1>1, <2>1, <2>2 DEF ReviewTypes, Summary
  <2>5. ASSUME NEW c \in Calls PROVE (CallOK(c, review[c]) /\ InLog(c, review[c]))'
    <3>1. CallOK(c, review[c]) /\ InLog(c, review[c]) /\ review'[c] \in {queued, review[c]}
      BY <2>1 DEF ReviewInv
    <3> QED
      BY <1>3, <2>2, <3>1 DEF InLog
  <2>6. ASSUME NEW d \in Batches PROVE BatchOK(d)'
    <3>1. CASE d = b
      BY <2>3, <3>1 DEF BatchOK
    <3>2. CASE d # b
      <4>1. \A m \in Fetched : review'[<<d, m>>] = review[<<d, m>>]
        BY <2>1, <3>2, FetchedFinite DEF Calls
      <4>2. {m \in Fetched : review'[<<d, m>>].status = "unreviewed"} = {m \in Fetched : review[<<d, m>>].status = "unreviewed"}
        BY <4>1
      <4>3. UnreviewedBy(d)' = UnreviewedBy(d)
        BY <4>2, Zenon DEF UnreviewedBy
      <4> QED
        BY <2>3, <3>2, <4>1, <4>3 DEF ReviewInv, BatchOK
    <3> QED
      BY <3>1, <3>2
  <2>7. ASSUME NEW p \in Pipelines PROVE StageOK(p)'
    <3>1. \A x \in Materials : review'[<<p, x>>] = review[<<p, x>>]
      BY <1>4, <2>1 DEF Calls
    <3> QED
      BY <1>1, <3>1 DEF ReviewInv, StageOK, Owns
  <2> QED
    BY <2>4, <2>5, <2>6, <2>7 DEF ReviewInv
<1>7. ASSUME Gather(b) PROVE ReviewInv'
  <2> DEFINE failed == Summary("ended", Cardinality(Fetched), 0)
             clean == Summary("ended", 0, UnreviewedBy(b))
  <2>1. UNCHANGED review
    BY <1>7 DEF Gather
  <2>2. \A d \in Batches : UnreviewedBy(d)' = UnreviewedBy(d)
    BY <2>1 DEF UnreviewedBy
  <2>3. UnreviewedBy(b) \in Nat /\ Cardinality(Fetched) \in Nat
    <3>1. {m \in Fetched : review[<<b, m>>].status = "unreviewed"} \in SUBSET Fetched
      OBVIOUS
    <3> QED
      BY <3>1, CountedFinite, FetchedFinite DEF UnreviewedBy
  <2>4. ASSUME NEW m \in Fetched, batch' = [batch EXCEPT ![b] = failed] PROVE ReviewTypes' /\ \A d \in Batches : BatchOK(d)'
    <3>1. Cardinality(Fetched) # 0
      BY FetchedFinite, FS_EmptySet
    <3>2. batch'[b].failed = Cardinality(Fetched) /\ \A d \in Batches : d # b => batch'[d] = batch[d]
      BY <1>1, <2>4 DEF ReviewTypes, Summary
    <3>3. ReviewTypes'
      BY <1>1, <2>1, <2>3, <2>4 DEF ReviewTypes, Summary
    <3> QED
      BY <2>1, <2>2, <3>1, <3>2, <3>3 DEF ReviewInv, BatchOK
  <2>5. ASSUME \A m \in Fetched : review[<<b, m>>].pc = "returned", batch' = [batch EXCEPT ![b] = clean]
        PROVE  ReviewTypes' /\ \A d \in Batches : BatchOK(d)'
    <3>1. batch'[b].unreviewed = UnreviewedBy(b) /\ \A d \in Batches : d # b => batch'[d] = batch[d]
      BY <1>1, <2>5 DEF ReviewTypes, Summary
    <3>2. ReviewTypes'
      BY <1>1, <2>1, <2>3, <2>5 DEF ReviewTypes, Summary
    <3> QED
      BY <2>1, <2>2, <2>5, <3>1, <3>2 DEF ReviewInv, BatchOK
  <2>6. ReviewTypes' /\ \A d \in Batches : BatchOK(d)'
    BY <1>7, <2>4, <2>5 DEF Gather
  <2> QED
    BY <1>1, <1>3, <2>1, <2>6 DEF ReviewInv, InLog, StageOK, Owns
<1> QED
  BY <1>2, <1>5, <1>6, <1>7

(* The call that the stage of a pipeline has made.                         *)
LEMMA OwnCall ==
    ASSUME NEW p \in Pipelines, NEW m \in Materials, Owns(p, m)
    PROVE  CallOf(p) = <<p, m>> /\ <<p, m>> \in Calls
<1>1. \A c : (c \in Calls /\ c[1] = p /\ review[c].pc # "none") <=> c = <<p, m>>
  BY DEF Owns, Calls
<1>2. <<p, m>> \in Calls
  BY DEF Calls
<1>3. \E c \in Calls : c[1] = p /\ review[c].pc # "none"
  BY <1>1, <1>2
<1>4. CallOf(p) \in Calls /\ CallOf(p)[1] = p /\ review[CallOf(p)].pc # "none"
  BY <1>3, Zenon DEF CallOf
<1> QED
  BY <1>1, <1>2, <1>4

(* So does each step of a pipeline, which keeps to the one call it made.   *)
LEMMA PipelineSteps ==
    ASSUME ReviewInv, NEW p \in Pipelines, Generate(p) \/ AfterReview(p)
    PROVE  ReviewInv' /\ LogGrows
<1>1. ReviewTypes /\ UNCHANGED <<reviewLog, batch>>
  BY DEF ReviewInv, Generate, AfterReview
<1>2. LogGrows
  BY <1>1, SameLog
<1>3. \A m : (Logged(m)' <=> Logged(m)) /\ (Listed(m)' <=> Listed(m))
  BY <1>1 DEF Logged, Listed
<1>4. Batches \cap Pipelines = {}
  BY ReviewAssumption
<1>5. <<>> \in Texts
  BY DEF Texts
<1>6. ASSUME Generate(p), UNCHANGED review, stage' = [stage EXCEPT ![p] = [NoStage EXCEPT !.state = "raised"]] PROVE ReviewInv'
  <2>1. stage'[p].state = "raised" /\ \A q \in Pipelines : q # p => stage'[q] = stage[q]
    BY <1>1, <1>6 DEF ReviewTypes, NoStage
  <2>2. ReviewTypes'
    BY <1>1, <1>5, <1>6 DEF ReviewTypes, NoStage, Stages, Statuses
  <2>3. \A b \in Batches : UnreviewedBy(b)' = UnreviewedBy(b)
    BY <1>6 DEF UnreviewedBy
  <2>4. stage[p].state = "idle" /\ StageOK(p)
    BY <1>6 DEF Generate, ReviewInv
  <2>5. \A q \in Pipelines : StageOK(q)'
    BY <1>6, <2>1, <2>4 DEF ReviewInv, StageOK, Owns
  <2> QED
    BY <1>1, <1>3, <1>6, <2>2, <2>3, <2>5 DEF ReviewInv, InLog, BatchOK
<1>7. ASSUME Generate(p), NEW m \in Materials, Becomes(<<p, m>>, Begun(<<p, m>>)),
             stage' = [stage EXCEPT ![p] = [NoStage EXCEPT !.state = "reviewing"]]
      PROVE ReviewInv'
  <2> DEFINE c == <<p, m>>
             new == Begun(c)
  <2>1. c \in Calls /\ c[1] = p /\ c[2] = m
    BY DEF Calls
  <2> HIDE DEF c
  <2>2. new \in Reviews /\ CallOK(c, new) /\ new.pc # "none" /\ new.status # "unreviewed"
        /\ (new.pc = "returned" => c[2] \notin Configured)
    BY <2>1, BegunOK
  <2> HIDE DEF new
  <2>3. review' = [review EXCEPT ![c] = new]
    BY <1>7 DEF Becomes, c, new
  <2>4. stage'[p].state = "reviewing" /\ \A q \in Pipelines : q # p => stage'[q] = stage[q]
    BY <1>1, <1>7 DEF ReviewTypes, NoStage
  <2>5. review'[c] = new /\ \A d \in Calls : d # c => review'[d] = review[d]
    BY <1>1, <2>1, <2>3 DEF ReviewTypes
  <2>6. ReviewTypes'
    <3>1. review' \in [Calls -> Reviews]
      BY <1>1, <2>1, <2>2, <2>3 DEF ReviewTypes
    <3>2. stage' \in [Pipelines -> Stages]
      BY <1>1, <1>5, <1>7 DEF ReviewTypes, NoStage, Stages, Statuses
    <3> QED
      BY <1>1, <3>1, <3>2 DEF ReviewTypes
  <2>7. ASSUME NEW d \in Calls PROVE (CallOK(d, review[d]) /\ InLog(d, review[d]))'
    <3>1. CASE d = c
      BY <2>2, <2>5, <3>1 DEF InLog
    <3>2. CASE d # c
      BY <1>3, <2>5, <3>2 DEF ReviewInv, InLog
    <3> QED
      BY <3>1, <3>2
  <2>8. ASSUME NEW b \in Batches PROVE BatchOK(b)'
    <3>1. \A x \in Fetched : review'[<<b, x>>] = review[<<b, x>>]
      BY <1>4, <2>1, <2>5, FetchedFinite DEF Calls
    <3>2. {x \in Fetched : review'[<<b, x>>].status = "unreviewed"} = {x \in Fetched : review[<<b, x>>].status = "unreviewed"}
      BY <3>1
    <3>3. UnreviewedBy(b)' = UnreviewedBy(b)
      BY <3>2, Zenon DEF UnreviewedBy
    <3> QED
      BY <1>1, <3>1, <3>3 DEF ReviewInv, BatchOK
  <2>9. ASSUME NEW q \in Pipelines PROVE StageOK(q)'
    <3>1. CASE q # p
      <4>1. \A x \in Materials : review'[<<q, x>>] = review[<<q, x>>]
        BY <2>1, <2>5, <3>1 DEF Calls
      <4> QED
        BY <2>4, <3>1, <4>1 DEF ReviewInv, StageOK, Owns
    <3>2. CASE q = p
      <4>1. stage[p].state = "idle" /\ StageOK(p)
        BY <1>7 DEF Generate, ReviewInv
      <4>2. \A x \in Materials : review[<<p, x>>].pc = "none"
        BY <4>1 DEF StageOK
      <4>3. \A x \in Materials : x # m => review'[<<p, x>>].pc = "none"
        BY <2>1, <2>5, <4>2 DEF Calls
      <4>4. review'[<<p, m>>].pc # "none"
        BY <2>2, <2>5 DEF c
      <4>5. Owns(p, m)'
        BY <4>3, <4>4 DEF Owns
      <4> QED
        BY <2>4, <3>2, <4>5 DEF StageOK
    <3> QED
      BY <3>1, <3>2
  <2> QED
    BY <2>6, <2>7, <2>8, <2>9 DEF ReviewInv
<1>8. ASSUME AfterReview(p) PROVE ReviewInv'
  <2>1. stage[p].state = "reviewing" /\ StageOK(p) /\ UNCHANGED review
    BY <1>8 DEF AfterReview, ReviewInv
  <2>2. PICK m \in Materials : Owns(p, m)
    BY <2>1 DEF StageOK
  <2> DEFINE c == CallOf(p)
             raised == review[c].pc = "raised"
             text == IF raised THEN DraftOf(c) ELSE review[c].text
             status == IF raised THEN "unreviewed" ELSE review[c].status
  <2>3. c = <<p, m>> /\ c \in Calls
    BY <2>2, OwnCall
  <2>4. PICK grounding \in GroundingOutcomes :
           stage' = [stage EXCEPT ![p] = [state |-> "prepared", text |-> text, status |-> status, grounding |-> grounding]]
    BY <1>8 DEF AfterReview
  <2> HIDE DEF c
  <2>5. text \in Texts /\ status \in Statuses /\ (status = "unreviewed" => text = Draft[m])
    <3>1. review[c] \in Reviews /\ CallOK(c, review[c])
      BY <1>1, <2>3 DEF ReviewTypes, ReviewInv
    <3>2. DraftOf(c) \in Texts /\ DraftOf(c) = Draft[m]
      BY <2>3, DraftText DEF DraftOf
    <3> QED
      BY <3>1, <3>2 DEF Reviews, CallOK, Statuses
  <2> HIDE DEF text, status
  <2> DEFINE new == [state |-> "prepared", text |-> text, status |-> status, grounding |-> grounding]
  <2>6. new \in Stages
    BY <2>5 DEF Stages, GroundingOutcomes
  <2>7. ReviewTypes'
    BY <1>1, <2>1, <2>4, <2>6 DEF ReviewTypes
  <2>8. stage'[p] = new /\ \A q \in Pipelines : q # p => stage'[q] = stage[q]
    BY <1>1, <2>4 DEF ReviewTypes
  <2>9. ASSUME NEW q \in Pipelines PROVE StageOK(q)'
    <3>1. CASE q # p
      BY <2>1, <2>8, <3>1 DEF ReviewInv, StageOK, Owns
    <3>2. CASE q = p
      <4>1. Owns(p, m)'
        BY <2>1, <2>2 DEF Owns
      <4>2. stage'[p].state = "prepared" /\ (stage'[p].status = "unreviewed" => stage'[p].text = Draft[m])
        BY <2>5, <2>8
      <4> QED
        BY <3>2, <4>1, <4>2 DEF StageOK
    <3> QED
      BY <3>1, <3>2
  <2>10. \A b \in Batches : UnreviewedBy(b)' = UnreviewedBy(b)
    BY <2>1 DEF UnreviewedBy
  <2> QED
    BY <1>1, <1>3, <2>1, <2>7, <2>9, <2>10 DEF ReviewInv, InLog, BatchOK
<1> QED
  BY <1>2, <1>6, <1>7, <1>8 DEF Generate

(* So each step of the reviews keeps the invariant.                        *)
LEMMA ReviewStep ==
    ASSUME ReviewInv, [RevNext]_revVars
    PROVE  ReviewInv' /\ LogGrows
<1>1. CASE UNCHANGED revVars
  <2>1. \A b \in Batches : UnreviewedBy(b)' = UnreviewedBy(b)
    BY <1>1 DEF UnreviewedBy, revVars
  <2>2. \A b \in Batches : BatchOK(b)'
    BY <1>1, <2>1 DEF ReviewInv, BatchOK, revVars
  <2>3. \A c \in Calls : (CallOK(c, review[c]) /\ InLog(c, review[c]))'
    BY <1>1 DEF ReviewInv, InLog, Logged, Listed, revVars
  <2>4. \A p \in Pipelines : StageOK(p)'
    BY <1>1 DEF ReviewInv, StageOK, Owns, revVars
  <2> QED
    BY <1>1, <2>2, <2>3, <2>4, SameLog DEF ReviewInv, ReviewTypes, revVars
<1>2. CASE RevNext
  BY <1>2, CallSteps, BatchSteps, PipelineSteps DEF RevNext
<1> QED
  BY <1>1, <1>2

(* It holds before anything is reviewed.                                   *)
LEMMA ReviewInit == ASSUME RevInit PROVE ReviewInv
<1> DEFINE e == <<>>
<1>1. 0 \in 0 .. MAX_CYCLES /\ 0 \in 0 .. MAX_RETRIES /\ e \in Texts /\ Len(e) = 0
  BY ReviewAssumption DEF Texts
<1> HIDE DEF e
<1> DEFINE none == [pc |-> "none", tries |-> 0, text |-> e, score |-> 0, revised |-> FALSE, cycles |-> 0, status |-> "none"]
           idle == [state |-> "idle", text |-> e, status |-> "none", grounding |-> "none"]
<1>2. NoCall = none /\ NoStage = idle
  BY DEF NoCall, NoStage, e
<1>3. none \in Reviews /\ none.pc = "none" /\ \A c : CallOK(c, none)
  BY <1>1 DEF Reviews, CallOK, Grounded, Statuses
<1>4. idle \in Stages /\ idle.state = "idle"
  BY <1>1 DEF Stages, Statuses
<1> HIDE DEF none, idle
<1>5. review = [c \in Calls |-> none] /\ stage = [p \in Pipelines |-> idle]
      /\ batch = [b \in Batches |-> Summary("idle", 0, 0)] /\ reviewLog = <<>>
  BY <1>2 DEF RevInit
<1>6. ReviewTypes
  BY <1>3, <1>4, <1>5 DEF ReviewTypes, Summary
<1>7. \A c \in Calls : CallOK(c, review[c]) /\ InLog(c, review[c])
  BY <1>3, <1>5 DEF InLog
<1>8. \A b \in Batches : BatchOK(b)
  BY <1>5 DEF BatchOK, Summary
<1>9. \A p \in Pipelines : StageOK(p)
  BY <1>3, <1>4, <1>5 DEF StageOK, Calls
<1> QED
  BY <1>6, <1>7, <1>8, <1>9 DEF ReviewInv

-----------------------------------------------------------------------------
\* What is proved of the reviews.

(* The invariants of reviews, batches and pipelines follow from it.        *)
LEMMA ReviewImplies ==
    ASSUME ReviewInv
    PROVE  /\ RevTypeOK /\ UnreviewedIsTheDraft /\ EditsStayGrounded /\ ScoreIsOfTheText
           /\ DegradedIsListed /\ CleanBatchIsLogged
<1>1. ReviewTypes /\ (\A c \in Calls : CallOK(c, review[c]) /\ InLog(c, review[c]))
      /\ (\A b \in Batches : BatchOK(b)) /\ (\A p \in Pipelines : StageOK(p))
  BY DEF ReviewInv
<1>2. reviewLog \in Seq(LogRows) /\ DOMAIN reviewLog = 1 .. Len(reviewLog)
  BY <1>1 DEF ReviewTypes
<1>3. \A c \in Calls : review[c] \in Reviews /\ DOMAIN review[c].text = 1 .. Len(review[c].text)
  BY <1>1 DEF ReviewTypes, Reviews, Texts
<1>4. RevTypeOK
  <2>1. \A i \in DOMAIN reviewLog : reviewLog[i].status \in Statuses \ {"none"}
    <3>1. \A i \in DOMAIN reviewLog : reviewLog[i] \in LogRows
      BY <1>2
    <3> QED
      BY <3>1 DEF LogRows, Statuses
  <2> QED
    BY <1>1, <1>3, <2>1 DEF RevTypeOK, ReviewTypes, Reviews, Stages
<1>5. UnreviewedIsTheDraft
  <2>1. ASSUME NEW p \in Pipelines, stage[p].state = "prepared", stage[p].status = "unreviewed"
        PROVE  stage[p].text = DraftOf(CallOf(p))
    <3>1. PICK m \in Materials : Owns(p, m) /\ stage[p].text = Draft[m]
      BY <1>1, <2>1 DEF StageOK
    <3>2. CallOf(p) = <<p, m>>
      BY <3>1, OwnCall
    <3>3. DraftOf(CallOf(p)) = Draft[CallOf(p)[2]]
      BY DEF DraftOf
    <3> QED
      BY <3>1, <3>2, <3>3
  <2> QED
    BY <1>1, <2>1 DEF UnreviewedIsTheDraft, CallOK
<1>6. EditsStayGrounded
  <2>1. ASSUME Assets # {}, NEW c \in Calls, ~ review[c].revised, NEW w \in WordsIn(review[c].text) \cap Significant
        PROVE  w \in WordsIn(DraftOf(c)) \cup AssetWords
    <3>1. PICK i \in 1 .. Len(review[c].text) : w \in WordsOf[review[c].text[i]]
      BY <1>3, <2>1 DEF Range, WordsIn
    <3> QED
      BY <1>1, <2>1, <3>1 DEF CallOK, Grounded
  <2> QED
    BY <2>1 DEF EditsStayGrounded
<1>7. ScoreIsOfTheText
  BY <1>1 DEF ScoreIsOfTheText, CallOK
<1>8. DegradedIsListed
  BY <1>1, <1>2 DEF DegradedIsListed, InLog, Listed
<1>9. CleanBatchIsLogged
  <2>1. ASSUME NEW b \in Batches, batch[b].state = "ended", batch[b].failed = 0, NEW m \in Fetched \cap Configured
        PROVE  \E i \in DOMAIN reviewLog : reviewLog[i].material = m
    <3>1. <<b, m>> \in Calls /\ <<b, m>>[2] = m
      BY FetchedFinite DEF Calls
    <3>2. review[<<b, m>>].pc = "returned"
      BY <1>1, <2>1 DEF BatchOK
    <3>3. Logged(m)
      BY <1>1, <2>1, <3>1, <3>2 DEF InLog
    <3> QED
      BY <1>2, <3>3 DEF Logged
  <2> QED
    BY <1>1, <2>1 DEF CleanBatchIsLogged, BatchOK
<1> QED
  BY <1>4, <1>5, <1>6, <1>7, <1>8, <1>9

(* Whatever the model and the database answer, and however reviews of the  *)
(* batches and the pipelines interleave: degraded reviews hand on the      *)
(* draft and stay listed, the edits put no significant word into a text    *)
(* that is neither in the draft nor in the assets, scores are of the text  *)
(* they come with, clean batches have logged every review, and rows of the *)
(* log only degrade.                                                       *)
THEOREM ReviewHolds == RevSpec => ReviewSafety
<1>1. RevInit => ReviewInv
  BY ReviewInit
<1>2. ReviewInv /\ [RevNext]_revVars => ReviewInv'
  BY ReviewStep
<1>3. ReviewInv => /\ RevTypeOK /\ UnreviewedIsTheDraft /\ EditsStayGrounded /\ ScoreIsOfTheText
                   /\ DegradedIsListed /\ CleanBatchIsLogged
  BY ReviewImplies
<1>4. ReviewInv /\ [RevNext]_revVars => RowsOnlyDegrade
  <2> SUFFICES ASSUME ReviewInv, [RevNext]_revVars PROVE RowsOnlyDegrade
    OBVIOUS
  <2>1. LogGrows /\ ReviewTypes /\ ReviewTypes'
    BY ReviewStep DEF ReviewInv
  <2>2. DOMAIN reviewLog = 1 .. Len(reviewLog) /\ DOMAIN reviewLog' = 1 .. Len(reviewLog')
    BY <2>1 DEF ReviewTypes
  <2> QED
    BY <2>1, <2>2 DEF RowsOnlyDegrade, LogGrows
<1>5. ReviewInv /\ [RevNext]_revVars => [RowsOnlyDegrade]_revVars
  BY <1>4
<1> QED
  BY <1>1, <1>2, <1>3, <1>5, PTL DEF RevSpec, ReviewSafety
=============================================================================

--------------------------- MODULE Pipeline_proofs ---------------------------
(***************************************************************************)
(* Proofs about Pipeline, for any records, any number of interleaved calls *)
(* and any sequence of grounding outcomes.                                 *)
(***************************************************************************)
EXTENDS Pipeline, TLAPS

(* A call that has read its row. *)
Reading(h) == pc[h] \in {"gate", "write"}
Committed(h) == pc[h] \in {"publish", "dispatch", "notify"}

(* What a call carries across its awaits: it is about an existing record,  *)
(* the event it read the row for had its cause, and a gated write still    *)
(* has the report that the gate saw.                                       *)
CallInv(h) ==
    /\ (Reading(h) \/ Committed(h) \/ result[h] = "advanced") => call[h].rec \in Records
    /\ Reading(h) =>
         /\ call[h].op = "reply" => HasBeen(call[h].rec, "Sent")
         /\ call[h].op = "meeting" =>
              \E s \in MEETING_ELIGIBLE_STATES : HasBeen(call[h].rec, s)
         /\ call[h].op = "proposal" => /\ HasBeen(call[h].rec, "Replied")
                                       /\ TypeOf[call[h].rec] = "cold_outreach_team"
         /\ call[h].op # "validation_failed" => ~call[h].snap.terminal
    /\ pc[h] = "write" /\ call[h].target \in GATED_STATES => report[call[h].rec] # "none"
    /\ Committed(h) \/ result[h] = "advanced" =>
         [op |-> call[h].op, status |-> call[h].target] \in past[call[h].rec]
    /\ call[h].op = "validation_failed" => call[h].target = "validation_failed"
    /\ pc[h] = "notify" => call[h].op = "validation_failed"

CallsInv == \A h \in Handlers : CallInv(h)

(* A row that has left its first status shows a committed transition. *)
RowFromPast ==
    \A r \in Records : row[r].status # FirstStatus[TypeOf[r]] => HasBeen(r, row[r].status)

IInv ==
    /\ TypeOK
    /\ CallsInv
    /\ RowFromPast
    /\ GatedHasReport
    /\ EventsFollowTheirCause
    /\ QueuedAfterCommit

-----------------------------------------------------------------------------
(* FirstStatus is neither gated nor terminal, nor one an event starts from. *)
LEMMA FirstStatusFacts ==
    ASSUME NEW t \in OpportunityTypes
    PROVE  /\ FirstStatus[t] \in Status
           /\ FirstStatus[t] \notin GATED_STATES
           /\ FirstStatus[t] \notin MEETING_ELIGIBLE_STATES
           /\ FirstStatus[t] \notin TERMINAL_STATES
  BY DEF FirstStatus, OpportunityTypes, Status, GATED_STATES, MEETING_ELIGIBLE_STATES,
         TERMINAL_STATES

(* What an operation aims at is a status.                                  *)
LEMMA TargetType ==
    ASSUME NEW op \in AllOps, NEW t \in Status
    PROVE  /\ Target(op, t) \in Status
           /\ op = "validation_failed" => Target(op, t) = "validation_failed"
  BY DEF Target, AllOps, Status, GATED_STATES, MEETING_ELIGIBLE_STATES, TERMINAL_STATES

(* Type correctness holds initially. *)
LEMMA InitType == Init => TypeOK
  <1> SUFFICES ASSUME Init PROVE TypeOK
    OBVIOUS
  <1>1. \A r \in Records : FirstStatus[TypeOf[r]] \in Status
    BY FirstStatusFacts, PipelineAssumption DEF PipelineAssumption
  <1>2. NoRow \in Row /\ NoCall(NoRecord) \in Calls
    BY DEF NoRow, Row, NoCall, Calls, AllOps, Status
  <1>3. QED
    BY <1>1, <1>2 DEF Init, TypeOK, Row, ReportStatus, Results, Awaits

(* Every step keeps the types; Notify needs to know that its record exists. *)
LEMMA TypeStep == TypeOK /\ CallsInv /\ [Next]_vars => TypeOK'
<1> SUFFICES ASSUME TypeOK, CallsInv, [Next]_vars PROVE TypeOK'
  OBVIOUS
<1> USE DEF TypeOK
<1>1. ASSUME NEW h \in Handlers, Begin(h) PROVE TypeOK'
  <2>1. PICK op \in Ops, r \in Records \cup {NoRecord}, t \in ManualTargets, text \in Texts :
          /\ call' = [call EXCEPT ![h] =
                        [op |-> op, rec |-> r, target |-> Target(op, t), snap |-> NoRow]]
          /\ Suspend(h, "read") \/ Return(h, "no_change")
    BY <1>1 DEF Begin
  <2>2. [op |-> op, rec |-> r, target |-> Target(op, t), snap |-> NoRow] \in Calls
    <3>1. op \in AllOps /\ t \in Status
      BY PipelineAssumption DEF PipelineAssumption
    <3>2. Target(op, t) \in Status
      BY <3>1, TargetType
    <3>3. NoRow \in Row
      BY DEF NoRow, Row, Status
    <3>4. QED
      BY <3>1, <3>2, <3>3 DEF Calls
  <2>3. call' \in [Handlers -> Calls]
    BY <2>1, <2>2
  <2>4. pc' \in [Handlers -> Awaits \cup {"idle"}] /\ result' \in [Handlers -> Results]
    BY <2>1 DEF Suspend, Return, Awaits, Results
  <2>5. QED
    BY <1>1, <2>3, <2>4 DEF Begin
<1>2. ASSUME NEW h \in Handlers, Read(h) PROVE TypeOK'
  <2>1. call' = call \/ (call[h].rec \in Records /\ call' = [call EXCEPT ![h].snap = row[call[h].rec]])
    BY <1>2 DEF Read
  <2>2. call' \in [Handlers -> Calls]
    BY <2>1 DEF Calls
  <2>3. pc' \in [Handlers -> Awaits \cup {"idle"}] /\ result' \in [Handlers -> Results]
    BY <1>2 DEF Read, Suspend, Return, Awaits, Results
  <2>4. QED
    BY <1>2, <2>2, <2>3 DEF Read
<1>3. ASSUME NEW h \in Handlers, Gate(h) PROVE TypeOK'
  BY <1>3 DEF Gate, Suspend, Return, Awaits, Results
<1>4. ASSUME NEW h \in Handlers, Write(h) PROVE TypeOK'
  <2>1. NewRow(h) \in Row
    BY DEF NewRow, Row, Calls
  <2>2. [op |-> call[h].op, status |-> call[h].target] \in [op : AllOps, status : Status]
    BY DEF Calls
  <2>3. row' \in [Records -> Row]
    BY <1>4, <2>1 DEF Write
  <2>4. past' \in [Records -> SUBSET [op : AllOps, status : Status]]
    BY <1>4, <2>2 DEF Write
  <2>5. QED
    BY <1>4, <2>3, <2>4 DEF Write, Suspend, Awaits, Results
<1>5. ASSUME NEW h \in Handlers, Publish(h) PROVE TypeOK'
  <2>1. \A r \in Records : row[r].status \in Status
    BY DEF Row
  <2>2. board' \in [Records -> Status]
    BY <1>5, <2>1 DEF Publish
  <2>3. call[h].rec \in Records
    BY <1>5 DEF Publish, CallsInv, CallInv, Committed
  <2>4. unseen' \subseteq Records
    BY <1>5, <2>3 DEF Publish
  <2>5. QED
    BY <1>5, <2>2, <2>4 DEF Publish, Suspend, Awaits, Results
<1>6. ASSUME NEW h \in Handlers, Dispatch(h) PROVE TypeOK'
  <2>1. jobs' \in [Records -> Nat]
    BY <1>6 DEF Dispatch
  <2>2. pc' \in [Handlers -> Awaits \cup {"idle"}] /\ result' \in [Handlers -> Results]
    BY <1>6 DEF Dispatch, Suspend, Return, Awaits, Results
  <2>3. QED
    BY <1>6, <2>1, <2>2 DEF Dispatch
<1>7. ASSUME NEW h \in Handlers, Notify(h) PROVE TypeOK'
  <2>1. call[h].rec \in Records
    BY <1>7 DEF Notify, CallsInv, CallInv, Committed
  <2>2. QED
    BY <1>7, <2>1 DEF Notify, Return, Awaits, Results
<1>8. ASSUME NEW h \in Handlers, Abort(h) PROVE TypeOK'
  <2>1. pc[h] = "publish" => call[h].rec \in Records
    BY DEF CallsInv, CallInv, Committed
  <2>2. unseen' \subseteq Records
    BY <1>8, <2>1 DEF Abort
  <2>3. QED
    BY <1>8, <2>2 DEF Abort, Return, Awaits, Results
<1>9. ASSUME NEW r \in Records, ReportChanges(r) PROVE TypeOK'
  BY <1>9 DEF ReportChanges
<1>10. CASE UNCHANGED vars
  BY <1>10 DEF vars
<1>11. QED
  BY <1>1, <1>2, <1>3, <1>4, <1>5, <1>6, <1>7, <1>8, <1>9, <1>10 DEF Next, Step

(* Nothing is taken back: commits stay in the history, a record that has a *)
(* report keeps one, and only a Write changes either row or history.       *)
LEMMA Growth ==
    ASSUME TypeOK, [Next]_vars, NEW r \in Records
    PROVE  /\ past[r] \subseteq past'[r]
           /\ report[r] # "none" => report'[r] # "none"
           /\ \A s \in Status : HasBeen(r, s) => HasBeen(r, s)'
<1>1. past[r] \subseteq past'[r]
  <2>1. CASE past' = past
    BY <2>1
  <2>2. ASSUME NEW h \in Handlers, Write(h) PROVE past[r] \subseteq past'[r]
    BY <2>2 DEF Write, TypeOK
  <2>3. QED
    BY <2>1, <2>2 DEF Next, Step, vars, Begin, Read, Gate, Publish, Dispatch, Notify, Abort,
                      ReportChanges
<1>2. report[r] # "none" => report'[r] # "none"
  <2>1. CASE report' = report
    BY <2>1
  <2>2. ASSUME NEW q \in Records, ReportChanges(q)
        PROVE  report[r] # "none" => report'[r] # "none"
    BY <2>2 DEF ReportChanges, TypeOK, ReportStatus
  <2>3. QED
    BY <2>1, <2>2 DEF Next, Step, vars, Begin, Read, Gate, Write, Publish, Dispatch, Notify, Abort
<1>3. QED
  BY <1>1, <1>2 DEF HasBeen

(* A step of one call leaves the locals of every other call alone. *)
LEMMA OthersUnmoved ==
    ASSUME TypeOK, NEW h \in Handlers, Begin(h) \/ Step(h) \/ Abort(h),
           NEW g \in Handlers, g # h
    PROVE  pc'[g] = pc[g] /\ call'[g] = call[g] /\ result'[g] = result[g]
  BY DEF TypeOK, Begin, Step, Read, Gate, Write, Publish, Dispatch, Notify, Abort,
         Suspend, Return

(* A call that did not move keeps its invariant: the rest only grows. *)
LEMMA Framed ==
    ASSUME TypeOK, [Next]_vars, NEW g \in Handlers, CallInv(g),
           pc'[g] = pc[g], call'[g] = call[g], result'[g] = result[g]
    PROVE  CallInv(g)'
<1>1. CASE call[g].rec \in Records
  <2>1. /\ past[call[g].rec] \subseteq past'[call[g].rec]
        /\ report[call[g].rec] # "none" => report'[call[g].rec] # "none"
        /\ \A s \in Status : HasBeen(call[g].rec, s) => HasBeen(call[g].rec, s)'
    BY <1>1, Growth
  <2>2. "Sent" \in Status /\ "Replied" \in Status /\ MEETING_ELIGIBLE_STATES \subseteq Status
    BY DEF Status, MEETING_ELIGIBLE_STATES
  <2>3. HasBeen(call[g].rec, "Sent") => HasBeen(call[g].rec, "Sent")'
    BY <2>1, <2>2
  <2>4. HasBeen(call[g].rec, "Replied") => HasBeen(call[g].rec, "Replied")'
    BY <2>1, <2>2
  <2>5. (\E s \in MEETING_ELIGIBLE_STATES : HasBeen(call[g].rec, s))
          => (\E s \in MEETING_ELIGIBLE_STATES : HasBeen(call[g].rec, s)')
    BY <2>1, <2>2
  <2>6. QED
    BY <2>1, <2>3, <2>4, <2>5 DEF CallInv, Reading, Committed, HasBeen
<1>2. CASE call[g].rec \notin Records
  BY <1>2 DEF CallInv, Reading, Committed
<1>3. QED
  BY <1>1, <1>2

(* The call that moves keeps its invariant, await by await. *)
LEMMA Mover ==
    ASSUME IInv, TypeOK', NEW h \in Handlers, Begin(h) \/ Step(h) \/ Abort(h)
    PROVE  CallInv(h)'
<1> USE DEF IInv
<1>0. CallInv(h) /\ TypeOK
  BY DEF CallsInv
<1>1. CASE Begin(h)
  <2>1. PICK op \in Ops, r \in Records \cup {NoRecord}, t \in ManualTargets, text \in Texts :
          /\ call' = [call EXCEPT ![h] =
                        [op |-> op, rec |-> r, target |-> Target(op, t), snap |-> NoRow]]
          /\ Suspend(h, "read") \/ Return(h, "no_change")
    BY <1>1 DEF Begin
  <2>2. op = "validation_failed" => Target(op, t) = "validation_failed"
    BY TargetType, PipelineAssumption DEF PipelineAssumption
  <2>3. call'[h] = [op |-> op, rec |-> r, target |-> Target(op, t), snap |-> NoRow]
    BY <2>1, <1>0 DEF TypeOK
  <2>4. pc'[h] \in {"read", "idle"} /\ result'[h] \in {"none", "no_change"}
    BY <2>1, <1>0 DEF TypeOK, Suspend, Return
  <2>5. QED
    BY <2>2, <2>3, <2>4 DEF CallInv, Reading, Committed
<1>2. CASE Read(h)
  <2>1. CASE pc'[h] = "idle" /\ call' = call /\ result'[h] # "advanced"
    BY <2>1, <1>0 DEF CallInv, Reading, Committed
  <2>2. CASE pc'[h] = "gate"
    <3> DEFINE r == call[h].rec
    <3>1. /\ r \in Records
          /\ ~row[r].terminal \/ call[h].op = "validation_failed"
          /\ Expected(call[h].op, r)
          /\ call' = [call EXCEPT ![h].snap = row[r]]
          /\ result'[h] = "none"
          /\ past' = past
      BY <1>2, <2>2, <1>0 DEF Read, Suspend, Return, TypeOK
    <3>2. /\ call'[h].rec = r /\ call'[h].op = call[h].op /\ call'[h].target = call[h].target
          /\ call'[h].snap = row[r]
      BY <3>1, <1>0 DEF TypeOK, Calls
    <3>3. \A s \in MEETING_ELIGIBLE_STATES : row[r].status = s => HasBeen(r, s)'
      <4>1. FirstStatus[TypeOf[r]] \notin MEETING_ELIGIBLE_STATES
        BY <3>1, FirstStatusFacts, PipelineAssumption DEF PipelineAssumption
      <4>2. QED
        BY <4>1, <3>1 DEF RowFromPast, HasBeen
    <3>4. QED
      BY <3>1, <3>2, <3>3, <2>2, <1>0
         DEF CallInv, Reading, Committed, Expected, MEETING_ELIGIBLE_STATES
  <2>3. QED
    BY <1>2, <2>1, <2>2, <1>0 DEF Read, Suspend, Return, TypeOK
<1>3. CASE Gate(h)
  <2>1. \/ pc'[h] = "idle" /\ result'[h] = "grounding_blocked"
        \/ pc'[h] = "write" /\ result'[h] = "none" /\ CanTransition(call[h].rec, call[h].target)
    BY <1>3, <1>0 DEF Gate, Suspend, Return, TypeOK
  <2>2. QED
    BY <2>1, <1>3, <1>0 DEF Gate, CallInv, Reading, Committed, CanTransition, HasBeen
<1>4. CASE Write(h)
  <2>1. pc'[h] = "publish" /\ result'[h] = "none" /\ call[h].rec \in Records
    BY <1>4, <1>0 DEF Write, Suspend, TypeOK, CallInv, Reading
  <2>2. [op |-> call[h].op, status |-> call[h].target] \in past'[call[h].rec]
    BY <1>4, <2>1, <1>0 DEF Write, TypeOK
  <2>3. QED
    BY <1>4, <2>1, <2>2, <1>0 DEF Write, CallInv, Reading, Committed
<1>5. CASE Publish(h)
  <2>1. pc'[h] = "dispatch" /\ result'[h] = "none" /\ pc[h] = "publish"
    BY <1>5, <1>0 DEF Publish, Suspend, TypeOK
  <2>2. QED
    BY <1>5, <2>1, <1>0 DEF Publish, CallInv, Reading, Committed
<1>6. CASE Dispatch(h)
  <2>1. /\ pc[h] = "dispatch"
        /\ \/ pc'[h] = "notify" /\ call[h].op = "validation_failed" /\ result'[h] = "none"
           \/ pc'[h] = "idle" /\ result'[h] = "advanced"
    BY <1>6, <1>0 DEF Dispatch, Suspend, Return, TypeOK
  <2>2. QED
    BY <1>6, <2>1, <1>0 DEF Dispatch, CallInv, Reading, Committed
<1>7. CASE Notify(h)
  <2>1. pc[h] = "notify" /\ pc'[h] = "idle" /\ result'[h] = "advanced"
    BY <1>7, <1>0 DEF Notify, Return, TypeOK
  <2>2. QED
    BY <1>7, <2>1, <1>0 DEF Notify, CallInv, Reading, Committed
<1>8. CASE Abort(h)
  <2>1. pc'[h] = "idle" /\ result'[h] = "aborted"
    BY <1>8, <1>0 DEF Abort, Return, TypeOK
  <2>2. QED
    BY <1>8, <2>1, <1>0 DEF Abort, CallInv, Reading, Committed
<1>9. QED
  BY <1>1, <1>2, <1>3, <1>4, <1>5, <1>6, <1>7, <1>8 DEF Step

(* Every step keeps what the calls carry across their awaits, the one      *)
(* that moves and the others.                                              *)
LEMMA CallsStep == IInv /\ TypeOK' /\ [Next]_vars => CallsInv'
<1> SUFFICES ASSUME IInv, TypeOK', [Next]_vars, NEW g \in Handlers PROVE CallInv(g)'
  BY DEF CallsInv
<1>0. TypeOK /\ CallInv(g)
  BY DEF IInv, CallsInv
<1>1. ASSUME NEW h \in Handlers, Begin(h) \/ Step(h) \/ Abort(h) PROVE CallInv(g)'
  <2>1. CASE g = h
    BY <2>1, <1>1, Mover
  <2>2. CASE g # h
    <3>1. pc'[g] = pc[g] /\ call'[g] = call[g] /\ result'[g] = result[g]
      BY <2>2, <1>1, <1>0, OthersUnmoved
    <3>2. QED
      BY <3>1, <1>0, Framed
  <2>3. QED
    BY <2>1, <2>2
<1>2. CASE pc' = pc /\ call' = call /\ result' = result
  BY <1>2, <1>0, Framed
<1>3. QED
  BY <1>1, <1>2 DEF Next, ReportChanges, vars

(* Only a Write changes a row or its history; it sets both to the target.  *)
LEMMA OnlyWriteMoves ==
    ASSUME TypeOK, CallsInv, [Next]_vars, NEW r \in Records
    PROVE  \/ row'[r] = row[r] /\ past'[r] = past[r]
           \/ \E h \in Handlers :
                /\ Write(h) /\ call[h].rec = r
                /\ row'[r] = NewRow(h)
                /\ past'[r] = past[r] \cup {[op |-> call[h].op, status |-> call[h].target]}
<1>1. ASSUME NEW h \in Handlers, Write(h), call[h].rec = r
      PROVE  /\ row'[r] = NewRow(h)
             /\ past'[r] = past[r] \cup {[op |-> call[h].op, status |-> call[h].target]}
  BY <1>1 DEF Write, TypeOK
<1>2. ASSUME NEW h \in Handlers, Write(h), call[h].rec # r
      PROVE  row'[r] = row[r] /\ past'[r] = past[r]
  BY <1>2 DEF Write, TypeOK
<1>3. CASE row' = row /\ past' = past
  BY <1>3
<1>4. QED
  BY <1>1, <1>2, <1>3 DEF Next, Step, vars, Begin, Read, Gate, Publish, Dispatch, Notify,
                          Abort, ReportChanges

(* The row has a status that the history names, for only a write moves     *)
(* it.                                                                     *)
LEMMA RowsStep == IInv /\ [Next]_vars => RowFromPast'
<1> SUFFICES ASSUME IInv, [Next]_vars, NEW r \in Records,
                    row'[r].status # FirstStatus[TypeOf[r]]
             PROVE  HasBeen(r, row[r].status)'
  BY DEF RowFromPast
<1>0. TypeOK /\ CallsInv
  BY DEF IInv
<1>1. CASE row'[r] = row[r] /\ past'[r] = past[r]
  BY <1>1 DEF IInv, RowFromPast, HasBeen
<1>2. ASSUME NEW h \in Handlers, row'[r] = NewRow(h),
             past'[r] = past[r] \cup {[op |-> call[h].op, status |-> call[h].target]}
      PROVE  HasBeen(r, row[r].status)'
  <2> DEFINE e == [op |-> call[h].op, status |-> call[h].target]
  <2>1. e \in past'[r] /\ e.status = row'[r].status
    BY <1>2 DEF NewRow
  <2>2. QED
    BY <2>1 DEF HasBeen
<1>3. QED
  BY <1>0, <1>1, <1>2, OnlyWriteMoves

(* A record in a gated status has a report, for the write that put it      *)
(* there saw one at its gate.                                              *)
LEMMA GateStep == IInv /\ [Next]_vars => GatedHasReport'
<1> SUFFICES ASSUME IInv, [Next]_vars, NEW r \in Records, NEW s \in GATED_STATES,
                    HasBeen(r, s)' \/ row'[r].status = s
             PROVE  report'[r] # "none"
  BY DEF GatedHasReport
<1>0. TypeOK /\ CallsInv
  BY DEF IInv
<1>1. report[r] # "none"
  <2>1. CASE row'[r] = row[r] /\ past'[r] = past[r]
    BY <2>1 DEF IInv, GatedHasReport, HasBeen
  <2>2. ASSUME NEW h \in Handlers, Write(h), call[h].rec = r, row'[r] = NewRow(h),
               past'[r] = past[r] \cup {[op |-> call[h].op, status |-> call[h].target]}
        PROVE  report[r] # "none"
    <3>1. CASE call[h].target = s
      BY <3>1, <2>2 DEF IInv, CallsInv, CallInv, Write
    <3>2. CASE call[h].target # s
      BY <3>2, <2>2 DEF IInv, GatedHasReport, HasBeen, NewRow
    <3>3. QED
      BY <3>1, <3>2
  <2>3. QED
    BY <1>0, <2>1, <2>2, OnlyWriteMoves
<1>2. QED
  BY <1>0, <1>1, Growth

(* A status that an event brought about comes after the one that event     *)
(* needs.                                                                  *)
LEMMA EventsStep == IInv /\ [Next]_vars => EventsFollowTheirCause'
<1> SUFFICES ASSUME IInv, [Next]_vars, NEW r \in Records
             PROVE  /\ MovedBy(r, "reply")' => HasBeen(r, "Sent")'
                    /\ MovedBy(r, "meeting")' =>
                          (\E s \in MEETING_ELIGIBLE_STATES : HasBeen(r, s)')
                    /\ MovedBy(r, "proposal")' => /\ HasBeen(r, "Replied")'
                                                  /\ TypeOf[r] = "cold_outreach_team"
  BY DEF EventsFollowTheirCause
<1>0. TypeOK /\ CallsInv
  BY DEF IInv
<1>1. CASE past'[r] = past[r]
  BY <1>1 DEF IInv, EventsFollowTheirCause, MovedBy, HasBeen
<1>2. ASSUME NEW h \in Handlers, Write(h), call[h].rec = r,
             past'[r] = past[r] \cup {[op |-> call[h].op, status |-> call[h].target]}
      PROVE  /\ MovedBy(r, "reply")' => HasBeen(r, "Sent")'
             /\ MovedBy(r, "meeting")' =>
                   (\E s \in MEETING_ELIGIBLE_STATES : HasBeen(r, s)')
             /\ MovedBy(r, "proposal")' => /\ HasBeen(r, "Replied")'
                                           /\ TypeOf[r] = "cold_outreach_team"
  <2>1. \A op \in AllOps : MovedBy(r, op)' => MovedBy(r, op) \/ op = call[h].op
    BY <1>2 DEF MovedBy
  <2>2. \A s \in Status : HasBeen(r, s) => HasBeen(r, s)'
    BY <1>0, Growth
  <2>3. /\ "Sent" \in Status /\ "Replied" \in Status /\ MEETING_ELIGIBLE_STATES \subseteq Status
        /\ "reply" \in AllOps /\ "meeting" \in AllOps /\ "proposal" \in AllOps
    BY DEF Status, MEETING_ELIGIBLE_STATES, AllOps
  <2>4. /\ call[h].op = "reply" => HasBeen(r, "Sent")
        /\ call[h].op = "meeting" => \E s \in MEETING_ELIGIBLE_STATES : HasBeen(r, s)
        /\ call[h].op = "proposal" => /\ HasBeen(r, "Replied")
                                      /\ TypeOf[r] = "cold_outreach_team"
    BY <1>2 DEF IInv, CallsInv, CallInv, Reading, Write
  <2>5. /\ MovedBy(r, "reply")' => HasBeen(r, "Sent")
        /\ MovedBy(r, "meeting")' => \E s \in MEETING_ELIGIBLE_STATES : HasBeen(r, s)
        /\ MovedBy(r, "proposal")' => /\ HasBeen(r, "Replied")
                                      /\ TypeOf[r] = "cold_outreach_team"
    BY <2>1, <2>3, <2>4 DEF IInv, EventsFollowTheirCause
  <2>6. QED
    BY <2>2, <2>3, <2>5
<1>3. QED
  BY <1>0, <1>1, <1>2, OnlyWriteMoves

(* Jobs and alerts come after the transition that causes them was          *)
(* committed.                                                              *)
LEMMA EffectsStep == IInv /\ TypeOK' /\ [Next]_vars => QueuedAfterCommit'
<1> SUFFICES ASSUME IInv, TypeOK', [Next]_vars, NEW r \in Records
             PROVE  /\ jobs'[r] > 0 => HasBeen(r, "Interview")'
                    /\ r \in alerts' => HasBeen(r, "validation_failed")'
  BY DEF QueuedAfterCommit
<1>0. TypeOK /\ CallsInv
  BY DEF IInv
<1>1. /\ jobs[r] > 0 => HasBeen(r, "Interview")
      /\ r \in alerts => HasBeen(r, "validation_failed")
  BY DEF IInv, QueuedAfterCommit
<1>2. \A s \in Status : HasBeen(r, s) => HasBeen(r, s)'
  BY <1>0, Growth
<1>3. "Interview" \in Status /\ "validation_failed" \in Status /\ board[r] \in Status
  BY <1>0 DEF Status, TypeOK
<1>5. ASSUME NEW h \in Handlers, call[h].rec = r, Committed(h),
             NEW s \in Status, s = call[h].target
      PROVE  HasBeen(r, s)'
  <2>1. [op |-> call[h].op, status |-> call[h].target] \in past[r]
    BY <1>5 DEF IInv, CallsInv, CallInv
  <2>2. HasBeen(r, s)
    BY <2>1, <1>5 DEF HasBeen
  <2>3. QED
    BY <2>2, <1>2
<1>8. ASSUME NEW h \in Handlers, Dispatch(h), jobs'[r] > 0
      PROVE  HasBeen(r, "Interview")'
  <2>1. CASE jobs'[r] = jobs[r]
    BY <2>1, <1>1, <1>2, <1>3, <1>8
  <2>2. CASE jobs'[r] # jobs[r]
    BY <2>2, <1>0, <1>3, <1>5, <1>8 DEF Dispatch, TypeOK, HasStateEntryTechnique, Committed
  <2>3. QED
    BY <2>1, <2>2
<1>9. ASSUME NEW h \in Handlers, Notify(h), r \in alerts'
      PROVE  HasBeen(r, "validation_failed")'
  <2>1. CASE r \in alerts
    BY <2>1, <1>1, <1>2, <1>3
  <2>2. CASE r \notin alerts
    <3>1. call[h].rec = r /\ Committed(h)
      BY <2>2, <1>9 DEF Notify, Committed
    <3>2. call[h].target = "validation_failed"
      BY <1>9 DEF IInv, CallsInv, CallInv, Notify
    <3>3. QED
      BY <3>1, <3>2, <1>3, <1>5
  <2>3. QED
    BY <2>1, <2>2
<1>10. ASSUME NEW h \in Handlers, Dispatch(h) PROVE alerts' = alerts
  BY <1>10 DEF Dispatch
<1>11. ASSUME NEW h \in Handlers, Notify(h) PROVE jobs' = jobs
  BY <1>11 DEF Notify
<1>12. jobs'[r] = jobs[r] => (jobs'[r] > 0 => HasBeen(r, "Interview")')
  BY <1>1, <1>2, <1>3
<1>13. alerts' = alerts => (r \in alerts' => HasBeen(r, "validation_failed")')
  BY <1>1, <1>2, <1>3
<1>14. ASSUME NEW h \in Handlers, Dispatch(h) \/ Notify(h)
       PROVE  /\ jobs'[r] > 0 => HasBeen(r, "Interview")'
              /\ r \in alerts' => HasBeen(r, "validation_failed")'
  BY <1>8, <1>9, <1>10, <1>11, <1>12, <1>13, <1>14
<1>15. CASE ~ \E h \in Handlers : Dispatch(h) \/ Notify(h)
  <2>1. jobs' = jobs /\ alerts' = alerts
    BY <1>15 DEF Next, Step, Begin, Read, Gate, Write, Publish, Abort, ReportChanges, vars
  <2>2. QED
    BY <2>1, <1>12, <1>13
<1>16. QED
  BY <1>14, <1>15

-----------------------------------------------------------------------------

(* Nobody has called and no record has moved.                              *)
LEMMA InitInv == Init => IInv
<1> SUFFICES ASSUME Init PROVE IInv
  OBVIOUS
<1>1. TypeOK
  BY InitType
<1>2. CallsInv
  BY DEF Init, CallsInv, CallInv, Reading, Committed, NoCall
<1>3. RowFromPast /\ EventsFollowTheirCause /\ QueuedAfterCommit
  BY DEF Init, RowFromPast, EventsFollowTheirCause, QueuedAfterCommit, MovedBy
<1>4. GatedHasReport
  <2>1. \A r \in Records : row[r].status \notin GATED_STATES
    BY FirstStatusFacts, PipelineAssumption DEF Init, PipelineAssumption
  <2>2. QED
    BY <2>1 DEF Init, GatedHasReport, HasBeen
<1>5. QED
  BY <1>1, <1>2, <1>3, <1>4 DEF IInv

(* The inductive invariant of the manager under any interleaving. *)
THEOREM Inductive == Spec => []IInv
<1>1. IInv /\ [Next]_vars => IInv'
  <2> SUFFICES ASSUME IInv, [Next]_vars PROVE IInv'
    OBVIOUS
  <2>1. TypeOK'
    BY TypeStep DEF IInv
  <2>2. QED
    BY <2>1, CallsStep, RowsStep, GateStep, EventsStep, EffectsStep DEF IInv
<1>2. QED
  BY <1>1, InitInv, PTL DEF Spec

(* Every reachable state is well typed. *)
THEOREM TypeCorrect == Spec => []TypeOK
<1>1. IInv => TypeOK
  BY DEF IInv
<1>2. QED
  BY <1>1, Inductive, PTL

(* No interleaving of calls takes a record through the grounding gate      *)
(* without a report.                                                       *)
THEOREM GateHolds == Spec => []GatedHasReport
<1>1. IInv => GatedHasReport
  BY DEF IInv
<1>2. QED
  BY <1>1, Inductive, PTL

(* Events never overtake their cause, however stale the reads. *)
THEOREM CausalOrder == Spec => []EventsFollowTheirCause
<1>1. IInv => EventsFollowTheirCause
  BY DEF IInv
<1>2. QED
  BY <1>1, Inductive, PTL

(* Neither alerts and queued jobs nor the answers to callers are ahead of  *)
(* the database, whatever else was written since a call read the row.      *)
THEOREM EffectsOrder == Spec => []EffectsFollowCommit
<1>1. IInv => EffectsFollowCommit
  BY DEF IInv, CallsInv, CallInv, EffectsFollowCommit, AdvancedWasCommitted
<1>2. QED
  BY <1>1, Inductive, PTL

(* A terminal status is left only by a validation failure or a stale call. *)
THEOREM TerminalExits == Spec => TerminalLeftOnlyByStaleOrFailed
<1> DEFINE Exits == \A r \in Records : LeavesTerminal(r) =>
                      \E h \in Handlers : /\ pc[h] = "write"
                                           /\ call[h].rec = r
                                           /\ \/ call[h].op = "validation_failed"
                                              \/ ~call[h].snap.terminal
<1>1. IInv /\ [Next]_vars => [Exits]_vars
  <2> SUFFICES ASSUME IInv, [Next]_vars, NEW r \in Records, LeavesTerminal(r)
               PROVE  \E h \in Handlers : /\ pc[h] = "write"
                                           /\ call[h].rec = r
                                           /\ \/ call[h].op = "validation_failed"
                                              \/ ~call[h].snap.terminal
    OBVIOUS
  <2>1. PICK h \in Handlers : Write(h) /\ call[h].rec = r
    BY OnlyWriteMoves DEF IInv, LeavesTerminal
  <2>2. QED
    BY <2>1 DEF IInv, CallsInv, CallInv, Reading, Write
<1>2. QED
  BY <1>1, Inductive, PTL DEF Spec, TerminalLeftOnlyByStaleOrFailed

(* Every step keeps the dashboard up to date, leaves a call whose publish  *)
(* will bring it up to date, or is a publish that fails.                   *)
LEMMA BoardStep == IInv /\ BoardShowsRow /\ [Next]_vars => BoardShowsRow'
<1> SUFFICES ASSUME IInv, BoardShowsRow, [Next]_vars, NEW r \in Records,
                    board'[r] # row'[r].status, r \notin unseen'
             PROVE  \E h \in Handlers : pc'[h] = "publish" /\ call'[h].rec = r
  BY DEF BoardShowsRow
<1>0. TypeOK
  BY DEF IInv
<1>1. ASSUME NEW g \in Handlers, Write(g), call[g].rec = r
      PROVE  pc'[g] = "publish" /\ call'[g].rec = r
  BY <1>0, <1>1 DEF Write, Suspend, TypeOK
<1>2. ASSUME NEW g \in Handlers, Publish(g), call[g].rec = r
      PROVE  FALSE
  BY <1>0, <1>2 DEF Publish, TypeOK
<1>3. CASE \A g \in Handlers : call[g].rec = r => ~Write(g) /\ ~Publish(g)
  <2>1. row'[r] = row[r]
    BY <1>0, <1>3, OnlyWriteMoves DEF IInv
  <2>2. board'[r] = board[r]
    BY <1>0, <1>3 DEF Next, Step, Begin, Read, Gate, Write, Publish, Dispatch, Notify, Abort,
                      ReportChanges, vars, TypeOK
  <2>3. r \notin unseen
    BY <1>3 DEF Next, Step, Begin, Read, Gate, Write, Publish, Dispatch, Notify, Abort,
                ReportChanges, vars
  <2>4. PICK h \in Handlers : pc[h] = "publish" /\ call[h].rec = r
    BY <2>1, <2>2, <2>3 DEF BoardShowsRow
  <2>5. ~ Abort(h)
    BY <2>4 DEF Abort
  <2>6. pc'[h] = pc[h] /\ call'[h] = call[h]
    BY <1>0, <1>3, <2>4, <2>5 DEF Next, Step, Begin, Read, Gate, Write, Publish, Dispatch, Notify,
                                  Abort, ReportChanges, vars, Suspend, Return, TypeOK
  <2>7. QED
    BY <2>4, <2>6
<1>4. QED
  BY <1>1, <1>2, <1>3

(* The dashboard never stays behind the database, but for publishes that   *)
(* fail or are cut off.                                                    *)
THEOREM BoardFollows == Spec => []BoardShowsRow
<1>1. Init => BoardShowsRow
  BY DEF Init, BoardShowsRow
<1>2. QED
  BY <1>1, BoardStep, Inductive, PTL DEF Spec

-----------------------------------------------------------------------------
\* The abstract rules.

Overlap == \E g, h \in Handlers : g # h

(* The row a call has read allows its transition: its status is one that   *)
(* the record has had, and with one caller it is the row still.            *)
Allowed(h) ==
    LET r    == call[h].rec
        from == call[h].snap.status
    IN /\ from \in Had[r]
       /\ call[h].op = "reply" => from = "Sent"
       /\ call[h].op = "meeting" => from \in MEETING_ELIGIBLE_STATES
       /\ call[h].op = "proposal" => from = "Replied" /\ TypeOf[r] = "cold_outreach_team"
       /\ call[h].op # "validation_failed" => from \notin TERMINAL_STATES
       /\ ~Overlap => call[h].snap = row[r]

Aimed(h) == \E t \in ManualTargets : call[h].target = Target(call[h].op, t)

RulesInv ==
    /\ \A r \in Records : /\ row[r].status \in Had[r]
                          /\ row[r].terminal = (row[r].status \in TERMINAL_STATES)
    /\ \A h \in Handlers : /\ Reading(h) => Allowed(h)
                           /\ pc[h] # "idle" => Aimed(h)

(* A record has had the statuses it had before a step, and the one a write *)
(* gives it.                                                               *)
LEMMA HadGrows ==
    ASSUME TypeOK, [Next]_vars
    PROVE  /\ \A r \in Records : Had[r] \subseteq Had'[r]
           /\ \A h \in Handlers : Write(h) =>
                  /\ Had' = [Had EXCEPT ![call[h].rec] = @ \cup {call[h].target}]
                  /\ \A r \in Records :
                        Had'[r] = IF r = call[h].rec THEN Had[r] \cup {call[h].target} ELSE Had[r]
           /\ (\A h \in Handlers : ~Write(h)) => Had' = Had
<1>1. ASSUME NEW h \in Handlers, Write(h)
      PROVE  /\ Had' = [Had EXCEPT ![call[h].rec] = @ \cup {call[h].target}]
             /\ \A r \in Records :
                   Had'[r] = IF r = call[h].rec THEN Had[r] \cup {call[h].target} ELSE Had[r]
  <2> DEFINE e == [op |-> call[h].op, status |-> call[h].target]
  <2>1. past' = [past EXCEPT ![call[h].rec] = @ \cup {e}] /\ e.status = call[h].target
    BY <1>1 DEF Write
  <2> HIDE DEF e
  <2>2. ASSUME NEW r \in Records
        PROVE  Had'[r] = IF r = call[h].rec THEN Had[r] \cup {call[h].target} ELSE Had[r]
    <3>1. past'[r] = IF r = call[h].rec THEN past[r] \cup {e} ELSE past[r]
      BY <2>1 DEF TypeOK
    <3>2. QED
      BY <2>1, <3>1 DEF Had
  <2>3. Had' = [r \in Records |-> IF r = call[h].rec THEN Had[r] \cup {call[h].target} ELSE Had[r]]
    BY <2>2 DEF Had
  <2>4. [Had EXCEPT ![call[h].rec] = @ \cup {call[h].target}] =
            [r \in Records |-> IF r = call[h].rec THEN Had[r] \cup {call[h].target} ELSE Had[r]]
    BY DEF Had
  <2>5. QED
    BY <2>2, <2>3, <2>4
<1>2. CASE \A h \in Handlers : ~Write(h)
  <2>1. past' = past
    BY <1>2 DEF Next, Step, Begin, Read, Gate, Publish, Dispatch, Notify, Abort, ReportChanges, vars
  <2>2. QED
    BY <2>1, <1>2 DEF Had
<1>3. QED
  BY <1>1, <1>2

(* A write leaves the flag of the row in step with its status.             *)
LEMMA RowStep ==
    ASSUME IInv, RulesInv, [Next]_vars, NEW r \in Records
    PROVE  row'[r].status \in Had'[r] /\ row'[r].terminal = (row'[r].status \in TERMINAL_STATES)
<1>0. TypeOK /\ row[r].status \in Had[r] /\ row[r].terminal = (row[r].status \in TERMINAL_STATES)
      /\ Had[r] \subseteq Had'[r]
  BY HadGrows DEF IInv, RulesInv
<1>1. CASE \E h \in Handlers : Write(h) /\ call[h].rec = r
  <2>1. PICK h \in Handlers : Write(h) /\ call[h].rec = r
    BY <1>1
  <2>2. row'[r] = NewRow(h)
    BY <1>0, <2>1 DEF Write, TypeOK
  <2>3. Had'[r] = Had[r] \cup {call[h].target}
    BY <1>0, <2>1, HadGrows
  <2>4. QED
    BY <2>2, <2>3 DEF NewRow
<1>2. CASE ~ \E h \in Handlers : Write(h) /\ call[h].rec = r
  BY <1>0, <1>2, OnlyWriteMoves DEF IInv
<1>3. QED
  BY <1>1, <1>2

(* What a call has read keeps allowing its transition.                     *)
LEMMA AllowedStep ==
    ASSUME IInv, RulesInv, [Next]_vars, NEW c \in Handlers
    PROVE  (Reading(c) => Allowed(c))' /\ (pc[c] # "idle" => Aimed(c))'
<1>0. /\ TypeOK /\ CallInv(c) /\ (Reading(c) => Allowed(c)) /\ (pc[c] # "idle" => Aimed(c))
      /\ \A r \in Records : Had[r] \subseteq Had'[r]
  BY HadGrows DEF IInv, CallsInv, RulesInv
<1>1. CASE Begin(c)
  <2>1. PICK op \in Ops, r \in Records \cup {NoRecord}, t \in ManualTargets, text \in Texts :
          /\ call' = [call EXCEPT ![c] =
                        [op |-> op, rec |-> r, target |-> Target(op, t), snap |-> NoRow]]
          /\ Suspend(c, "read") \/ Return(c, "no_change")
    BY <1>1 DEF Begin
  <2>2. call'[c] = [op |-> op, rec |-> r, target |-> Target(op, t), snap |-> NoRow]
    BY <2>1, <1>0 DEF TypeOK
  <2>3. pc'[c] \in {"read", "idle"}
    BY <2>1, <1>0 DEF TypeOK, Suspend, Return
  <2>4. call'[c].target = Target(call'[c].op, t)
    BY <2>2
  <2>5. QED
    BY <2>3, <2>4 DEF Aimed, Reading
<1>2. CASE Read(c)
  <2>1. CASE pc'[c] = "idle"
    BY <2>1 DEF Reading
  <2>2. CASE pc'[c] # "idle"
    <3> DEFINE r == call[c].rec
    <3>1. /\ pc[c] = "read" /\ pc'[c] = "gate" /\ row' = row /\ r \in Records
          /\ ~row[r].terminal \/ call[c].op = "validation_failed"
          /\ Expected(call[c].op, r) /\ past' = past
          /\ call' = [call EXCEPT ![c].snap = row[r]]
      BY <1>2, <2>2, <1>0 DEF Read, Suspend, Return, TypeOK
    <3>2. /\ call'[c].rec = r /\ call'[c].op = call[c].op /\ call'[c].target = call[c].target
          /\ call'[c].snap = row[r]
      BY <3>1, <1>0 DEF TypeOK, Calls
    <3>3. /\ row[r].status \in Had'[r]
          /\ row[r].terminal = (row[r].status \in TERMINAL_STATES)
      BY <1>0, <3>1 DEF RulesInv
    <3>4. Allowed(c)'
      BY <3>1, <3>2, <3>3 DEF Allowed, Expected
    <3>5. Aimed(c)'
      BY <1>0, <3>1, <3>2 DEF Aimed
    <3>6. QED
      BY <3>4, <3>5
  <2>3. QED
    BY <2>1, <2>2
<1>3. CASE Gate(c)
  <2>1. /\ Reading(c) /\ row' = row /\ call' = call /\ past' = past
    BY <1>3, <1>0 DEF Gate, Reading
  <2>2. QED
    BY <2>1, <1>0 DEF Allowed, Aimed, Had, Reading
<1>4. CASE Write(c) \/ Publish(c) \/ Dispatch(c) \/ Notify(c) \/ Abort(c)
  <2>1. /\ call' = call /\ pc[c] # "idle"
        /\ pc'[c] \in {"publish", "dispatch", "notify", "idle"}
    BY <1>4, <1>0 DEF Write, Publish, Dispatch, Notify, Abort, Suspend, Return, TypeOK
  <2>2. QED
    BY <2>1, <1>0 DEF Aimed, Reading
<1>5. CASE row' = row /\ pc' = pc /\ call' = call /\ past' = past
  BY <1>5, <1>0 DEF Allowed, Aimed, Had, Reading
<1>6. CASE \E r \in Records : ReportChanges(r)
  BY <1>5, <1>6 DEF ReportChanges
<1>7. CASE UNCHANGED vars
  BY <1>5, <1>7 DEF vars
<1>8. ASSUME NEW h \in Handlers, h # c, Begin(h) \/ Step(h) \/ Abort(h)
      PROVE  (Reading(c) => Allowed(c))' /\ (pc[c] # "idle" => Aimed(c))'
  <2>1. call'[c] = call[c] /\ pc'[c] = pc[c] /\ Overlap
    BY <1>0, <1>8 DEF Step, Begin, Read, Gate, Write, Publish, Dispatch, Notify, Abort, Suspend, Return,
                      TypeOK, Overlap
  <2>2. Reading(c) => call[c].rec \in Records
    BY <1>0 DEF CallInv
  <2>3. QED
    BY <1>0, <2>1, <2>2 DEF Allowed, Aimed, Reading
<1>9. QED
  BY <1>1, <1>2, <1>3, <1>4, <1>6, <1>7, <1>8 DEF Next, Step

(* A write is a transition of the rules from the status the call has read. *)
LEMMA WriteFollowsRules ==
    ASSUME IInv, RulesInv, [Next]_vars, NEW h \in Handlers, Write(h)
    PROVE  Rules!Next
<1> DEFINE r == call[h].rec
           op == call[h].op
           s == call[h].target
           from == call[h].snap.status
<1>0. TypeOK /\ CallInv(h) /\ pc[h] = "write" /\ Allowed(h) /\ Aimed(h)
  BY DEF IInv, CallsInv, Write, RulesInv, Reading
<1>1. r \in Records /\ op \in AllOps /\ s \in Status
  BY <1>0 DEF CallInv, Reading, TypeOK, Calls
<1>2. /\ row' = [row EXCEPT ![r] = [status |-> s, previous |-> from,
                                    terminal |-> s \in TERMINAL_STATES]]
      /\ report' = report
  BY <1>0 DEF Write, NewRow
<1>3. Rules!Move(r, from, s)
  BY <1>0, <1>2, HadGrows DEF Rules!Move, TERMINAL_STATES, Rules!TERMINAL_STATES
<1>4. PICK t \in ManualTargets : s = Target(op, t)
  BY <1>0 DEF Aimed
<1>5. from \in Rules!From(r)
  BY <1>0 DEF Allowed, Rules!From, Overlap
<1>6. CASE op = "reply"
  BY <1>0, <1>1, <1>3, <1>4, <1>5, <1>6 DEF Allowed, Target, Rules!Next, Rules!Reply
<1>7. CASE op = "meeting"
  BY <1>0, <1>1, <1>3, <1>4, <1>5, <1>7
     DEF Allowed, Target, Rules!Next, Rules!Meeting, MEETING_ELIGIBLE_STATES,
         Rules!MEETING_ELIGIBLE_STATES
<1>8. CASE op = "proposal"
  BY <1>0, <1>1, <1>3, <1>4, <1>5, <1>8 DEF Allowed, Target, Rules!Next, Rules!ProposalRequest
<1>9. CASE op = "validation_failed"
  BY <1>1, <1>3, <1>4, <1>5, <1>9 DEF Target, Rules!Next, Rules!ValidationFails
<1>10. CASE op = "manual"
  <2>1. s \in ManualTargets /\ from \notin TERMINAL_STATES
    BY <1>0, <1>4, <1>10 DEF Target, Allowed
  <2>2. s \in GATED_STATES => report[r] # "none"
    BY <1>0 DEF CallInv
  <2>3. Rules!Manual(r)
    BY <2>1, <2>2, <1>3, <1>5
       DEF Rules!Manual, GATED_STATES, Rules!GATED_STATES, TERMINAL_STATES, Rules!TERMINAL_STATES
  <2>4. QED
    BY <2>3, <1>1 DEF Rules!Next
<1>11. QED
  BY <1>1, <1>6, <1>7, <1>8, <1>9, <1>10 DEF AllOps

(* The await-by-await manager implements the state machine: atomically     *)
(* with one caller, from statuses the record has had with any number.      *)
THEOREM ManagerImplementsRules == Spec => ImplementsRules
<1>1. Init => Rules!Init
  <2>1. FirstStatus = Rules!FirstStatus
    BY DEF FirstStatus, Rules!FirstStatus, OpportunityTypes, Rules!OpportunityTypes
  <2>2. ASSUME Init PROVE Had = [r \in Records |-> {FirstStatus[TypeOf[r]]}]
    <3>1. \A r \in Records : {e.status : e \in past[r]} = {}
      BY <2>2 DEF Init
    <3>2. QED
      BY <3>1 DEF Had
  <2>3. QED
    BY <2>1, <2>2 DEF Init, Rules!Init
<1>2. Init => RulesInv
  <2> SUFFICES ASSUME Init PROVE RulesInv
    OBVIOUS
  <2>1. ASSUME NEW r \in Records
        PROVE  row[r].status \in Had[r] /\ row[r].terminal = (row[r].status \in TERMINAL_STATES)
    <3>1. row[r].status = FirstStatus[TypeOf[r]] /\ row[r].terminal = FALSE /\ TypeOf[r] \in OpportunityTypes
      BY PipelineAssumption DEF Init, PipelineAssumption
    <3>2. FirstStatus[TypeOf[r]] \notin TERMINAL_STATES
      BY <3>1, FirstStatusFacts
    <3>3. FirstStatus[TypeOf[r]] \in Had[r]
      BY DEF Had
    <3>4. row[r].status \in Had[r]
      BY <3>1, <3>3
    <3>5. (row[r].status \in TERMINAL_STATES) = FALSE
      BY <3>1, <3>2
    <3>6. QED
      BY <3>1, <3>4, <3>5, Zenon
  <2>2. QED
    BY <2>1 DEF Init, RulesInv, Reading
<1>3. IInv /\ RulesInv /\ [Next]_vars => [Rules!Next]_<<row, report, Had>>
  <2> SUFFICES ASSUME IInv, RulesInv, [Next]_vars, ~ UNCHANGED <<row, report, Had>>
               PROVE  Rules!Next
    OBVIOUS
  <2>1. CASE \E h \in Handlers : Write(h)
    BY <2>1, WriteFollowsRules
  <2>2. CASE ~ \E h \in Handlers : Write(h)
    <3>1. Had' = Had
      BY <2>2, HadGrows DEF IInv
    <3>2. CASE \E r \in Records : ReportChanges(r)
      BY <3>1, <3>2 DEF ReportChanges, Rules!Next, Rules!Verified, ReportStatus, Rules!ReportStatus
    <3>3. QED
      BY <2>2, <3>1, <3>2 DEF Next, Step, vars, Begin, Read, Gate, Publish, Dispatch, Notify, Abort
  <2>3. QED
    BY <2>1, <2>2
<1>4. IInv /\ RulesInv /\ [Next]_vars => RulesInv'
  <2> SUFFICES ASSUME IInv, RulesInv, [Next]_vars PROVE RulesInv'
    OBVIOUS
  <2>1. \A r \in Records : row'[r].status \in Had'[r] /\ row'[r].terminal = (row'[r].status \in TERMINAL_STATES)
    BY RowStep
  <2>2. \A h \in Handlers : (Reading(h) => Allowed(h))' /\ (pc[h] # "idle" => Aimed(h))'
    BY AllowedStep
  <2>3. QED
    BY <2>1, <2>2 DEF RulesInv
<1>5. QED
  BY <1>1, <1>2, <1>3, <1>4, Inductive, PTL DEF Spec, ImplementsRules, Rules!Spec

=============================================================================

-------------------------- MODULE Grounding_proofs --------------------------
(***************************************************************************)
(* Proofs about Grounding.  The invariant follows a call from the claims   *)
(* it fetched to the rows it overwrites: the set of claim rows of a report *)
(* never changes, so what a call fetched is, id for id, what it finds when *)
(* it writes, although the statuses may have changed in between.           *)
(***************************************************************************)
EXTENDS GatedPipeline, FiniteSetTheorems, WellFoundedInduction, NaturalsInduction, TLAPS

(* A call about to store has its number to itself. *)
Storing(h) ==
    pc[h] = "store" =>
        /\ call[h].n \in ReportIds
        /\ reports[call[h].n] = NoReport
        /\ \A g \in Handlers : (pc[g] = "store" /\ call[g].n = call[h].n) => g = h

(* A call past its fetch knows the ids of its report's claims. *)
Fetched(h) ==
    pc[h] \in {"update", "resolve", "confirm"} =>
        /\ call[h].report \in Stored
        /\ \A c \in ClaimIds :
              call[h].snap[c] # "none" <=> c \in RowsOf(call[h].report)

(* A call has recorded a resolution for every id it no longer has to.      *)
Audited(h) ==
    /\ pc[h] \in {"store", "select", "fetch", "update"} => call[h].left = call[h].affected
    /\ pc[h] \in {"resolve", "confirm"} =>
          \A c \in call[h].affected \ call[h].left :
             [report |-> call[h].report, claim |-> c, path |-> "manual_edit"] \in resolutions
    /\ pc[h] = "confirm" => call[h].left = {} /\ call[h].path = "confirm_and_add"

CallInv(h) ==
    /\ call[h].n <= calls
    /\ pc[h] # "idle" => call[h].path \in Paths
    /\ pc[h] \in {"store", "select", "fetch"} => call[h].report = 0
    /\ pc[h] \in {"select", "fetch", "update"} => call[h].path # "verify"
    /\ Storing(h)
    /\ Fetched(h)
    /\ Audited(h)

CallsInv == \A h \in Handlers : CallInv(h)

(* Numbers that have not been given out and rows that nobody has written. *)
Unused ==
    /\ \A n \in ReportIds : n > calls => reports[n] = NoReport
    /\ \A c \in ClaimIds : claims[c] # "none" => ReportOf(c) \in Stored

StatusFromCounts ==
    \A n \in Stored :
        reports[n].status = "grounding_blocked" <=> reports[n].count["ungrounded"] > 0

IInv == TypeOK /\ CallsInv /\ Unused /\ StatusFromCounts

-----------------------------------------------------------------------------

(* There are finitely many claims, since reports and the claims of each    *)
(* are bounded.                                                            *)
LEMMA ClaimIdsFinite == IsFiniteSet(ClaimIds)
<1>1. IsFiniteSet(ReportIds) /\ IsFiniteSet(1 .. MaxClaims)
  BY FS_Interval, GroundingAssumption DEF GroundingAssumption, ReportIds
<1>2. QED
  BY <1>1, FS_Product DEF ClaimIds

(* A claim is of one report.                                               *)
LEMMA ClaimIdIsPair ==
    ASSUME NEW c \in ClaimIds
    PROVE  ReportOf(c) \in ReportIds
  BY DEF ClaimIds, ReportOf

(* Counting a finite set of claims gives numbers, and the count of a       *)
(* status is zero exactly when no claim has it.                            *)
LEMMA CountsAreNumbers ==
    ASSUME NEW ids, NEW status, IsFiniteSet(ids)
    PROVE  /\ Counts(ids, status) \in [GroundingStatus -> Nat]
           /\ \A s \in GroundingStatus :
                 Counts(ids, status)[s] > 0 <=> \E c \in ids : status[c] = s
<1> DEFINE With(s) == {c \in ids : status[c] = s}
<1>1. ASSUME NEW s \in GroundingStatus
      PROVE  /\ Cardinality(With(s)) \in Nat
             /\ Cardinality(With(s)) = 0 <=> With(s) = {}
  <2>1. IsFiniteSet(With(s))
    BY FS_Subset
  <2>2. QED
    BY <2>1, FS_CardinalityType, FS_EmptySet
<1>2. Counts(ids, status) = [s \in GroundingStatus |-> Cardinality(With(s))]
  BY DEF Counts
<1> HIDE DEF With
<1>3. \A s \in GroundingStatus : Counts(ids, status)[s] > 0 <=> With(s) # {}
  BY <1>1, <1>2
<1>4. QED
  BY <1>1, <1>2, <1>3 DEF With

(* A new report has the type of a report, and is blocked exactly when one  *)
(* of its claims is ungrounded.                                            *)
LEMMA NewReportFacts ==
    ASSUME NEW ids, NEW status, IsFiniteSet(ids)
    PROVE  /\ NewReport(ids, status) \in Report
           /\ NewReport(ids, status) # NoReport
           /\ NewReport(ids, status).count = Counts(ids, status)
           /\ NewReport(ids, status).status = "grounding_blocked" <=>
                 NewReport(ids, status).count["ungrounded"] > 0
           /\ NewReport(ids, status).status = "grounding_verified" <=>
                 \A c \in ids : status[c] # "ungrounded"
<1>1. "ungrounded" \in GroundingStatus
  BY DEF GroundingStatus
<1>2. QED
  BY <1>1, CountsAreNumbers DEF NewReport, NoReport, Report, MaterialGroundingStatus

(* Which ids a re-verification can check: those of the resolution and ids  *)
(* without a row; for a confirmation those of the report's claims only.    *)
LEMMA CheckedFacts ==
    ASSUME TypeOK, NEW h \in Handlers, NEW ids \in Checked(h)
    PROVE  /\ ids \subseteq call[h].affected \cup UnsavedIds
           /\ IsFiniteSet(Kept(h) \cup ids)
           /\ call[h].path = "confirm_and_add" => ids = Mine(h)
<1>1. /\ ids \subseteq call[h].affected \cup UnsavedIds
      /\ call[h].path = "confirm_and_add" => ids = Mine(h)
  BY DEF Checked, Mine
<1>2. call[h].affected \subseteq ClaimIds \cup UnsavedIds
  BY DEF TypeOK, Calls
<1>3. IsFiniteSet(ClaimIds \cup UnsavedIds)
  BY ClaimIdsFinite, FS_Union, GroundingAssumption DEF GroundingAssumption
<1>4. Kept(h) \cup ids \subseteq ClaimIds \cup UnsavedIds
  BY <1>1, <1>2 DEF Kept, Found
<1>5. QED
  BY <1>1, <1>3, <1>4, FS_Subset

-----------------------------------------------------------------------------

(* Nothing is stored and nobody has called.                                *)
LEMMA InitInv == Init => IInv
<1> SUFFICES ASSUME Init PROVE IInv
  OBVIOUS
<1>1. NoReport.status = "none" /\ NoReport.count \in [GroundingStatus -> Nat]
  BY DEF NoReport
<1>2. Stored = {}
  BY DEF Init, Stored
<1>3. TypeOK
  BY GroundingAssumption
     DEF Init, TypeOK, GroundingAssumption, NoClaims, NewCall, Calls, CallResults, AllPaths
<1>4. CallsInv
  BY DEF Init, CallsInv, CallInv, Storing, Fetched, Audited, NewCall
<1>5. QED
  BY <1>2, <1>3, <1>4 DEF Init, IInv, Unused, StatusFromCounts, NoClaims

(* What Store writes: a report with its own claims, typed and new. *)
LEMMA StoreFacts ==
    ASSUME IInv, NEW h \in Handlers, Store(h)
    PROVE  LET n == call[h].n
           IN /\ n \in ReportIds /\ n \notin Stored
              /\ reports'[n] \in Report
              /\ reports'[n] # NoReport
              /\ reports' = [reports EXCEPT ![n] = reports'[n]]
              /\ reports'[n].status = "grounding_blocked" <=>
                     reports'[n].count["ungrounded"] > 0
              /\ claims' \in [ClaimIds -> GroundingStatus \cup {"none"}]
              /\ \A c \in ClaimIds : ReportOf(c) # n => claims'[c] = claims[c]
              /\ reports'[n].count =
                     Counts({c \in ClaimIds : ReportOf(c) = n /\ claims'[c] # "none"}, claims')
<1> DEFINE n == call[h].n
           Rows == {c \in ClaimIds : ReportOf(c) = n /\ claims'[c] # "none"}
<1>1. n \in ReportIds /\ reports[n] = NoReport /\ n \notin Stored
  BY DEF IInv, CallsInv, CallInv, Storing, Store, Stored
<1>2. \A c \in ClaimIds : ReportOf(c) = n => claims[c] = "none"
  BY <1>1 DEF IInv, Unused
<1>3. CASE /\ claims' = claims
           /\ reports' = [reports EXCEPT ![n] =
                              [NoReport EXCEPT !.status = "grounding_unverified"]]
  <2>1. reports'[n] = [NoReport EXCEPT !.status = "grounding_unverified"]
    BY <1>1, <1>3 DEF IInv, TypeOK
  <2>2. /\ reports'[n].status = "grounding_unverified"
        /\ reports'[n].count = [s \in GroundingStatus |-> 0]
        /\ reports'[n] \in Report /\ reports'[n] # NoReport
    BY <2>1 DEF NoReport, Report, MaterialGroundingStatus
  <2>3. Rows = {}
    BY <1>2, <1>3
  <2>4. \A s \in GroundingStatus : {c \in Rows : claims'[c] = s} = {}
    BY <2>3
  <2>5. reports'[n].count = Counts(Rows, claims')
    BY <2>2, <2>4, FS_EmptySet DEF Counts
  <2>6. reports'[n].count["ungrounded"] = 0
    BY <2>2 DEF GroundingStatus
  <2>7. reports' = [reports EXCEPT ![n] = reports'[n]]
    BY <1>3, <2>1
  <2>8. claims' \in [ClaimIds -> GroundingStatus \cup {"none"}]
    BY <1>3 DEF IInv, TypeOK
  <2>9. QED
    BY <1>1, <1>3, <2>2, <2>5, <2>6, <2>7, <2>8
<1>4. ASSUME NEW k \in 0 .. MaxClaims,
             NEW verdict \in [{n} \X (1 .. k) -> Verdicts],
             reports' = [reports EXCEPT ![n] = NewReport({n} \X (1 .. k), verdict)],
             claims' = [c \in ClaimIds |->
                          IF c \in {n} \X (1 .. k) THEN verdict[c] ELSE claims[c]]
      PROVE  /\ reports'[n] \in Report
             /\ reports'[n] # NoReport
             /\ reports' = [reports EXCEPT ![n] = reports'[n]]
             /\ reports'[n].status = "grounding_blocked" <=>
                    reports'[n].count["ungrounded"] > 0
             /\ claims' \in [ClaimIds -> GroundingStatus \cup {"none"}]
             /\ \A c \in ClaimIds : ReportOf(c) # n => claims'[c] = claims[c]
             /\ reports'[n].count = Counts(Rows, claims')
  <2> DEFINE ids == {n} \X (1 .. k)
  <2>1. ids \subseteq ClaimIds
    BY <1>1, GroundingAssumption DEF ClaimIds, GroundingAssumption
  <2>2. IsFiniteSet(ids)
    BY <2>1, ClaimIdsFinite, FS_Subset
  <2>3. \A c \in ids : ReportOf(c) = n /\ verdict[c] \in GroundingStatus
    BY GroundingAssumption DEF ReportOf, GroundingAssumption
  <2>4. Rows = ids
    BY <1>2, <1>4, <2>1, <2>3 DEF GroundingStatus
  <2>5. \A c \in ids : claims'[c] = verdict[c]
    BY <1>4, <2>1
  <2>6. \A s \in GroundingStatus : {c \in ids : verdict[c] = s} = {c \in ids : claims'[c] = s}
    BY <2>5
  <2>7. Counts(ids, verdict) = Counts(Rows, claims')
    BY <2>4, <2>6 DEF Counts
  <2>8. reports'[n] = NewReport(ids, verdict)
    BY <1>1, <1>4 DEF IInv, TypeOK
  <2>9. claims' \in [ClaimIds -> GroundingStatus \cup {"none"}]
    BY <1>4, <2>3 DEF IInv, TypeOK
  <2>10. \A c \in ClaimIds : ReportOf(c) # n => claims'[c] = claims[c]
    BY <1>4, <2>3
  <2> DEFINE r == NewReport(ids, verdict)
  <2>11. /\ r \in Report /\ r # NoReport
         /\ r.count = Counts(ids, verdict)
         /\ r.status = "grounding_blocked" <=> r.count["ungrounded"] > 0
    BY <2>2, NewReportFacts
  <2>12. reports' = [reports EXCEPT ![n] = r] /\ reports'[n] = r
    BY <1>4, <2>8
  <2> HIDE DEF r
  <2>13. QED
    BY <2>7, <2>9, <2>10, <2>11, <2>12
<1>5. QED
  BY <1>1, <1>3, <1>4 DEF Store

(* What Update writes: the report that was fetched, and rows that exist. *)
LEMMA UpdateFacts ==
    ASSUME IInv, NEW h \in Handlers, Update(h)
    PROVE  LET n == call[h].report
           IN /\ n \in Stored
              /\ reports'[n] \in Report
              /\ reports'[n] # NoReport
              /\ reports' = [reports EXCEPT ![n] = reports'[n]]
              /\ reports'[n].status = "grounding_blocked" <=>
                     reports'[n].count["ungrounded"] > 0
              /\ claims' \in [ClaimIds -> GroundingStatus \cup {"none"}]
              /\ \A c \in ClaimIds : claims'[c] = "none" <=> claims[c] = "none"
              /\ issued' \subseteq UnsavedIds
<1> DEFINE n == call[h].report
<1>1. PICK ids \in Checked(h) : \E v \in [ids -> Verdicts] :
          LET status == [c \in Kept(h) \cup ids |->
                            IF c \in ids THEN v[c] ELSE call[h].snap[c]]
          IN /\ reports' = [reports EXCEPT ![n] = NewReport(Kept(h) \cup ids, status)]
             /\ claims' = [c \in ClaimIds |->
                             IF HasRow(c) /\ c \in Kept(h) \cup ids
                             THEN status[c] ELSE claims[c]]
             /\ issued' = issued \cup (ids \cap UnsavedIds)
  BY DEF Update
<1>2. PICK v \in [ids -> Verdicts] :
          LET status == [c \in Kept(h) \cup ids |->
                            IF c \in ids THEN v[c] ELSE call[h].snap[c]]
          IN /\ reports' = [reports EXCEPT ![n] = NewReport(Kept(h) \cup ids, status)]
             /\ claims' = [c \in ClaimIds |->
                             IF HasRow(c) /\ c \in Kept(h) \cup ids
                             THEN status[c] ELSE claims[c]]
             /\ issued' = issued \cup (ids \cap UnsavedIds)
  BY <1>1
<1> DEFINE status == [c \in Kept(h) \cup ids |->
                        IF c \in ids THEN v[c] ELSE call[h].snap[c]]
<1>3. n \in Stored /\ n \in ReportIds
  BY DEF IInv, CallsInv, CallInv, Fetched, Update, Stored
<1>4. \A c \in Kept(h) \cup ids : status[c] \in GroundingStatus
  BY GroundingAssumption DEF IInv, TypeOK, Calls, Kept, Found, GroundingAssumption
<1>5. IsFiniteSet(Kept(h) \cup ids)
  BY CheckedFacts DEF IInv
<1>6. reports' = [reports EXCEPT ![n] = NewReport(Kept(h) \cup ids, status)]
  BY <1>2
<1>7. claims' = [c \in ClaimIds |-> IF HasRow(c) /\ c \in Kept(h) \cup ids
                                    THEN status[c] ELSE claims[c]]
  BY <1>2
<1> HIDE DEF status
<1>8. reports'[n] = NewReport(Kept(h) \cup ids, status)
  BY <1>3, <1>6 DEF IInv, TypeOK
<1>9. claims' \in [ClaimIds -> GroundingStatus \cup {"none"}]
  BY <1>4, <1>7 DEF IInv, TypeOK
<1>10. \A c \in ClaimIds : claims'[c] = "none" <=> claims[c] = "none"
  BY <1>4, <1>7 DEF HasRow, GroundingStatus
<1>11. issued' \subseteq UnsavedIds
  BY <1>2 DEF IInv, TypeOK
<1> DEFINE r == NewReport(Kept(h) \cup ids, status)
<1>12. /\ r \in Report /\ r # NoReport
       /\ r.status = "grounding_blocked" <=> r.count["ungrounded"] > 0
  BY <1>5, NewReportFacts
<1>13. reports' = [reports EXCEPT ![n] = r] /\ reports'[n] = r
  BY <1>6, <1>8
<1> HIDE DEF r
<1>14. QED
  BY <1>3, <1>9, <1>10, <1>11, <1>12, <1>13

(* The two ways a call's record is updated keep its type. *)
LEMMA CallUpdates ==
    ASSUME NEW r \in Calls
    PROVE  /\ \A n \in ReportIds, s \in [ClaimIds -> GroundingStatus \cup {"none"}] :
                 [r EXCEPT !.report = n, !.snap = s] \in Calls
           /\ \A left \in SUBSET (ClaimIds \cup UnsavedIds) : [r EXCEPT !.left = left] \in Calls
  BY DEF Calls

(* What a call holds once it has fetched a report.                         *)
LEMMA FetchedCall ==
    ASSUME TypeOK, NEW h \in Handlers, NEW n \in ReportIds,
           call' = [call EXCEPT ![h].report = n,
                                ![h].snap = [c \in ClaimIds |->
                                   IF ReportOf(c) = n THEN claims[c] ELSE "none"]]
    PROVE  /\ call'[h].n = call[h].n /\ call'[h].path = call[h].path
           /\ call'[h].report = n
           /\ call'[h].affected = call[h].affected /\ call'[h].left = call[h].left
           /\ \A c \in ClaimIds :
                 call'[h].snap[c] = IF ReportOf(c) = n THEN claims[c] ELSE "none"
<1> DEFINE s == [c \in ClaimIds |-> IF ReportOf(c) = n THEN claims[c] ELSE "none"]
<1>1. call[h] \in Calls /\ call \in [Handlers -> Calls]
  BY DEF TypeOK
<1>2. \A c \in ClaimIds : s[c] = IF ReportOf(c) = n THEN claims[c] ELSE "none"
  OBVIOUS
<1>3. call' = [call EXCEPT ![h] = [call[h] EXCEPT !.report = n, !.snap = s]]
  BY <1>1
<1> HIDE DEF s
<1>4. call'[h] = [call[h] EXCEPT !.report = n, !.snap = s]
  BY <1>1, <1>3
<1> QED
  BY <1>1, <1>2, <1>4 DEF Calls

(* Every step keeps the types. *)
LEMMA TypeStep == IInv /\ [Next]_vars => TypeOK'
<1> SUFFICES ASSUME IInv, [Next]_vars PROVE TypeOK'
  OBVIOUS
<1>0. TypeOK
  BY DEF IInv
<1> USE DEF TypeOK
<1>1. ASSUME NEW h \in Handlers, Begin(h) PROVE TypeOK'
  <2>1. PICK path \in Paths, affected \in UNION {Choices(p) : p \in Paths} :
          call' = [call EXCEPT ![h] = NewCall(calls + 1, path, affected)]
    BY <1>1 DEF Begin
  <2>2. affected \subseteq ClaimIds \cup UnsavedIds
    BY <1>0 DEF Choices
  <2>3. NewCall(calls + 1, path, affected) \in Calls
    BY <1>0, <2>2, GroundingAssumption DEF NewCall, Calls, NoClaims, GroundingAssumption
  <2>4. pc' \in [Handlers -> Awaits \cup {"idle"}] /\ result' \in [Handlers -> CallResults]
    BY <1>0, <1>1 DEF Begin, Suspend, Awaits, CallResults
  <2>5. calls' \in 0 .. MaxCalls
    BY <1>0, <1>1, GroundingAssumption DEF Begin, GroundingAssumption
  <2>6. QED
    BY <1>0, <1>1, <2>1, <2>3, <2>4, <2>5 DEF Begin
<1>2. ASSUME NEW h \in Handlers, Store(h) PROVE TypeOK'
  <2>1. /\ reports' \in [ReportIds -> Report \cup {NoReport}]
        /\ claims' \in [ClaimIds -> GroundingStatus \cup {"none"}]
    BY <1>0, <1>2, StoreFacts
  <2>2. original' \in [ClaimIds -> GroundingStatus \cup {"none"}]
    BY <1>0, <1>2, <2>1 DEF Store
  <2>3. QED
    BY <1>0, <1>2, <2>1, <2>2 DEF Store, Return, CallResults
<1>3. ASSUME NEW h \in Handlers, Select(h) PROVE TypeOK'
  BY <1>0, <1>3 DEF Select, Return, Suspend, CallResults, Awaits
<1>4. ASSUME NEW h \in Handlers, Fetch(h) PROVE TypeOK'
  <2>1. call' \in [Handlers -> Calls]
    <3>1. CASE call' = call
      BY <1>0, <3>1
    <3>2. ASSUME NEW n \in ReportIds,
                 call' = [call EXCEPT ![h].report = n,
                                      ![h].snap = [c \in ClaimIds |->
                                         IF ReportOf(c) = n THEN claims[c] ELSE "none"]]
          PROVE  call' \in [Handlers -> Calls]
      <4> DEFINE s == [c \in ClaimIds |-> IF ReportOf(c) = n THEN claims[c] ELSE "none"]
      <4>1. s \in [ClaimIds -> GroundingStatus \cup {"none"}]
        BY <1>0
      <4>2. call' = [call EXCEPT ![h] = [call[h] EXCEPT !.report = n, !.snap = s]]
        BY <1>0, <3>2
      <4> HIDE DEF s
      <4>3. QED
        BY <1>0, <4>1, <4>2, CallUpdates
    <3>3. QED
      BY <1>4, <3>1, <3>2 DEF Fetch
  <2>2. QED
    BY <1>0, <1>4, <2>1 DEF Fetch, Return, Suspend, CallResults, Awaits
<1>5. ASSUME NEW h \in Handlers, Update(h) PROVE TypeOK'
  <2>1. /\ reports' \in [ReportIds -> Report \cup {NoReport}]
        /\ claims' \in [ClaimIds -> GroundingStatus \cup {"none"}]
        /\ issued' \subseteq UnsavedIds
    BY <1>0, <1>5, UpdateFacts DEF Stored
  <2>2. Recounted(h) \subseteq ReportIds
    BY <1>5, UpdateFacts, ClaimIdIsPair DEF Recounted, Stored
  <2>3. edited' \subseteq ReportIds
    BY <1>0, <1>5, <2>2 DEF Update, Recount
  <2>4. QED
    BY <1>0, <1>5, <2>1, <2>3 DEF Update, Suspend, CallResults, Awaits
<1>6. ASSUME NEW h \in Handlers, Resolve(h) PROVE TypeOK'
  <2>1. call[h].report \in ReportIds
    BY <1>6 DEF IInv, CallsInv, CallInv, Fetched, Resolve, Stored
  <2>2. resolutions' \subseteq [report : ReportIds, claim : ClaimIds, path : AllPaths]
    BY <1>0, <1>6, <2>1 DEF Resolve, HasRow, AllPaths
  <2>3. call' \in [Handlers -> Calls]
    <3>1. ASSUME NEW c \in call[h].left, call' = [call EXCEPT ![h].left = @ \ {c}]
          PROVE  call' \in [Handlers -> Calls]
      <4>1. call[h] \in Calls /\ call[h].left \ {c} \in SUBSET (ClaimIds \cup UnsavedIds)
        BY <1>0 DEF Calls
      <4>2. [call[h] EXCEPT !.left = @ \ {c}] \in Calls
        BY <4>1, CallUpdates
      <4>3. QED
        BY <1>0, <3>1, <4>2
    <3>2. QED
      BY <1>0, <1>6, <3>1 DEF Resolve
  <2>4. pc' \in [Handlers -> Awaits \cup {"idle"}] /\ result' \in [Handlers -> CallResults]
    BY <1>0, <1>6 DEF Resolve, Return, Suspend, Awaits, CallResults
  <2>5. unrecorded' \subseteq ClaimIds
    BY <1>0, <1>6 DEF Resolve, Forgets
  <2>6. QED
    BY <1>0, <1>6, <2>2, <2>3, <2>4, <2>5 DEF Resolve
<1>7. ASSUME NEW h \in Handlers, Confirm(h) PROVE TypeOK'
  <2>1. call[h].report \in ReportIds
    BY <1>7 DEF IInv, CallsInv, CallInv, Fetched, Confirm, Stored
  <2>2. call[h].affected \subseteq ClaimIds
    <3>1. ASSUME NEW c \in call[h].affected PROVE c \in ClaimIds
      <4> DEFINE rec == [report |-> call[h].report, claim |-> c, path |-> "manual_edit"]
      <4>1. rec \in resolutions
        BY <1>7 DEF IInv, CallsInv, CallInv, Audited, Confirm
      <4>2. rec \in [report : ReportIds, claim : ClaimIds, path : AllPaths]
        BY <1>0, <4>1
      <4>3. QED
        BY <4>2
    <3>2. QED
      BY <3>1
  <2>3. QED
    BY <1>0, <1>7, <2>1, <2>2 DEF Confirm, Return, CallResults, AllPaths
<1>8. ASSUME NEW h \in Handlers, Abort(h) PROVE TypeOK'
  BY <1>0, <1>8 DEF Abort, Return, CallResults, Forgets
<1>9. CASE UNCHANGED vars
  BY <1>0, <1>9 DEF vars
<1>10. QED
  BY <1>1, <1>2, <1>3, <1>4, <1>5, <1>6, <1>7, <1>8, <1>9 DEF Next, Step

(* A stored report stays stored and keeps its set of claim rows; a report  *)
(* is stored by the call that has its number.                              *)
LEMMA RowsFixed ==
    ASSUME IInv, [Next]_vars
    PROVE  /\ \A n \in Stored : n \in Stored' /\ RowsOf(n)' = RowsOf(n)
           /\ \A n \in ReportIds : reports[n] = NoReport =>
                 \/ reports'[n] = NoReport
                 \/ \E h \in Handlers : Store(h) /\ call[h].n = n
<1>0. TypeOK
  BY DEF IInv
<1>1. ASSUME NEW h \in Handlers, Store(h)
      PROVE  /\ \A n \in Stored : n \in Stored' /\ RowsOf(n)' = RowsOf(n)
             /\ \A n \in ReportIds : n # call[h].n => reports'[n] = reports[n]
  <2>1. /\ call[h].n \in ReportIds /\ call[h].n \notin Stored
        /\ reports' = [reports EXCEPT ![call[h].n] = reports'[call[h].n]]
        /\ \A c \in ClaimIds : ReportOf(c) # call[h].n => claims'[c] = claims[c]
    BY <1>1, StoreFacts
  <2>2. \A n \in ReportIds : n # call[h].n => reports'[n] = reports[n]
    BY <1>0, <2>1 DEF TypeOK
  <2>3. \A n \in Stored : RowsOf(n)' = RowsOf(n)
    BY <2>1 DEF RowsOf
  <2>4. QED
    BY <2>1, <2>2, <2>3 DEF Stored
<1>2. ASSUME NEW h \in Handlers, Update(h)
      PROVE  /\ \A n \in Stored : n \in Stored' /\ RowsOf(n)' = RowsOf(n)
             /\ \A n \in ReportIds : reports[n] = NoReport => reports'[n] = NoReport
  <2>1. /\ call[h].report \in Stored
        /\ reports'[call[h].report] # NoReport
        /\ reports' = [reports EXCEPT ![call[h].report] = reports'[call[h].report]]
        /\ \A c \in ClaimIds : claims'[c] = "none" <=> claims[c] = "none"
    BY <1>2, UpdateFacts
  <2>2. \A n \in ReportIds : n # call[h].report => reports'[n] = reports[n]
    BY <1>0, <2>1 DEF TypeOK
  <2>3. \A n \in Stored : RowsOf(n)' = RowsOf(n)
    BY <2>1 DEF RowsOf
  <2>4. QED
    BY <2>1, <2>2, <2>3 DEF Stored
<1>3. CASE ~ \E h \in Handlers : Store(h) \/ Update(h)
  <2>1. reports' = reports /\ claims' = claims
    BY <1>3 DEF Next, Step, Begin, Select, Fetch, Resolve, Confirm, Abort, vars
  <2>2. QED
    BY <2>1 DEF Stored, RowsOf
<1>4. QED
  BY <1>1, <1>2, <1>3

(* What is true of the numbers and rows that nobody has used stays true. *)
LEMMA UnusedStep == IInv /\ TypeOK' /\ [Next]_vars => Unused'
<1> SUFFICES ASSUME IInv, TypeOK', [Next]_vars PROVE Unused'
  OBVIOUS
<1>0. TypeOK /\ Unused
  BY DEF IInv
<1>1. calls' \in Nat /\ calls \in Nat /\ calls' >= calls
  BY <1>0, GroundingAssumption
     DEF TypeOK, Next, Step, Begin, Store, Select, Fetch, Update, Resolve, Confirm, Abort, vars,
         GroundingAssumption
<1>2. ASSUME NEW n \in ReportIds, n > calls'
      PROVE  reports'[n] = NoReport
  <2>1. n > calls
    BY <1>1, <1>2 DEF ReportIds
  <2>2. reports[n] = NoReport
    BY <1>0, <2>1 DEF Unused
  <2>3. \A h \in Handlers : call[h].n # n
    BY <1>0, <1>1, <2>1 DEF IInv, CallsInv, CallInv, TypeOK, Calls, ReportIds
  <2>4. QED
    BY <2>2, <2>3, RowsFixed
<1>3. ASSUME NEW c \in ClaimIds, claims'[c] # "none"
      PROVE  ReportOf(c) \in Stored'
  <2>1. CASE claims[c] # "none"
    BY <1>0, <2>1, RowsFixed DEF Unused
  <2>2. CASE claims[c] = "none"
    <3>1. ASSUME NEW h \in Handlers, Store(h)
          PROVE  ReportOf(c) \in Stored'
      <4>1. /\ call[h].n \in ReportIds
            /\ reports'[call[h].n] # NoReport
            /\ ReportOf(c) # call[h].n => claims'[c] = claims[c]
        BY <3>1, StoreFacts
      <4>2. QED
        BY <1>3, <2>2, <4>1 DEF Stored
    <3>2. ASSUME NEW h \in Handlers, Update(h)
          PROVE  FALSE
      BY <1>3, <2>2, <3>2, UpdateFacts
    <3>3. \E h \in Handlers : Store(h) \/ Update(h)
      BY <1>3, <2>2 DEF Next, Step, Begin, Select, Fetch, Resolve, Confirm, Abort, vars
    <3>4. QED
      BY <3>1, <3>2, <3>3
  <2>3. QED
    BY <2>1, <2>2
<1>4. QED
  BY <1>2, <1>3 DEF Unused

(* The status of a report follows its counts. *)
LEMMA StatusStep == IInv /\ [Next]_vars => StatusFromCounts'
<1> SUFFICES ASSUME IInv, [Next]_vars, NEW n \in Stored'
             PROVE  reports'[n].status = "grounding_blocked" <=>
                       reports'[n].count["ungrounded"] > 0
  BY DEF StatusFromCounts
<1>0. TypeOK /\ n \in ReportIds
  BY DEF IInv, Stored
<1>1. CASE reports'[n] = reports[n]
  BY <1>1 DEF IInv, StatusFromCounts, Stored
<1>2. ASSUME NEW h \in Handlers, Store(h), reports'[n] # reports[n]
      PROVE  n = call[h].n
  <2>1. reports' = [reports EXCEPT ![call[h].n] = reports'[call[h].n]]
    BY <1>2, StoreFacts
  <2>2. QED
    BY <1>0, <1>2, <2>1 DEF TypeOK
<1>3. ASSUME NEW h \in Handlers, Update(h), reports'[n] # reports[n]
      PROVE  n = call[h].report
  <2>1. reports' = [reports EXCEPT ![call[h].report] = reports'[call[h].report]]
    BY <1>3, UpdateFacts
  <2>2. QED
    BY <1>0, <1>3, <2>1 DEF TypeOK
<1>4. CASE reports'[n] # reports[n]
  <2>1. PICK h \in Handlers : Store(h) \/ Update(h)
    BY <1>4 DEF Next, Step, Begin, Select, Fetch, Resolve, Confirm, Abort, vars
  <2>2. CASE Store(h)
    BY <1>2, <1>4, <2>2, StoreFacts
  <2>3. CASE Update(h)
    BY <1>3, <1>4, <2>3, UpdateFacts
  <2>4. QED
    BY <2>1, <2>2, <2>3
<1>5. QED
  BY <1>1, <1>4

(* A step belongs to one handler and leaves the other calls alone. *)
LEMMA Mover ==
    ASSUME IInv, Next
    PROVE  \E h \in Handlers :
              /\ Begin(h) \/ Step(h) \/ Abort(h)
              /\ \A g \in Handlers \ {h} :
                    pc'[g] = pc[g] /\ call'[g] = call[g] /\ result'[g] = result[g]
<1>0. TypeOK
  BY DEF IInv
<1>1. PICK h \in Handlers : Begin(h) \/ Step(h) \/ Abort(h)
  BY DEF Next
<1>2. ASSUME NEW g \in Handlers \ {h}
      PROVE  pc'[g] = pc[g] /\ call'[g] = call[g] /\ result'[g] = result[g]
  BY <1>0, <1>1 DEF TypeOK, Step, Begin, Store, Select, Fetch, Update, Resolve, Confirm, Abort,
                    Return, Suspend
<1>3. QED
  BY <1>1, <1>2

(* Records, reports and numbers only grow, so a call that does not move    *)
(* keeps what it knows.                                                    *)
LEMMA Growth ==
    ASSUME IInv, [Next]_vars
    PROVE  resolutions \subseteq resolutions' /\ calls <= calls'
<1>1. calls \in Nat
  BY GroundingAssumption DEF IInv, TypeOK, GroundingAssumption
<1>2. QED
  BY <1>1 DEF Next, Step, Begin, Store, Select, Fetch, Update, Resolve, Confirm, Abort, vars

(* A call that does not move keeps what it carries, whatever another       *)
(* stores.                                                                 *)
LEMMA UnmovedKeepsInv ==
    ASSUME IInv, TypeOK', [Next]_vars, NEW g \in Handlers,
           pc'[g] = pc[g], call'[g] = call[g]
    PROVE  /\ call'[g].n <= calls'
           /\ pc'[g] # "idle" => call'[g].path \in Paths
           /\ pc'[g] \in {"store", "select", "fetch"} => call'[g].report = 0
           /\ pc'[g] \in {"select", "fetch", "update"} => call'[g].path # "verify"
           /\ pc'[g] = "store" => call'[g].n \in ReportIds /\ reports'[call'[g].n] = NoReport
           /\ Fetched(g)'
           /\ Audited(g)'
<1>0. CallInv(g) /\ TypeOK
  BY DEF IInv, CallsInv
<1>1. call'[g].n <= calls'
  <2>1. call[g].n \in Nat /\ calls \in Nat /\ calls' \in Nat
    BY <1>0, GroundingAssumption DEF TypeOK, Calls, GroundingAssumption
  <2>2. QED
    BY <1>0, <2>1, Growth DEF CallInv
<1>2. ASSUME pc[g] = "store"
      PROVE  call[g].n \in ReportIds /\ reports'[call[g].n] = NoReport
  <2>1. call[g].n \in ReportIds /\ reports[call[g].n] = NoReport
    BY <1>0, <1>2 DEF CallInv, Storing
  <2>2. ASSUME NEW h \in Handlers, Store(h), call[h].n = call[g].n
        PROVE  FALSE
    <3>1. h = g
      BY <1>0, <1>2, <2>2 DEF CallInv, Storing, Store
    <3>2. pc'[g] = "idle"
      BY <1>0, <2>2, <3>1 DEF Store, Return, TypeOK
    <3>3. QED
      BY <1>2, <3>2
  <2>3. QED
    BY <2>1, <2>2, RowsFixed
<1>3. Fetched(g)'
  BY <1>0, RowsFixed DEF CallInv, Fetched
<1>4. Audited(g)'
  BY <1>0, Growth DEF CallInv, Audited
<1>5. QED
  BY <1>0, <1>1, <1>2, <1>3, <1>4 DEF CallInv

(* The call that moves knows what the next step needs. *)
LEMMA MoverKeepsInv ==
    ASSUME IInv, TypeOK', NEW h \in Handlers, Begin(h) \/ Step(h) \/ Abort(h)
    PROVE  /\ call'[h].n <= calls'
           /\ pc'[h] # "idle" => call'[h].path \in Paths
           /\ pc'[h] \in {"store", "select", "fetch"} => call'[h].report = 0
           /\ pc'[h] \in {"select", "fetch", "update"} => call'[h].path # "verify"
           /\ pc'[h] = "store" => call'[h].n \in ReportIds /\ reports'[call'[h].n] = NoReport
           /\ Fetched(h)'
           /\ Audited(h)'
<1>0. CallInv(h) /\ TypeOK /\ Unused
  BY DEF IInv, CallsInv
<1>a. calls \in Nat /\ call[h].n \in Nat /\ MaxCalls \in Nat
  BY <1>0, GroundingAssumption DEF TypeOK, Calls, GroundingAssumption
<1>1. CASE Begin(h)
  <2>1. PICK path \in Paths, affected \in UNION {Choices(p) : p \in Paths} :
          /\ call' = [call EXCEPT ![h] = NewCall(calls + 1, path, affected)]
          /\ pc' = [pc EXCEPT ![h] = CASE path = "verify"     -> "store"
                                       [] path = "regenerate" -> "select"
                                       [] OTHER               -> "fetch"]
    BY <1>1 DEF Begin, Suspend
  <2>2. /\ call'[h].n = calls + 1
        /\ call'[h].path \in Paths
        /\ pc'[h] \in {"select", "fetch", "update"} => call'[h].path # "verify"
        /\ call'[h].report = 0
        /\ call'[h].left = call'[h].affected
    <3>1. call'[h] = NewCall(calls + 1, path, affected)
      BY <1>0, <2>1 DEF TypeOK
    <3>2. pc'[h] \in {"select", "fetch", "update"} => path # "verify"
      BY <1>0, <2>1 DEF TypeOK
    <3>3. QED
      BY <3>1, <3>2 DEF NewCall
  <2>3. pc'[h] \in {"store", "select", "fetch"}
    BY <1>0, <1>1 DEF TypeOK, Begin, Suspend
  <2>4. calls' = calls + 1 /\ calls + 1 \in ReportIds /\ reports' = reports
    BY <1>1, <1>a DEF Begin, ReportIds
  <2>5. reports[calls + 1] = NoReport
    BY <1>0, <1>a, <2>4 DEF Unused
  <2>6. QED
    BY <1>a, <2>2, <2>3, <2>4, <2>5 DEF Fetched, Audited
<1>2. CASE Store(h) \/ Abort(h)
  <2>1. pc'[h] = "idle" /\ call' = call /\ calls' = calls
    BY <1>0, <1>2 DEF TypeOK, Store, Abort, Return
  <2>2. QED
    BY <1>0, <2>1 DEF CallInv, Fetched, Audited
<1>3. CASE Select(h)
  <2>1. pc'[h] \in {"idle", "fetch"} /\ call' = call /\ calls' = calls /\ pc[h] = "select"
    BY <1>0, <1>3 DEF TypeOK, Select, Return, Suspend
  <2>2. QED
    BY <1>0, <2>1 DEF CallInv, Fetched, Audited
<1>4. CASE Fetch(h)
  <2>1. CASE pc'[h] = "idle" /\ call' = call
    BY <1>0, <1>4, <2>1 DEF CallInv, Fetched, Audited, Fetch
  <2>2. ASSUME NEW n \in ReportIds, IsLatest(n, h), pc'[h] = "update",
               call' = [call EXCEPT ![h].report = n,
                                    ![h].snap = [c \in ClaimIds |->
                                       IF ReportOf(c) = n THEN claims[c] ELSE "none"]]
        PROVE  /\ call'[h].n <= calls'
               /\ call'[h].path \in Paths
               /\ call'[h].path # "verify"
               /\ Fetched(h)'
               /\ Audited(h)'
    <3>1. /\ call'[h].n = call[h].n /\ call'[h].path = call[h].path
          /\ call'[h].report = n
          /\ call'[h].affected = call[h].affected /\ call'[h].left = call[h].left
          /\ \A c \in ClaimIds :
                call'[h].snap[c] = IF ReportOf(c) = n THEN claims[c] ELSE "none"
      BY <1>0, <2>2, FetchedCall
    <3>2. reports' = reports /\ claims' = claims /\ calls' = calls /\ pc[h] = "fetch"
      BY <1>4 DEF Fetch
    <3>3. n \in Stored' /\ RowsOf(n)' = RowsOf(n)
      BY <2>2, <3>2 DEF IsLatest, OfMaterial, Stored, RowsOf
    <3>4. Fetched(h)'
      BY <3>1, <3>3 DEF Fetched, RowsOf
    <3>5. QED
      BY <1>0, <2>2, <3>1, <3>2, <3>4 DEF CallInv, Audited
  <2>3. QED
    BY <1>0, <1>4, <2>1, <2>2 DEF Fetch, Return, Suspend, TypeOK
<1>5. CASE Update(h)
  <2>1. /\ pc'[h] = "resolve" /\ pc[h] = "update" /\ call' = call /\ calls' = calls
        /\ resolutions' = resolutions
    BY <1>0, <1>5 DEF TypeOK, Update, Suspend
  <2>2. Fetched(h)'
    <3>1. [Next]_vars
      BY <1>5 DEF Next, Step
    <3>2. QED
      BY <1>0, <2>1, <3>1, RowsFixed DEF CallInv, Fetched
  <2>3. QED
    BY <1>0, <2>1, <2>2 DEF CallInv, Audited
<1>6. CASE Resolve(h)
  <2>1. reports' = reports /\ claims' = claims /\ calls' = calls /\ pc[h] = "resolve"
    BY <1>6 DEF Resolve
  <2>2. CASE pc'[h] = "idle" /\ call' = call
    BY <1>0, <2>1, <2>2 DEF CallInv, Fetched, Audited
  <2>3. ASSUME NEW c \in call[h].left, call' = [call EXCEPT ![h].left = @ \ {c}],
               resolutions' = resolutions \cup
                 {[report |-> call[h].report, claim |-> c, path |-> "manual_edit"]},
               \/ call[h].left # {c} /\ pc'[h] = "resolve"
               \/ call[h].left = {c} /\ pc'[h] = "confirm" /\ call[h].path = "confirm_and_add"
               \/ pc'[h] = "idle"
        PROVE  /\ call'[h].n <= calls'
               /\ call'[h].path \in Paths
               /\ Fetched(h)'
               /\ Audited(h)'
    <3>1. call'[h] = [call[h] EXCEPT !.left = @ \ {c}]
      BY <1>0, <2>3 DEF TypeOK
    <3>2. /\ call'[h].n = call[h].n /\ call'[h].path = call[h].path
          /\ call'[h].report = call[h].report /\ call'[h].snap = call[h].snap
          /\ call'[h].affected = call[h].affected
          /\ call'[h].left = call[h].left \ {c}
      BY <1>0, <3>1 DEF TypeOK, Calls
    <3>3. Fetched(h)'
      BY <1>0, <2>1, <3>2 DEF CallInv, Fetched, Stored, RowsOf
    <3>4. Audited(h)'
      BY <1>0, <2>1, <2>3, <3>2 DEF CallInv, Audited
    <3>5. QED
      BY <1>0, <2>1, <3>2, <3>3, <3>4 DEF CallInv
  <2>4. QED
    BY <1>0, <1>6, <2>1, <2>2, <2>3 DEF Resolve, Return, Suspend, TypeOK
<1>7. CASE Confirm(h)
  <2>1. pc'[h] = "idle" /\ call' = call /\ calls' = calls
    BY <1>0, <1>7 DEF TypeOK, Confirm, Return
  <2>2. QED
    BY <1>0, <2>1 DEF CallInv, Fetched, Audited
<1>8. QED
  BY <1>1, <1>2, <1>3, <1>4, <1>5, <1>6, <1>7 DEF Step

(* No two calls are given the same number. *)
LEMMA NumbersStayDistinct ==
    ASSUME IInv, Next
    PROVE  \A f, g \in Handlers :
              (pc'[f] = "store" /\ pc'[g] = "store" /\ call'[f].n = call'[g].n) => f = g
<1>0. TypeOK /\ CallsInv
  BY DEF IInv
<1>1. PICK h \in Handlers :
         /\ Begin(h) \/ Step(h) \/ Abort(h)
         /\ \A g \in Handlers \ {h} : pc'[g] = pc[g] /\ call'[g] = call[g]
  BY Mover
<1>2. ASSUME pc'[h] = "store"
      PROVE  call'[h].n = calls + 1
  <2>1. Begin(h)
    BY <1>0, <1>1, <1>2 DEF TypeOK, Step, Store, Select, Fetch, Update, Resolve, Confirm, Abort,
                            Return, Suspend
  <2>2. QED
    BY <1>0, <2>1 DEF Begin, NewCall, TypeOK
<1>3. \A g \in Handlers \ {h} : call'[g].n <= calls /\ call'[g].n \in Nat /\ calls \in Nat
  BY <1>0, <1>1, GroundingAssumption DEF CallsInv, CallInv, TypeOK, Calls, GroundingAssumption
<1>4. QED
  BY <1>0, <1>1, <1>2, <1>3 DEF CallsInv, CallInv, Storing

(* Every step keeps what the calls carry across their awaits, the one      *)
(* that moves and the others.                                              *)
LEMMA CallsStep == IInv /\ TypeOK' /\ [Next]_vars => CallsInv'
<1> SUFFICES ASSUME IInv, TypeOK', [Next]_vars, NEW g \in Handlers PROVE CallInv(g)'
  BY DEF CallsInv
<1>1. CASE UNCHANGED vars
  <2>1. pc'[g] = pc[g] /\ call'[g] = call[g]
    BY <1>1 DEF vars
  <2>2. \A f \in Handlers : (pc'[f] = "store" /\ call'[f].n = call'[g].n /\ pc'[g] = "store") => f = g
    BY <1>1 DEF vars, IInv, CallsInv, CallInv, Storing
  <2>3. QED
    BY <2>1, <2>2, UnmovedKeepsInv DEF CallInv, Storing
<1>2. CASE Next
  <2>1. PICK h \in Handlers :
           /\ Begin(h) \/ Step(h) \/ Abort(h)
           /\ \A f \in Handlers \ {h} : pc'[f] = pc[f] /\ call'[f] = call[f]
    BY <1>2, Mover
  <2>2. CASE g = h
    BY <1>2, <2>1, <2>2, MoverKeepsInv, NumbersStayDistinct DEF CallInv, Storing
  <2>3. CASE g # h
    BY <1>2, <2>1, <2>3, UnmovedKeepsInv, NumbersStayDistinct DEF CallInv, Storing
  <2>4. QED
    BY <2>2, <2>3
<1>3. QED
  BY <1>1, <1>2

(* What the calls carry, the unused numbers and the statuses of the        *)
(* reports hold in every reachable state.                                  *)
THEOREM Inductive == Spec => []IInv
<1>1. IInv /\ [Next]_vars => IInv'
  BY TypeStep, CallsStep, UnusedStep, StatusStep DEF IInv
<1>2. QED
  BY <1>1, InitInv, PTL DEF Spec

(* Every reachable state is well typed. *)
THEOREM TypeCorrect == Spec => []TypeOK
<1>1. IInv => TypeOK
  BY DEF IInv
<1>2. QED
  BY <1>1, Inductive, PTL

-----------------------------------------------------------------------------
(* Unblocking.  Only an update takes a report out of grounding_blocked.    *)
LEMMA UnblockedByUpdate ==
    ASSUME IInv, [Next]_vars, NEW n \in ReportIds, Unblocked(n)
    PROVE  \E h \in Handlers : Update(h) /\ call[h].report = n
<1>0. TypeOK
  BY DEF IInv
<1>1. reports'[n] # reports[n] /\ n \in Stored
  BY DEF Unblocked, Stored, NoReport
<1>2. PICK h \in Handlers : Store(h) \/ Update(h)
  BY <1>1 DEF Next, Step, Begin, Select, Fetch, Resolve, Confirm, Abort, vars
<1>3. ~Store(h)
  <2> SUFFICES ASSUME Store(h) PROVE FALSE
    OBVIOUS
  <2>1. call[h].n \notin Stored /\ reports' = [reports EXCEPT ![call[h].n] = reports'[call[h].n]]
    BY StoreFacts
  <2>2. QED
    BY <1>0, <1>1, <2>1 DEF TypeOK
<1>4. CASE Update(h)
  <2>1. reports' = [reports EXCEPT ![call[h].report] = reports'[call[h].report]]
    BY <1>4, UpdateFacts
  <2>2. QED
    BY <1>0, <1>1, <1>4, <2>1 DEF TypeOK
<1>5. QED
  BY <1>2, <1>3, <1>4

(* What the call fetched as ungrounded and was not asked to resolve keeps  *)
(* the report blocked.                                                     *)
LEMMA KeptStaysUngrounded ==
    ASSUME IInv, NEW h \in Handlers, Update(h),
           reports'[call[h].report].status = "grounding_verified",
           NEW c \in ClaimIds, call[h].snap[c] = "ungrounded"
    PROVE  c \in call[h].affected
<1> SUFFICES ASSUME c \notin call[h].affected PROVE FALSE
  OBVIOUS
<1> DEFINE n == call[h].report
<1>0. TypeOK /\ n \in ReportIds
  BY DEF IInv, CallsInv, CallInv, Fetched, Update, Stored
<1>1. PICK ids \in Checked(h) : \E v \in [ids -> Verdicts] :
          LET status == [d \in Kept(h) \cup ids |->
                            IF d \in ids THEN v[d] ELSE call[h].snap[d]]
          IN reports' = [reports EXCEPT ![n] = NewReport(Kept(h) \cup ids, status)]
  BY DEF Update
<1>2. PICK v \in [ids -> Verdicts] :
          LET status == [d \in Kept(h) \cup ids |->
                            IF d \in ids THEN v[d] ELSE call[h].snap[d]]
          IN reports' = [reports EXCEPT ![n] = NewReport(Kept(h) \cup ids, status)]
  BY <1>1
<1> DEFINE status == [d \in Kept(h) \cup ids |->
                        IF d \in ids THEN v[d] ELSE call[h].snap[d]]
<1>3. ids \subseteq call[h].affected \cup UnsavedIds /\ IsFiniteSet(Kept(h) \cup ids)
  BY CheckedFacts DEF IInv
<1>4. c \notin ids /\ c \in Kept(h)
  BY <1>3, GroundingAssumption DEF Kept, Found, GroundingAssumption
<1>5. status[c] = "ungrounded"
  BY <1>4
<1>6. reports'[n] = NewReport(Kept(h) \cup ids, status)
  BY <1>0, <1>2 DEF TypeOK
<1> HIDE DEF status
<1>7. \A d \in Kept(h) \cup ids : status[d] # "ungrounded"
  BY <1>3, <1>6, NewReportFacts
<1>8. QED
  BY <1>4, <1>5, <1>7

(* On every path a re-verification with fresh claims unblocks a report     *)
(* only if it was asked to resolve every ungrounded claim row.             *)
THEOREM FreshUnblock == Spec => FreshUnblockIsSound
<1> DEFINE Sound == \A n \in ReportIds : Unblocked(n) =>
              \E h \in Handlers :
                 /\ pc[h] = "update" /\ call[h].report = n
                 /\ (\A c \in RowsOf(n) : call[h].snap[c] = claims[c])
                        => Ungrounded(n) \subseteq call[h].affected
<1>1. IInv /\ [Next]_vars => [Sound]_vars
  <2> SUFFICES ASSUME IInv, [Next]_vars, NEW n \in ReportIds, Unblocked(n)
               PROVE  \E h \in Handlers :
                         /\ pc[h] = "update" /\ call[h].report = n
                         /\ (\A c \in RowsOf(n) : call[h].snap[c] = claims[c])
                                => Ungrounded(n) \subseteq call[h].affected
    OBVIOUS
  <2>1. PICK h \in Handlers : Update(h) /\ call[h].report = n
    BY UnblockedByUpdate
  <2>2. ASSUME \A c \in RowsOf(n) : call[h].snap[c] = claims[c], NEW c \in Ungrounded(n)
        PROVE  c \in call[h].affected
    BY <2>1, <2>2, KeptStaysUngrounded DEF Ungrounded, RowsOf, Unblocked
  <2>3. pc[h] = "update"
    BY <2>1 DEF Update
  <2>4. QED
    BY <2>1, <2>2, <2>3
<1>2. QED
  BY <1>1, Inductive, PTL DEF Spec, FreshUnblockIsSound

-----------------------------------------------------------------------------
(* A confirmation writes every claim row of its report, with the statuses  *)
(* it has counted.                                                         *)
LEMMA ConfirmationCounts ==
    ASSUME IInv, NEW h \in Handlers, Update(h), call[h].path = "confirm_and_add",
           NEW n \in ReportIds, call[h].report = n
    PROVE  /\ reports'[n].count = Counts(RowsOf(n)', claims')
           /\ \A c \in ClaimIds : ReportOf(c) # n => claims'[c] = claims[c]
<1>0. TypeOK /\ Fetched(h) /\ pc[h] = "update"
  BY DEF IInv, CallsInv, CallInv, Update
<1>2. PICK ids \in Checked(h) : \E v \in [ids -> Verdicts] :
          LET status == [c \in Kept(h) \cup ids |->
                            IF c \in ids THEN v[c] ELSE call[h].snap[c]]
          IN /\ reports' = [reports EXCEPT ![n] = NewReport(Kept(h) \cup ids, status)]
             /\ claims' = [c \in ClaimIds |->
                             IF HasRow(c) /\ c \in Kept(h) \cup ids
                             THEN status[c] ELSE claims[c]]
  BY DEF Update
<1>3. PICK v \in [ids -> Verdicts] :
          LET status == [c \in Kept(h) \cup ids |->
                            IF c \in ids THEN v[c] ELSE call[h].snap[c]]
          IN /\ reports' = [reports EXCEPT ![n] = NewReport(Kept(h) \cup ids, status)]
             /\ claims' = [c \in ClaimIds |->
                             IF HasRow(c) /\ c \in Kept(h) \cup ids
                             THEN status[c] ELSE claims[c]]
  BY <1>2
<1> DEFINE status == [c \in Kept(h) \cup ids |->
                        IF c \in ids THEN v[c] ELSE call[h].snap[c]]
<1>4. Kept(h) \cup ids = RowsOf(n) /\ IsFiniteSet(Kept(h) \cup ids)
  <2>1. ids = Mine(h) /\ IsFiniteSet(Kept(h) \cup ids)
    BY <1>0, CheckedFacts
  <2>2. Found(h) = RowsOf(n)
    BY <1>0 DEF Found, Fetched, RowsOf
  <2>3. QED
    BY <2>1, <2>2 DEF Kept, Mine
<1>5. /\ reports' = [reports EXCEPT ![n] = NewReport(Kept(h) \cup ids, status)]
      /\ claims' = [c \in ClaimIds |-> IF HasRow(c) /\ c \in Kept(h) \cup ids
                                       THEN status[c] ELSE claims[c]]
  BY <1>3
<1> HIDE DEF status
<1>6. \A c \in ClaimIds : ReportOf(c) # n => claims'[c] = claims[c]
  BY <1>4, <1>5 DEF RowsOf
<1>7. \A c \in RowsOf(n) : claims'[c] = status[c]
  BY <1>4, <1>5 DEF RowsOf, HasRow
<1>8. RowsOf(n)' = RowsOf(n)
  BY UpdateFacts DEF RowsOf
<1>9. Counts(RowsOf(n), status) = Counts(RowsOf(n)', claims')
  <2>1. \A s : {c \in RowsOf(n) : status[c] = s} = {c \in RowsOf(n)' : claims'[c] = s}
    BY <1>7, <1>8
  <2>2. QED
    BY <2>1 DEF Counts
<1>10. reports'[n] = NewReport(RowsOf(n), status)
  BY <1>0, <1>4, <1>5 DEF TypeOK
<1>11. reports'[n].count = Counts(RowsOf(n), status)
  BY <1>4, <1>10, NewReportFacts
<1>12. QED
  BY <1>6, <1>9, <1>11

(* A re-verification writes its own report, and rows of the reports whose  *)
(* claims it was given.                                                    *)
LEMMA EditLeavesOthers ==
    ASSUME IInv, NEW h \in Handlers, Update(h), NEW n \in ReportIds \ Recounted(h)
    PROVE  /\ reports'[n] = reports[n]
           /\ \A c \in ClaimIds : ReportOf(c) = n => claims'[c] = claims[c]
<1>0. TypeOK /\ Fetched(h) /\ pc[h] = "update"
  BY DEF IInv, CallsInv, CallInv, Update
<1>1. reports'[n] = reports[n]
  BY <1>0, UpdateFacts DEF TypeOK, Recounted
<1>2. ASSUME NEW c \in ClaimIds, ReportOf(c) = n PROVE claims'[c] = claims[c]
  <2>1. PICK ids \in Checked(h) : \A d \in ClaimIds :
            d \notin Kept(h) \cup ids => claims'[d] = claims[d]
    BY DEF Update
  <2>2. c \notin Found(h)
    BY <1>0, <1>2 DEF Found, Fetched, RowsOf, Recounted
  <2>3. c \notin call[h].affected /\ c \notin UnsavedIds
    BY <1>2, GroundingAssumption DEF GroundingAssumption, Recounted
  <2>4. c \notin ids
    BY <1>0, <2>3, CheckedFacts
  <2> QED
    BY <2>1, <2>2, <2>4 DEF Kept
<1> QED
  BY <1>1, <1>2

(* The counts of a report stay those of its rows until an edit recounts    *)
(* them, and become so with the next confirmation.                         *)
LEMMA CountsStep ==
    ASSUME IInv, [Next]_vars, CountsMatchRows
    PROVE  CountsMatchRows'
<1> SUFFICES ASSUME NEW n \in Stored' \ edited'
             PROVE  reports'[n].count = Counts(RowsOf(n)', claims')
  BY DEF CountsMatchRows
<1>0. TypeOK /\ n \in ReportIds
  BY DEF IInv, Stored
<1>1. ASSUME n \notin edited, reports'[n] = reports[n],
             \A c \in ClaimIds : ReportOf(c) = n => claims'[c] = claims[c]
      PROVE  reports'[n].count = Counts(RowsOf(n)', claims')
  <2>1. n \in Stored
    BY <1>1 DEF Stored
  <2>2. RowsOf(n)' = RowsOf(n)
    BY <1>1 DEF RowsOf
  <2>3. \A s : {c \in RowsOf(n) : claims[c] = s} = {c \in RowsOf(n)' : claims'[c] = s}
    BY <1>1, <2>2 DEF RowsOf
  <2>4. Counts(RowsOf(n), claims) = Counts(RowsOf(n)', claims')
    BY <2>3 DEF Counts
  <2>5. QED
    BY <1>1, <2>1, <2>4 DEF CountsMatchRows
<1>2. ASSUME NEW h \in Handlers, Store(h)
      PROVE  reports'[n].count = Counts(RowsOf(n)', claims')
  <2>1. CASE n = call[h].n
    BY <1>2, <2>1, StoreFacts DEF RowsOf
  <2>2. CASE n # call[h].n
    <3>1. reports'[n] = reports[n]
      BY <1>0, <1>2, <2>2, StoreFacts DEF TypeOK
    <3>2. \A c \in ClaimIds : ReportOf(c) = n => claims'[c] = claims[c]
      BY <1>2, <2>2, StoreFacts
    <3>3. n \notin edited
      BY <1>2 DEF Store
    <3>4. QED
      BY <1>1, <3>1, <3>2, <3>3
  <2>3. QED
    BY <2>1, <2>2
<1>3. ASSUME NEW h \in Handlers, Update(h)
      PROVE  reports'[n].count = Counts(RowsOf(n)', claims')
  <2>1. CASE call[h].path = "confirm_and_add" /\ n = call[h].report
    BY <1>0, <1>3, <2>1, ConfirmationCounts
  <2>2. CASE call[h].path = "confirm_and_add" /\ n # call[h].report
    <3>1. reports'[n] = reports[n]
      BY <1>0, <1>3, <2>2, UpdateFacts DEF TypeOK
    <3>2. \A c \in ClaimIds : ReportOf(c) = n => claims'[c] = claims[c]
      BY <1>3, <2>2, UpdateFacts, ConfirmationCounts DEF Stored
    <3>3. n \notin edited
      BY <1>3, <2>2 DEF Update, Recount
    <3>4. QED
      BY <1>1, <3>1, <3>2, <3>3
  <2>3. CASE call[h].path # "confirm_and_add"
    <3>1. n \notin edited /\ n \notin Recounted(h)
      BY <1>3, <2>3 DEF Update, Recount
    <3>2. QED
      BY <1>0, <1>1, <1>3, <3>1, EditLeavesOthers
  <2>4. QED
    BY <2>1, <2>2, <2>3
<1>4. CASE UNCHANGED <<reports, claims, edited>>
  BY <1>1, <1>4
<1>5. QED
  BY <1>2, <1>3, <1>4 DEF Next, Step, Begin, Select, Fetch, Resolve, Confirm, Abort, vars

(* Concurrent resolutions never part the counts of a report from its claim *)
(* rows; an edit does, until a confirmation has written them again.        *)
LEMMA CountsMatch == Spec => []CountsMatchRows
<1>1. Init => CountsMatchRows
  BY DEF Init, CountsMatchRows, Stored
<1>2. IInv /\ CountsMatchRows /\ [Next]_vars => CountsMatchRows'
  BY CountsStep
<1>3. QED
  BY <1>1, <1>2, Inductive, PTL DEF Spec

(* With the counts, the gate's answer is that of the rows.                 *)
LEMMA BlockedByRows ==
    ASSUME IInv, CountsMatchRows
    PROVE  BlockedIffUngrounded
<1> SUFFICES ASSUME NEW n \in Stored \ edited
             PROVE  reports[n].status = "grounding_blocked" <=> Ungrounded(n) # {}
  BY DEF BlockedIffUngrounded
<1>1. IsFiniteSet(RowsOf(n))
  BY ClaimIdsFinite, FS_Subset DEF RowsOf
<1>2. Counts(RowsOf(n), claims)["ungrounded"] > 0 <=> \E c \in RowsOf(n) : claims[c] = "ungrounded"
  BY <1>1, CountsAreNumbers DEF GroundingStatus
<1>3. QED
  BY <1>2 DEF IInv, StatusFromCounts, CountsMatchRows, Ungrounded

(* What the gate reads of a report is what its claim rows say, however the *)
(* calls interleave, but for a report that an edit has recounted.          *)
THEOREM ReportMatches == Spec => []ReportMatchesRows
<1>1. IInv /\ CountsMatchRows => ReportMatchesRows
  BY BlockedByRows DEF ReportMatchesRows
<1>2. QED
  BY <1>1, Inductive, CountsMatch, PTL

-----------------------------------------------------------------------------
(* What a call holds of its claims is accounted for as the rows are.       *)
TrailInv ==
    /\ ChangedIsAccounted
    /\ \A h \in Handlers, c \in ClaimIds :
          pc[h] = "update" /\ call[h].snap[c] # "none" /\ call[h].snap[c] # original[c] => Accounted(c)

(* An account is never lost: it passes from the call to the records, or to *)
(* what the call leaves when it fails.                                     *)
LEMMA AccountKept ==
    ASSUME IInv, TypeOK', [Next]_vars, NEW c \in ClaimIds, Accounted(c)
    PROVE  Accounted(c)'
<1>0. TypeOK
  BY DEF IInv
<1>1. CASE \E r \in resolutions : r.claim = c
  BY <1>1, Growth DEF Accounted
<1>2. unrecorded \subseteq unrecorded'
  BY DEF Next, Step, Begin, Store, Select, Fetch, Update, Resolve, Confirm, Abort, Forgets, vars
<1>3. CASE c \in unrecorded
  BY <1>2, <1>3 DEF Accounted
<1>4. ASSUME NEW h \in Handlers, pc[h] = "resolve", c \in call[h].left PROVE Accounted(c)'
  <2>1. CASE pc'[h] = pc[h] /\ call'[h] = call[h]
    BY <1>4, <2>1 DEF Accounted
  <2>2. CASE Abort(h)
    BY <1>4, <2>2 DEF Abort, Forgets, Accounted
  <2>3. CASE Resolve(h)
    <3>1. CASE Forgets(h)
      BY <1>4, <3>1 DEF Forgets, Accounted
    <3>2. ASSUME NEW d \in call[h].left,
                 resolutions' = resolutions \cup
                    {[report |-> call[h].report, claim |-> d, path |-> "manual_edit"]},
                 call' = [call EXCEPT ![h].left = @ \ {d}],
                 (call[h].left # {d} /\ Suspend(h, "resolve")) \/ call[h].left = {d}
          PROVE  Accounted(c)'
      <4>1. CASE c = d
        <5>1. [report |-> call[h].report, claim |-> d, path |-> "manual_edit"] \in resolutions'
          BY <3>2
        <5> QED
          BY <4>1, <5>1 DEF Accounted
      <4>2. CASE c # d
        <5>1. Suspend(h, "resolve")
          BY <1>4, <3>2, <4>2
        <5>2. pc'[h] = "resolve"
          BY <1>0, <5>1 DEF Suspend, TypeOK
        <5>3. call'[h] = [call[h] EXCEPT !.left = @ \ {d}]
          BY <1>0, <3>2 DEF TypeOK
        <5>4. call'[h].left = call[h].left \ {d}
          BY <1>0, <5>3 DEF TypeOK, Calls
        <5> QED
          BY <1>4, <4>2, <5>2, <5>4 DEF Accounted
      <4> QED
        BY <4>1, <4>2
    <3>3. QED
      BY <2>3, <3>1, <3>2 DEF Resolve
  <2>4. CASE UNCHANGED vars
    BY <2>1, <2>4 DEF vars
  <2>5. CASE Next /\ ~ Abort(h) /\ ~ Resolve(h)
    <3>1. PICK g \in Handlers :
             /\ Begin(g) \/ Step(g) \/ Abort(g)
             /\ \A f \in Handlers \ {g} : pc'[f] = pc[f] /\ call'[f] = call[f]
      BY <2>5, Mover
    <3>2. g # h
      BY <1>4, <2>5, <3>1 DEF Begin, Step, Store, Select, Fetch, Update, Confirm
    <3> QED
      BY <2>1, <3>1, <3>2
  <2> QED
    BY <2>2, <2>3, <2>4, <2>5
<1> QED
  BY <1>1, <1>3, <1>4 DEF Accounted

(* A re-verification gives a row a new status only if it was asked to      *)
(* resolve its claim; the others get what was fetched.                     *)
LEMMA UpdateWritesBack ==
    ASSUME IInv, NEW h \in Handlers, Update(h), NEW c \in ClaimIds, claims'[c] # claims[c]
    PROVE  c \in call[h].affected \/ (call[h].snap[c] # "none" /\ claims'[c] = call[h].snap[c])
<1>1. PICK ids \in Checked(h) : \E v \in [ids -> Verdicts] :
          LET status == [d \in Kept(h) \cup ids |->
                            IF d \in ids THEN v[d] ELSE call[h].snap[d]]
          IN claims' = [d \in ClaimIds |->
                             IF HasRow(d) /\ d \in Kept(h) \cup ids
                             THEN status[d] ELSE claims[d]]
  BY DEF Update
<1>2. ids \subseteq call[h].affected \cup UnsavedIds /\ c \notin UnsavedIds
  BY CheckedFacts, GroundingAssumption DEF IInv, GroundingAssumption
<1>3. CASE c \in ids
  BY <1>2, <1>3
<1>4. CASE c \notin ids
  <2>1. c \in Kept(h) /\ claims'[c] = call[h].snap[c]
    BY <1>1, <1>4
  <2> QED
    BY <2>1 DEF Kept, Found
<1> QED
  BY <1>3, <1>4

(* Every step keeps the trail complete.                                    *)
LEMMA TrailStep == IInv /\ TypeOK' /\ TrailInv /\ [Next]_vars => TrailInv'
<1> SUFFICES ASSUME IInv, TypeOK', TrailInv, [Next]_vars, NEW c \in ClaimIds
             PROVE  /\ claims'[c] # original'[c] => Accounted(c)'
                    /\ \A g \in Handlers : /\ pc'[g] = "update" /\ call'[g].snap[c] # "none"
                                           /\ call'[g].snap[c] # original'[c]
                                           => Accounted(c)'
  BY DEF TrailInv, ChangedIsAccounted
<1>0. TypeOK /\ (Accounted(c) => Accounted(c)') /\ (claims[c] # original[c] => Accounted(c))
  BY AccountKept DEF IInv, TrailInv, ChangedIsAccounted
<1>1. ASSUME NEW h \in Handlers, Store(h), ReportOf(c) = call[h].n
      PROVE  claims'[c] = original'[c] /\ \A g \in Handlers : pc'[g] = "update" => call'[g].snap[c] = "none"
  <2>1. claims'[c] = original'[c] /\ call' = call
    BY <1>1 DEF Store
  <2>2. call[h].n \notin Stored
    BY <1>1, StoreFacts
  <2>3. ASSUME NEW g \in Handlers, pc'[g] = "update" PROVE call[g].snap[c] = "none"
    <3>1. pc[g] = "update"
      BY <1>0, <1>1, <2>3 DEF Store, Return, TypeOK
    <3>2. call[g].report \in Stored /\ (call[g].snap[c] # "none" => ReportOf(c) = call[g].report)
      BY <3>1 DEF IInv, CallsInv, CallInv, Fetched, RowsOf
    <3> QED
      BY <1>1, <2>2, <3>2
  <2> QED
    BY <2>1, <2>3
<1>2. CASE original'[c] = original[c]
  <2>1. claims'[c] # original'[c] => Accounted(c)'
    <3>1. CASE claims'[c] = claims[c]
      BY <1>0, <1>2, <3>1
    <3>2. ASSUME NEW h \in Handlers, Update(h), claims'[c] # claims[c], claims'[c] # original'[c]
          PROVE  Accounted(c)'
      <4>1. pc[h] = "update" /\ pc'[h] = "resolve" /\ call' = call
        BY <1>0, <3>2 DEF Update, Suspend, TypeOK
      <4>2. CASE c \in call[h].affected
        <5>1. call[h].left = call[h].affected
          BY <4>1 DEF IInv, CallsInv, CallInv, Audited
        <5> QED
          BY <4>1, <4>2, <5>1 DEF Accounted
      <4>3. CASE call[h].snap[c] # "none" /\ claims'[c] = call[h].snap[c]
        BY <1>0, <1>2, <3>2, <4>1, <4>3 DEF TrailInv
      <4> QED
        BY <3>2, <4>2, <4>3, UpdateWritesBack
    <3>3. ASSUME NEW h \in Handlers, Store(h), claims'[c] # claims[c] PROVE claims'[c] = original'[c]
      <4>1. ReportOf(c) = call[h].n
        BY <3>3, StoreFacts
      <4> QED
        BY <1>1, <3>3, <4>1
    <3>4. claims'[c] # claims[c] => \E h \in Handlers : Store(h) \/ Update(h)
      BY DEF Next, Step, Begin, Select, Fetch, Resolve, Confirm, Abort, vars
    <3> QED
      BY <3>1, <3>2, <3>3, <3>4
  <2>2. ASSUME NEW g \in Handlers, pc'[g] = "update", call'[g].snap[c] # "none", call'[g].snap[c] # original'[c]
        PROVE  Accounted(c)'
    <3>1. CASE pc[g] = "update" /\ call'[g] = call[g]
      BY <1>0, <1>2, <2>2, <3>1 DEF TrailInv
    <3>2. CASE Fetch(g)
      <4>1. call'[g].snap[c] = claims[c]
        <5>1. PICK n \in ReportIds : call' = [call EXCEPT ![g].report = n,
                                     ![g].snap = [d \in ClaimIds |->
                                         IF ReportOf(d) = n THEN claims[d] ELSE "none"]]
          BY <1>0, <2>2, <3>2 DEF Fetch, Return, TypeOK
        <5>2. call'[g].snap[c] = IF ReportOf(c) = n THEN claims[c] ELSE "none"
          BY <1>0, <5>1, FetchedCall
        <5> QED
          BY <2>2, <5>2
      <4> QED
        BY <1>0, <1>2, <2>2, <4>1
    <3>3. (pc[g] = "update" /\ call'[g] = call[g]) \/ Fetch(g)
      <4>1. CASE UNCHANGED vars
        BY <2>2, <4>1 DEF vars
      <4>2. CASE Next
        <5>1. PICK h \in Handlers :
                 /\ Begin(h) \/ Step(h) \/ Abort(h)
                 /\ \A f \in Handlers \ {h} : pc'[f] = pc[f] /\ call'[f] = call[f]
          BY <4>2, Mover
        <5>2. CASE g # h
          BY <2>2, <5>1, <5>2
        <5>3. CASE g = h
          BY <1>0, <2>2, <5>1, <5>3 DEF TypeOK, Step, Begin, Store, Select, Fetch, Update, Resolve,
                                        Confirm, Abort, Return, Suspend
        <5> QED
          BY <5>2, <5>3
      <4> QED
        BY <4>1, <4>2
    <3> QED
      BY <3>1, <3>2, <3>3
  <2> QED
    BY <2>1, <2>2
<1>3. CASE original'[c] # original[c]
  <2>1. PICK h \in Handlers : Store(h)
    BY <1>3 DEF Next, Step, Begin, Select, Fetch, Update, Resolve, Confirm, Abort, vars
  <2>2. ReportOf(c) = call[h].n
    BY <1>0, <1>3, <2>1 DEF Store, TypeOK
  <2> QED
    BY <1>1, <2>1, <2>2
<1> QED
  BY <1>2, <1>3

(* For any calls, paths and failures, a claim row that is not what it was  *)
(* stored as is accounted for: nothing changes it but a resolution, and a  *)
(* resolution is on record or known to have failed before its record.      *)
THEOREM Trail == Spec => []ChangedIsAccounted
<1>1. Init => TrailInv
  BY DEF Init, TrailInv, ChangedIsAccounted
<1>2. IInv /\ IInv' /\ TrailInv /\ [Next]_vars => TrailInv'
  BY TrailStep DEF IInv
<1>3. TrailInv => ChangedIsAccounted
  BY DEF TrailInv
<1> QED
  BY <1>1, <1>2, <1>3, Inductive, PTL DEF Spec

-----------------------------------------------------------------------------
(* The audit trail.                                                        *)
LEMMA AuditStep ==
    ASSUME IInv, [Next]_vars, ResolvedIsAudited
    PROVE  ResolvedIsAudited'
<1> DEFINE Recorded(r, c, path) ==
              [report |-> r, claim |-> c, path |-> path] \in resolutions'
<1> SUFFICES ASSUME NEW g \in Handlers, result'[g] = "done", call'[g].report # 0,
                    NEW c \in call'[g].affected
             PROVE  /\ Recorded(call'[g].report, c, "manual_edit")
                    /\ call'[g].path = "confirm_and_add" =>
                          Recorded(call'[g].report, c, "confirm_and_add")
  BY DEF ResolvedIsAudited
<1>0. TypeOK /\ CallInv(g)
  BY DEF IInv, CallsInv
<1>1. CASE result'[g] = result[g] /\ call'[g] = call[g]
  BY <1>1, Growth DEF ResolvedIsAudited
<1>2. CASE Begin(g) \/ Fetch(g) \/ Update(g) \/ Abort(g)
  BY <1>0, <1>2 DEF TypeOK, Begin, Fetch, Update, Abort, Return, Suspend
<1>3. CASE Store(g) \/ Select(g)
  BY <1>0, <1>3 DEF Store, Select, CallInv
<1>4. CASE Resolve(g)
  <2>1. result'[g] = "done" => \E d \in call[g].left :
           /\ resolutions' = resolutions \cup
                 {[report |-> call[g].report, claim |-> d, path |-> "manual_edit"]}
           /\ call' = [call EXCEPT ![g].left = @ \ {d}]
           /\ call[g].left = {d}
           /\ call[g].path # "confirm_and_add"
    BY <1>0, <1>4 DEF TypeOK, Resolve, Return, Suspend
  <2>2. PICK d \in call[g].left :
           /\ resolutions' = resolutions \cup
                 {[report |-> call[g].report, claim |-> d, path |-> "manual_edit"]}
           /\ call' = [call EXCEPT ![g].left = @ \ {d}]
           /\ call[g].left = {d}
           /\ call[g].path # "confirm_and_add"
    BY <2>1
  <2>3. /\ call'[g].report = call[g].report /\ call'[g].path = call[g].path
        /\ call'[g].affected = call[g].affected
    BY <1>0, <2>2 DEF TypeOK, Calls
  <2>4. QED
    BY <1>0, <1>4, <2>2, <2>3 DEF CallInv, Audited, Resolve
<1>5. CASE Confirm(g)
  BY <1>0, <1>5 DEF CallInv, Audited, Confirm
<1>6. QED
  <2>1. CASE Next
    BY <1>1, <1>2, <1>3, <1>4, <1>5, <2>1, Mover DEF Step
  <2>2. CASE UNCHANGED vars
    BY <1>1, <2>2 DEF vars
  <2>3. QED
    BY <2>1, <2>2

(* A resolution that returned normally is on record for every claim that   *)
(* it affected, whichever calls ran beside it.                             *)
THEOREM Audit == Spec => []ResolvedIsAudited
<1>1. Init => ResolvedIsAudited
  BY DEF Init, ResolvedIsAudited
<1>2. IInv /\ ResolvedIsAudited /\ [Next]_vars => ResolvedIsAudited'
  BY AuditStep
<1>3. QED
  BY <1>1, <1>2, Inductive, PTL DEF Spec

-----------------------------------------------------------------------------
\* The pipeline and the grounding of its materials together.

(* A nonempty set of numbers up to N has a largest element.                *)
LEMMA Maximum ==
    ASSUME NEW N \in Nat, NEW S \in SUBSET (1 .. N), S # {}
    PROVE  \E m \in S : \A n \in S : n <= m
<1> DEFINE T == {k \in Nat : \E n \in S : k = N - n}
           R == {ss \in Nat \X Nat : ss[1] < ss[2]}
<1>1. IsWellFoundedOn(R, Nat)
  BY NatLessThanWellFounded DEF OpToRel
<1>2. \A n \in S : n \in Nat /\ N - n \in T
  OBVIOUS
<1>0. T \subseteq Nat /\ T # {}
  BY <1>2
<1>3. PICK k \in T : \A l \in T : ~ (<<l, k>> \in R)
  BY <1>0, <1>1, WFMin
<1>4. ASSUME NEW l \in T PROVE k <= l
  <2>1. ~ (<<l, k>> \in R) /\ <<l, k>> \in Nat \X Nat
    BY <1>3
  <2>2. ~ (l < k)
    BY <2>1
  <2> QED
    BY <2>2
<1>5. PICK m \in S : k = N - m
  OBVIOUS
<1> QED
  BY <1>2, <1>4, <1>5

(* The record has the status of its newest report.                         *)
LEMMA NewestReport ==
    ASSUME Stored # {}
    PROVE  \E n \in ReportIds : IsNewest(n) /\ RecordStatus = reports[n].status
<1>1. MaxCalls \in Nat /\ Stored \in SUBSET (1 .. MaxCalls)
  BY GroundingAssumption DEF GroundingAssumption, Stored, ReportIds
<1>2. \E n \in Stored : IsNewest(n)
  BY <1>1, Maximum DEF IsNewest
<1> DEFINE n == CHOOSE k \in Stored : IsNewest(k)
<1>3. n \in Stored /\ IsNewest(n)
  BY <1>2
<1>4. RecordStatus = reports[n].status
  BY <1>3 DEF RecordStatus
<1> QED
  BY <1>3, <1>4 DEF Stored

(* The verifier keeps its invariant beside the manager.                    *)
LEMMA GatedInductive == GatedSpec => []IInv
<1>1. GatedInit => IInv
  BY InitInv DEF GatedInit
<1>2. [GatedNext]_gatedVars => [Next]_vars
  BY DEF GatedNext, Verifies, Moves, gatedVars, vars
<1>3. IInv /\ [Next]_vars => IInv'
  BY TypeStep, CallsStep, UnusedStep, StatusStep DEF IInv
<1> QED
  BY <1>1, <1>2, <1>3, PTL DEF GatedSpec

(* What the verifier does to the status of the record is nothing, or what  *)
(* Pipeline expects: a report appears or another status does.              *)
LEMMA VerifierStep ==
    ASSUME IInv, IInv', Verifies
    PROVE  Manager!ReportChanges(Record) \/ UNCHANGED Manager!vars
<1>1. UNCHANGED managerVars
  BY DEF Verifies
<1>2. CASE RecordStatus' = RecordStatus
  BY <1>1, <1>2 DEF managerVars, Manager!vars
<1>3. CASE RecordStatus' # RecordStatus
  <2>1. Stored' # {}
    <3> SUFFICES ASSUME Stored' = {} PROVE FALSE
      OBVIOUS
    <3>1. Stored = {}
      BY RowsFixed DEF Verifies
    <3> QED
      BY <1>3, <3>1 DEF RecordStatus
  <2>2. RecordStatus' \in MaterialGroundingStatus
    <3> DEFINE n == CHOOSE k \in Stored' : IsNewest(k)'
    <3>1. Stored' \in SUBSET (1 .. MaxCalls) /\ MaxCalls \in Nat
      BY GroundingAssumption DEF GroundingAssumption, Stored, ReportIds
    <3>2. \E k \in Stored' : IsNewest(k)'
      BY <2>1, <3>1, Maximum DEF IsNewest
    <3>3. n \in Stored'
      BY <3>2
    <3>4. reports'[n] \in Report
      BY <3>3 DEF IInv, TypeOK, Stored
    <3>5. RecordStatus' = reports'[n].status
      BY <2>1 DEF RecordStatus
    <3> HIDE DEF n
    <3> QED
      BY <3>4, <3>5 DEF Report
  <2>3. RecordStatus' \in Manager!ReportStatus \ {RecordStatus}
    BY <1>3, <2>2 DEF MaterialGroundingStatus, Manager!ReportStatus
  <2>4. Manager!ReportChanges(Record)
    BY <1>1, <2>3 DEF managerVars, Manager!ReportChanges
  <2> QED
    BY <2>4
<1> QED
  BY <1>2, <1>3

(* The verifier and the manager together implement Pipeline, so that what  *)
(* is shown of Pipeline with any sequence of statuses holds of the code of *)
(* both.                                                                   *)
THEOREM GatedImplementsPipeline == GatedSpec => ImplementsPipeline
<1>1. GatedInit => Manager!Init
  BY DEF GatedInit
<1>2. IInv /\ IInv' /\ [GatedNext]_gatedVars => [Manager!Next]_(Manager!vars)
  <2> SUFFICES ASSUME IInv, IInv', [GatedNext]_gatedVars PROVE [Manager!Next]_(Manager!vars)
    OBVIOUS
  <2>1. CASE Verifies
    BY <2>1, VerifierStep DEF Manager!Next
  <2>2. ASSUME NEW m \in Movers, Moves(m) PROVE Manager!Next
    BY <2>2 DEF Moves, Manager!Next
  <2>3. CASE UNCHANGED gatedVars
    <3>1. UNCHANGED <<reports, row, at, move, outcome, board, alerts, jobs, moves, past, unseen>>
      BY <2>3 DEF gatedVars, vars, managerVars
    <3>2. RecordStatus' = RecordStatus
      BY <3>1 DEF RecordStatus, Stored, IsNewest
    <3> QED
      BY <3>1, <3>2 DEF Manager!vars
  <2> QED
    BY <2>1, <2>2, <2>3 DEF GatedNext
<1> QED
  BY <1>1, <1>2, GatedInductive, PTL DEF GatedSpec, ImplementsPipeline, Manager!Spec

-----------------------------------------------------------------------------
\* A gated write and the claims.

Shape(m) == move[m] = [op |-> move[m].op, rec |-> move[m].rec, target |-> move[m].target, snap |-> move[m].snap]

(* The manager asks about the record only.                                 *)
AsksOfRecord(m) == at[m] \in {"gate", "write"} => move[m].rec = Record

(* What the gate admitted is not blocked until the report changes.         *)
Admitted(m) ==
    Passed(m) /\ m \notin outdated => Stored # {} /\ RecordStatus # "grounding_blocked"

GateInv ==
    /\ DOMAIN at = Movers /\ DOMAIN move = Movers
    /\ outdated \subseteq Movers
    /\ \A m \in Movers : Shape(m) /\ AsksOfRecord(m) /\ Admitted(m)

(* No call has asked the gate.                                             *)
LEMMA GateInitially == GatedInit => GateInv
BY DEF GatedInit, GateInv, Manager!Init, Manager!NoCall, Shape, AsksOfRecord, Admitted, Passed

(* Where a step leaves another call and the report alone, that call keeps  *)
(* what it knows.                                                          *)
LEMMA OthersKeep ==
    ASSUME GateInv, UNCHANGED vars, NEW m \in Movers, at'[m] = at[m], move'[m] = move[m],
           m \in outdated' <=> m \in outdated
    PROVE  (Shape(m) /\ AsksOfRecord(m) /\ Admitted(m))'
<1>1. Stored' = Stored /\ RecordStatus' = RecordStatus
  BY DEF vars, Stored, RecordStatus, IsNewest
<1> QED
  BY <1>1 DEF GateInv, Shape, AsksOfRecord, Admitted, Passed

(* A step of a call keeps what all calls know: it asks the gate of the     *)
(* record, and the gate answers by its newest report.                      *)
LEMMA MoveKeeps ==
    ASSUME GateInv, NEW m \in Movers, Moves(m)
    PROVE  GateInv'
<1>0. /\ UNCHANGED vars
      /\ outdated' \subseteq Movers
      /\ \A q \in Movers \ {m} : q \in outdated' <=> q \in outdated
      /\ Stored' = Stored /\ RecordStatus' = RecordStatus
  BY DEF Moves, GateInv, vars, Stored, RecordStatus, IsNewest
<1>1. /\ DOMAIN at' = Movers /\ DOMAIN move' = Movers
      /\ \A q \in Movers \ {m} : at'[q] = at[q] /\ move'[q] = move[q]
      /\ Shape(m)'
  <2>1. CASE Manager!Begin(m)
    BY <2>1 DEF GateInv, Manager!Begin, Manager!Suspend, Manager!Return, Shape
  <2>2. CASE Manager!Read(m)
    BY <2>2 DEF GateInv, Manager!Read, Manager!Suspend, Manager!Return, Shape
  <2>3. CASE Manager!Gate(m) \/ Manager!Write(m) \/ Manager!Publish(m) \/ Manager!Dispatch(m)
             \/ Manager!Notify(m) \/ Manager!Abort(m)
    BY <2>3 DEF GateInv, Manager!Gate, Manager!Write, Manager!Publish, Manager!Dispatch, Manager!Notify,
                Manager!Abort, Manager!Suspend, Manager!Return, Shape
  <2> QED
    BY <2>1, <2>2, <2>3 DEF Moves, Manager!Step
<1>2. AsksOfRecord(m)' /\ Admitted(m)'
  <2>1. CASE Manager!Begin(m)
    <3>1. at'[m] \notin {"gate", "write"}
      BY <2>1 DEF GateInv, Manager!Begin, Manager!Suspend, Manager!Return
    <3> QED
      BY <3>1 DEF AsksOfRecord, Admitted, Passed
  <2>2. CASE Manager!Read(m)
    <3>1. at'[m] # "write"
      BY <2>2 DEF GateInv, Manager!Read, Manager!Suspend, Manager!Return
    <3>2. at'[m] = "gate" => move'[m].rec = Record
      BY <2>2 DEF GateInv, Manager!Read, Manager!Suspend, Manager!Return, Shape
    <3> QED
      BY <3>1, <3>2 DEF AsksOfRecord, Admitted, Passed
  <2>3. CASE Manager!Gate(m)
    <3>1. move'[m] = move[m] /\ at[m] = "gate" /\ move[m].rec = Record
      BY <2>3 DEF GateInv, Manager!Gate, AsksOfRecord
    <3>2. at'[m] = "write" /\ move[m].target \in Manager!GATED_STATES =>
            RecordStatus \notin {"none", "grounding_blocked"}
      BY <2>3, <3>1 DEF GateInv, Manager!Gate, Manager!CanTransition, Manager!Suspend, Manager!Return
    <3>3. RecordStatus # "none" => Stored # {}
      BY DEF RecordStatus
    <3> QED
      BY <1>0, <3>1, <3>2, <3>3 DEF AsksOfRecord, Admitted, Passed
  <2>4. CASE Manager!Write(m) \/ Manager!Publish(m) \/ Manager!Dispatch(m) \/ Manager!Notify(m)
             \/ Manager!Abort(m)
    <3>1. at'[m] \notin {"gate", "write"}
      BY <2>4 DEF GateInv, Manager!Write, Manager!Publish, Manager!Dispatch, Manager!Notify,
                  Manager!Abort, Manager!Suspend, Manager!Return
    <3> QED
      BY <3>1 DEF AsksOfRecord, Admitted, Passed
  <2> QED
    BY <2>1, <2>2, <2>3, <2>4 DEF Moves, Manager!Step
<1>3. ASSUME NEW q \in Movers \ {m} PROVE (Shape(q) /\ AsksOfRecord(q) /\ Admitted(q))'
  BY <1>0, <1>1, OthersKeep
<1> QED
  BY <1>0, <1>1, <1>2, <1>3 DEF GateInv

(* A step of the verifier that changes a report outdates every answer.     *)
LEMMA VerifierKeeps ==
    ASSUME GateInv, Verifies
    PROVE  GateInv'
<1>1. at' = at /\ move' = move /\ outdated' \subseteq Movers
  BY DEF Verifies, managerVars, GateInv
<1>2. ASSUME NEW m \in Movers PROVE (Shape(m) /\ AsksOfRecord(m) /\ Admitted(m))'
  <2>1. CASE reports' = reports
    <3>1. Stored' = Stored /\ RecordStatus' = RecordStatus /\ outdated' = outdated
      BY <2>1 DEF Verifies, Stored, RecordStatus, IsNewest
    <3> QED
      BY <1>1, <3>1 DEF GateInv, Shape, AsksOfRecord, Admitted, Passed
  <2>2. CASE reports' # reports
    <3>1. m \in outdated'
      BY <2>2 DEF Verifies
    <3> QED
      BY <1>1, <3>1 DEF GateInv, Shape, AsksOfRecord, Admitted
  <2> QED
    BY <2>1, <2>2
<1> QED
  BY <1>1, <1>2 DEF GateInv

(* The answers of the gate stand in every reachable state.                 *)
LEMMA GateInductive == GatedSpec => []GateInv
<1>1. GateInv /\ [GatedNext]_gatedVars => GateInv'
  <2> SUFFICES ASSUME GateInv, [GatedNext]_gatedVars PROVE GateInv'
    OBVIOUS
  <2>1. CASE UNCHANGED gatedVars
    <3>1. UNCHANGED vars /\ at' = at /\ move' = move /\ outdated' = outdated
      BY <2>1 DEF gatedVars, managerVars
    <3>2. \A m \in Movers : (Shape(m) /\ AsksOfRecord(m) /\ Admitted(m))'
      BY <3>1, OthersKeep
    <3> QED
      BY <3>1, <3>2 DEF GateInv
  <2> QED
    BY <2>1, MoveKeeps, VerifierKeeps DEF GatedNext
<1> QED
  BY <1>1, GateInitially, PTL DEF GatedSpec

(* The tables stay counted beside the manager.                             *)
LEMMA GatedCounts == GatedSpec => []CountsMatchRows
<1>1. GatedInit => CountsMatchRows
  BY DEF GatedInit, Init, CountsMatchRows, Stored
<1>2. [GatedNext]_gatedVars => [Next]_vars
  BY DEF GatedNext, Verifies, Moves, gatedVars, vars
<1>3. IInv /\ CountsMatchRows /\ [Next]_vars => CountsMatchRows'
  BY CountsStep
<1> QED
  BY <1>1, <1>2, <1>3, GatedInductive, PTL DEF GatedSpec

(* Who has passed the gate of late has a newest report without an          *)
(* ungrounded row, if no edit has recounted it.                            *)
LEMMA AdmittedIsGrounded ==
    ASSUME IInv, GateInv, CountsMatchRows, NEW m \in Movers, Passed(m), m \notin outdated
    PROVE  \E n \in ReportIds : IsNewest(n) /\ (n \in edited \/ Ungrounded(n) = {})
<1>1. Stored # {} /\ RecordStatus # "grounding_blocked"
  BY DEF GateInv, Admitted
<1>2. PICK n \in ReportIds : IsNewest(n) /\ RecordStatus = reports[n].status
  BY <1>1, NewestReport
<1>3. n \notin edited => (reports[n].status = "grounding_blocked" <=> Ungrounded(n) # {})
  BY <1>2, BlockedByRows DEF BlockedIffUngrounded, IsNewest
<1> QED
  BY <1>1, <1>2, <1>3

(* What the verifier counted, the gate read and the tables say is one at a *)
(* gated write, unless a report has changed since the gate or an edit has  *)
(* recounted the newest.                                                   *)
THEOREM GatedWrites == GatedSpec => []GatedWriteIsGrounded
<1>1. IInv /\ GateInv /\ CountsMatchRows => GatedWriteIsGrounded
  BY AdmittedIsGrounded DEF GatedWriteIsGrounded
<1> QED
  BY <1>1, GatedInductive, GateInductive, GatedCounts, PTL

=============================================================================

----------------------------- MODULE Grounding -----------------------------
(***************************************************************************)
(* Claim grounding of one record: GroundingVerifier                        *)
(* (app/core/grounding_verifier.py) verifying its materials, a CV or a     *)
(* letter, and verifying single claims again when a user resolves them     *)
(* through POST /grounding/resolve, over the tables that                   *)
(* GroundingRepository keeps (grounding_reports, grounding_claims,         *)
(* grounding_resolutions).                                                 *)
(*                                                                         *)
(* Each repository call is one transaction and one action; between two of  *)
(* them other calls run.  What the claims say is left out: an extraction   *)
(* yields some claims and a verification finds any status for each.        *)
(***************************************************************************)
EXTENDS Naturals, FiniteSets

CONSTANTS
    Handlers,    \* calls that may be in progress at once
    Paths,       \* the entry points that are called
    Verdicts,    \* the statuses a verification can find
    MaterialOf,  \* the material that each call is about, by its number
    MaxClaims,   \* bound on the claims of a stored report
    UnsavedIds,  \* ids of claims that are never given a row
    Faults,      \* whether awaits may fail, time out or never return
    MaxCalls     \* bound on the calls of a behaviour

VARIABLES
    reports,     \* grounding_reports: status and counts
    claims,      \* grounding_claims: grounding_status, or "none" without a row
    resolutions, \* grounding_resolutions
    issued,      \* ids of unsaved claims that a result has listed
    pc,          \* the await each call is suspended at
    call,        \* arguments and locals of each call
    result,      \* what the handler's last call returned
    calls,       \* calls made so far
    edited,      \* history: reports that an edited or regenerated text has recounted
    original,    \* history: grounding_status that a claim row was stored with
    unrecorded   \* history: claims that a failed resolution had still to record

vars == <<reports, claims, resolutions, issued, pc, call, result, calls, edited, original, unrecorded>>

AllPaths == {"verify", "regenerate", "manual_edit", "confirm_and_add"}
GroundingStatus == {"grounded", "partially_grounded", "ungrounded"}
MaterialGroundingStatus ==
    {"grounding_verified", "grounding_blocked", "grounding_unverified"}

(* A report's id is the number of the call that made it, which is also its *)
(* created_at: the call takes the time before it extracts.  A claim row    *)
(* never changes its report.                                               *)
ReportIds == 1 .. MaxCalls
ClaimIds == ReportIds \X (1 .. MaxClaims)
ReportOf(c) == c[1]

Report == [status : MaterialGroundingStatus, count : [GroundingStatus -> Nat]]
NoReport == [status |-> "none", count |-> [s \in GroundingStatus |-> 0]]

Calls ==
    [n : Nat, path : AllPaths, affected : SUBSET (ClaimIds \cup UnsavedIds),
     report : ReportIds \cup {0}, snap : [ClaimIds -> GroundingStatus \cup {"none"}],
     left : SUBSET (ClaimIds \cup UnsavedIds)]

Awaits == {"store", "select", "fetch", "update", "resolve", "confirm"}
CallResults == {"none", "done", "not_found", "failed"}

GroundingAssumption ==
    /\ Paths \subseteq AllPaths
    /\ Verdicts \subseteq GroundingStatus
    /\ DOMAIN MaterialOf = ReportIds
    /\ MaxClaims \in Nat
    /\ IsFiniteSet(UnsavedIds) /\ UnsavedIds \cap ClaimIds = {}
    /\ Faults \in BOOLEAN
    /\ MaxCalls \in Nat
ASSUME GroundingAssumption

NoClaims == [c \in ClaimIds |-> "none"]
NewCall(n, path, affected) ==
    [n |-> n, path |-> path, affected |-> affected, report |-> 0,
     snap |-> NoClaims, left |-> affected]

Init ==
    /\ reports = [n \in ReportIds |-> NoReport]
    /\ claims = NoClaims
    /\ resolutions = {}
    /\ issued = {}
    /\ pc = [h \in Handlers |-> "idle"]
    /\ call = [h \in Handlers |-> NewCall(0, "verify", {})]
    /\ result = [h \in Handlers |-> "none"]
    /\ calls = 0
    /\ edited = {}
    /\ original = NoClaims
    /\ unrecorded = {}

-----------------------------------------------------------------------------
Stored == {n \in ReportIds : reports[n] # NoReport}
HasRow(c) == c \in ClaimIds /\ claims[c] # "none"

(* get_latest_grounding_report_by_material: ORDER BY created_at DESC.  The *)
(* call h looks for a report of its material.                              *)
OfMaterial(h) == {n \in Stored : MaterialOf[n] = MaterialOf[call[h].n]}
IsLatest(n, h) == n \in OfMaterial(h) /\ \A m \in OfMaterial(h) : m <= n

(* The counts over a set of ids with these statuses, and the status that   *)
(* verify_material and re_verify_claims derive from them.                  *)
Counts(ids, status) ==
    [s \in GroundingStatus |-> Cardinality({c \in ids : status[c] = s})]

NewReport(ids, status) ==
    LET count == Counts(ids, status)
    IN [status |-> IF count["ungrounded"] > 0 THEN "grounding_blocked"
                                              ELSE "grounding_verified",
        count  |-> count]

Return(h, res) ==
    /\ pc' = [pc EXCEPT ![h] = "idle"]
    /\ result' = [result EXCEPT ![h] = res]

Suspend(h, await) ==
    /\ pc' = [pc EXCEPT ![h] = await]
    /\ result' = [result EXCEPT ![h] = "none"]

(* A client knows the ids of saved claims, of any report and material, and *)
(* those of unsaved claims that a result listed.  confirm_and_add takes    *)
(* one id, the other paths at least one.                                   *)
Choices(path) ==
    LET known == {c \in ClaimIds : HasRow(c)} \cup issued
    IN CASE path = "verify"          -> {{}}
         [] path = "confirm_and_add" -> {{c} : c \in known}
         [] OTHER                    -> (SUBSET known) \ {{}}

Begin(h) ==
    /\ pc[h] = "idle"
    /\ calls < MaxCalls
    /\ calls' = calls + 1
    /\ \E path \in Paths :
          /\ \E affected \in Choices(path) :
                call' = [call EXCEPT ![h] = NewCall(calls + 1, path, affected)]
          /\ Suspend(h, CASE path = "verify"     -> "store"
                          [] path = "regenerate" -> "select"
                          [] OTHER               -> "fetch")
    /\ UNCHANGED <<reports, claims, resolutions, issued, edited, original, unrecorded>>

(* verify_material: extract, verify, store the report and its claims in    *)
(* one transaction.  When every extraction attempt failed the report is    *)
(* stored unverified and without claims.                                   *)
Store(h) ==
    /\ pc[h] = "store"
    /\ LET n == call[h].n
       IN \/ /\ \E k \in 0 .. MaxClaims :
                   LET ids == {n} \X (1 .. k)
                   IN \E verdict \in [ids -> Verdicts] :
                         /\ reports' = [reports EXCEPT ![n] = NewReport(ids, verdict)]
                         /\ claims' = [c \in ClaimIds |->
                                         IF c \in ids THEN verdict[c] ELSE claims[c]]
          \/ /\ reports' = [reports EXCEPT ![n] =
                              [NoReport EXCEPT !.status = "grounding_unverified"]]
             /\ claims' = claims
    /\ original' = [c \in ClaimIds |-> IF ReportOf(c) = call[h].n THEN claims'[c] ELSE original[c]]
    /\ Return(h, "done")
    /\ UNCHANGED <<resolutions, issued, call, calls, edited, unrecorded>>

(* resolve_regenerate's own look at the report, before the passages are    *)
(* regenerated: nothing to do when it has none of the claims.              *)
Select(h) ==
    /\ pc[h] = "select"
    /\ \/ /\ OfMaterial(h) = {}
          /\ Return(h, "not_found")
       \/ \E n \in ReportIds :
             /\ IsLatest(n, h)
             /\ \/ /\ \A c \in call[h].affected : HasRow(c) => ReportOf(c) # n
                   /\ Return(h, "done")
                \/ /\ \E c \in call[h].affected : HasRow(c) /\ ReportOf(c) = n
                   /\ Suspend(h, "fetch")
    /\ UNCHANGED <<reports, claims, resolutions, issued, call, calls, edited, original, unrecorded>>

(* re_verify_claims, step 1: the latest report and its claims.             *)
Fetch(h) ==
    /\ pc[h] = "fetch"
    /\ \/ /\ OfMaterial(h) = {}
          /\ Return(h, "not_found")
          /\ UNCHANGED call
       \/ \E n \in ReportIds :
             /\ IsLatest(n, h)
             /\ call' = [call EXCEPT ![h].report = n,
                                     ![h].snap = [c \in ClaimIds |->
                                         IF ReportOf(c) = n THEN claims[c] ELSE "none"]]
             /\ Suspend(h, "update")
    /\ UNCHANGED <<reports, claims, resolutions, issued, calls, edited, original, unrecorded>>

(* Steps 2-5: the fetched claims outside the resolution are kept as they   *)
(* were read; the ones inside it are verified again.  An edited or         *)
(* regenerated text is extracted first: its claims take the affected ids   *)
(* in the order given, those left over have ids without a row, and if      *)
(* there are none the affected claims of the report are verified after all.*)
Found(h) == {c \in ClaimIds : call[h].snap[c] # "none"}
Kept(h) == Found(h) \ call[h].affected
Mine(h) == Found(h) \cap call[h].affected

Checked(h) ==
    LET affected == call[h].affected
    IN {Mine(h)} \cup
       (IF call[h].path = "confirm_and_add" THEN {}
        ELSE ((SUBSET affected) \ {{}}) \cup
             {affected \cup new : new \in SUBSET (UnsavedIds \ issued)})

(* The reports whose counts an edit may part from their rows: its own, in  *)
(* which claims without a row are counted and claims not found again are   *)
(* not, and those of the other claims it was given, whose rows it writes.  *)
Recounted(h) ==
    {call[h].report} \cup {ReportOf(c) : c \in call[h].affected \cap ClaimIds}

Recount(h) ==
    edited' = IF call[h].path = "confirm_and_add" THEN edited \ {call[h].report}
                                                  ELSE edited \cup Recounted(h)

(* Mutant: the claims that are kept are not counted. *)
UpdateCountingChecked(h) ==
    /\ pc[h] = "update"
    /\ \E ids \in Checked(h) : \E verdict \in [ids -> Verdicts] :
          /\ reports' = [reports EXCEPT ![call[h].report] = NewReport(ids, verdict)]
          /\ claims' = [c \in ClaimIds |->
                          IF HasRow(c) /\ c \in ids THEN verdict[c] ELSE claims[c]]
    /\ Recount(h)
    /\ Suspend(h, "resolve")
    /\ UNCHANGED <<resolutions, issued, call, calls, original, unrecorded>>

(* Mutant: the report is written and the rows of its claims are not.      *)
UpdateReportOnly(h) ==
    /\ pc[h] = "update"
    /\ \E ids \in Checked(h) : \E verdict \in [ids -> Verdicts] :
          /\ reports' = [reports EXCEPT ![call[h].report] =
                NewReport(Kept(h) \cup ids,
                          [c \in Kept(h) \cup ids |->
                              IF c \in ids THEN verdict[c] ELSE call[h].snap[c]])]
          /\ claims' = claims
    /\ Recount(h)
    /\ Suspend(h, "resolve")
    /\ UNCHANGED <<resolutions, issued, call, calls, original, unrecorded>>

(* Mutant: the claims that are kept are verified again as well.            *)
UpdateVerifyingAll(h) ==
    /\ pc[h] = "update"
    /\ \E ids \in Checked(h) : \E verdict \in [Kept(h) \cup ids -> Verdicts] :
          /\ reports' = [reports EXCEPT ![call[h].report] = NewReport(Kept(h) \cup ids, verdict)]
          /\ claims' = [c \in ClaimIds |->
                          IF HasRow(c) /\ c \in Kept(h) \cup ids THEN verdict[c] ELSE claims[c]]
          /\ issued' = issued \cup (ids \cap UnsavedIds)
    /\ Recount(h)
    /\ Suspend(h, "resolve")
    /\ UNCHANGED <<resolutions, call, calls, original, unrecorded>>

(* Steps 6-10: the report is rewritten and so is the row of every claim    *)
(* kept or checked, the kept ones with the status they were fetched with.  *)
(* A claim without a row is only listed in the result.                     *)
Update(h) ==
    /\ pc[h] = "update"
    /\ \E ids \in Checked(h) : \E verdict \in [ids -> Verdicts] :
          LET status == [c \in Kept(h) \cup ids |->
                            IF c \in ids THEN verdict[c] ELSE call[h].snap[c]]
          IN /\ reports' = [reports EXCEPT ![call[h].report] =
                                NewReport(Kept(h) \cup ids, status)]
             /\ claims' = [c \in ClaimIds |->
                             IF HasRow(c) /\ c \in Kept(h) \cup ids
                             THEN status[c] ELSE claims[c]]
          /\ issued' = issued \cup (ids \cap UnsavedIds)
    /\ Recount(h)
    /\ Suspend(h, "resolve")
    /\ UNCHANGED <<resolutions, call, calls, original, unrecorded>>

(* Mutant: the confirmation is recorded and the call returns after the     *)
(* first record of re_verify_claims.                                       *)
ResolveFirst(h) ==
    /\ pc[h] = "resolve"
    /\ \E c \in call[h].left :
          resolutions' = resolutions \cup
              {[report |-> call[h].report, claim |-> c, path |-> "manual_edit"]}
    /\ Return(h, "done")
    /\ UNCHANGED <<reports, claims, issued, call, calls, edited, original, unrecorded>>

Forgets(h) == unrecorded' = unrecorded \cup (call[h].left \cap ClaimIds)

(* Step 11: one resolution record per affected id, each committed on its   *)
(* own, whatever the path; the foreign key on the claim refuses an id      *)
(* without a row, and the call fails after its report has been updated.    *)
Resolve(h) ==
    /\ pc[h] = "resolve"
    /\ \E c \in call[h].left :
          \/ /\ HasRow(c)
             /\ resolutions' = resolutions \cup
                    {[report |-> call[h].report, claim |-> c, path |-> "manual_edit"]}
             /\ call' = [call EXCEPT ![h].left = @ \ {c}]
             /\ \/ call[h].left # {c} /\ Suspend(h, "resolve")
                \/ /\ call[h].left = {c}
                   /\ call[h].path = "confirm_and_add"
                   /\ Suspend(h, "confirm")
                \/ /\ call[h].left = {c}
                   /\ call[h].path # "confirm_and_add"
                   /\ Return(h, "done")
             /\ UNCHANGED unrecorded
          \/ /\ ~HasRow(c)
             /\ Return(h, "failed")
             /\ Forgets(h)
             /\ UNCHANGED <<resolutions, call>>
    /\ UNCHANGED <<reports, claims, issued, calls, edited, original>>

(* resolve_confirm_and_add, step 4: a second record for the claim.  The    *)
(* supporting fact itself goes into no profile asset.                      *)
Confirm(h) ==
    /\ pc[h] = "confirm"
    /\ resolutions' = resolutions \cup
          {[report |-> call[h].report, claim |-> c, path |-> "confirm_and_add"] :
              c \in call[h].affected}
    /\ Return(h, "done")
    /\ UNCHANGED <<reports, claims, issued, call, calls, edited, original, unrecorded>>

Step(h) ==
    Store(h) \/ Select(h) \/ Fetch(h) \/ Update(h) \/ Resolve(h) \/ Confirm(h)

(* Mutant: a re-verification that fails takes its report back.             *)
AbortDroppingReport(h) ==
    /\ Faults
    /\ pc[h] # "idle"
    /\ reports' = [n \in ReportIds |->
                     IF n = call[h].report THEN NoReport ELSE reports[n]]
    /\ Return(h, "failed")
    /\ UNCHANGED <<claims, resolutions, issued, call, calls, edited, original, unrecorded>>

(* An await raises (the model, the database), the 30 second limit of       *)
(* re_verify_claims expires, or the process dies.  Nothing is retried.     *)
Abort(h) ==
    /\ Faults
    /\ pc[h] # "idle"
    /\ Return(h, "failed")
    /\ IF pc[h] = "resolve" THEN Forgets(h) ELSE UNCHANGED unrecorded
    /\ UNCHANGED <<reports, claims, resolutions, issued, call, calls, edited, original>>

Next == \E h \in Handlers : Begin(h) \/ Step(h) \/ Abort(h)

Spec == Init /\ [][Next]_vars

-----------------------------------------------------------------------------
(* Every variable has its type. *)
TypeOK ==
    /\ reports \in [ReportIds -> Report \cup {NoReport}]
    /\ claims \in [ClaimIds -> GroundingStatus \cup {"none"}]
    /\ issued \subseteq UnsavedIds
    /\ resolutions \subseteq [report : ReportIds, claim : ClaimIds, path : AllPaths]
    /\ pc \in [Handlers -> Awaits \cup {"idle"}]
    /\ call \in [Handlers -> Calls]
    /\ result \in [Handlers -> CallResults]
    /\ calls \in 0 .. MaxCalls
    /\ edited \subseteq ReportIds
    /\ original \in [ClaimIds -> GroundingStatus \cup {"none"}]
    /\ unrecorded \subseteq ClaimIds

RowsOf(n) == {c \in ClaimIds : ReportOf(c) = n /\ claims[c] # "none"}

(* The counts of a report, from which its status and the gate's answer     *)
(* follow, are those of its claim rows: a report and its claims are        *)
(* written in one transaction, and concurrent confirmations overwrite one  *)
(* another's results as a whole, never by halves.  Only an edit parts      *)
(* them, and the next confirmation in that report joins them again.        *)
CountsMatchRows ==
    \A n \in Stored \ edited : reports[n].count = Counts(RowsOf(n), claims)

(* Design property 1 seen from the tables: the gate refuses the material   *)
(* exactly when a claim row of its report is ungrounded.                   *)
Ungrounded(n) == {c \in RowsOf(n) : claims[c] = "ungrounded"}
BlockedIffUngrounded ==
    \A n \in Stored \ edited :
        reports[n].status = "grounding_blocked" <=> Ungrounded(n) # {}

(* What the gate reads of a report is what its claim rows say.             *)
ReportMatchesRows == CountsMatchRows /\ BlockedIffUngrounded

Unblocked(n) ==
    reports[n].status = "grounding_blocked" /\ reports'[n].status = "grounding_verified"

(* Whatever the path, a re-verification whose fetched claims are still     *)
(* what the rows say unblocks a report only if every ungrounded claim row  *)
(* is one that it was asked to resolve.                                    *)
FreshUnblockIsSound ==
    [][\A n \in ReportIds : Unblocked(n) =>
          \E h \in Handlers :
             /\ pc[h] = "update" /\ call[h].report = n
             /\ (\A c \in RowsOf(n) : call[h].snap[c] = claims[c])
                    => Ungrounded(n) \subseteq call[h].affected]_vars

(* The trail explains the rows: a claim that is not what it was stored as  *)
(* has a record of a resolution, or a call has still to write one, or a    *)
(* failed call had.  No claim changes that nobody resolved, not by the     *)
(* stale copies either with which overlapping calls write back the claims  *)
(* that they keep.                                                         *)
Accounted(c) ==
    \/ \E r \in resolutions : r.claim = c
    \/ \E h \in Handlers : pc[h] = "resolve" /\ c \in call[h].left
    \/ c \in unrecorded
ChangedIsAccounted == \A c \in ClaimIds : claims[c] # original[c] => Accounted(c)

(* A resolution that returned normally left its audit trail: a record for  *)
(* every claim it affected, and the confirmation if it was one.            *)
ResolvedIsAudited ==
    \A h \in Handlers :
        (result[h] = "done" /\ call[h].report # 0) =>
            \A c \in call[h].affected :
                /\ [report |-> call[h].report, claim |-> c, path |-> "manual_edit"]
                       \in resolutions
                /\ call[h].path = "confirm_and_add" =>
                       [report |-> call[h].report, claim |-> c,
                        path |-> "confirm_and_add"] \in resolutions

-----------------------------------------------------------------------------
(* What the repository states and the code does not do.                    *)

(* Requirement 3.3: a resolution unblocks the material if no ungrounded    *)
(* claims remain.  A confirmation, which leaves the text as it is, would   *)
(* then have to confirm an ungrounded claim to unblock it.                 *)
ConfirmationUnblocksItsClaim ==
    [][\A n \in ReportIds, h \in Handlers :
          /\ Unblocked(n)
          /\ pc[h] = "update" /\ pc'[h] = "resolve"
          /\ call[h].path = "confirm_and_add"
          => call[h].affected \cap Ungrounded(n) # {}]_vars

=============================================================================

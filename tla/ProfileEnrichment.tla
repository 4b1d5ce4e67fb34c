------------------------- MODULE ProfileEnrichment -------------------------
(***************************************************************************)
(* Competency proposals from the public sources of consultants: the scan   *)
(* task (app/workers/profile_enrichment_worker.py) with its deduplicator   *)
(* (app/core/proposal_deduplicator.py), and the requests of app/api/       *)
(* profile_enrichment.py that review proposals (ProposalReviewService) and *)
(* configure sources.                                                      *)
(*                                                                         *)
(* A scan works in one database session for minutes: it sees what others   *)
(* commit statement by statement, holds copies of the sources it loaded,   *)
(* and commits once per consultant.  A request commits once at its end.    *)
(* Row locks only order these commits, so the writes of a session are one  *)
(* action, and a deadlock is an abort.  An accepted proposal is the        *)
(* profile asset: insert_profile_asset stores nothing.                     *)
(*                                                                         *)
(* The language model is taken as configured; _scan_source builds its      *)
(* router without arguments, and as wired every extraction raises.         *)
(***************************************************************************)
EXTENDS Naturals, Sequences, FiniteSets, SequencesExt

CONSTANTS
    Sources,       \* URLs a source can be configured with
    Owner,         \* the consultant who configures each
    Configured,    \* those that are configured at the start
    FailedBefore,  \* failed scans of each before the start
    Candidates,    \* what an extraction can find on a page
    KeyOf,         \* normalized name and category of a candidate
    Alike,         \* pairs of keys whose names are equal or at least 85% similar
    NoSource,      \* no source
    Scans,         \* scan tasks that may run at once
    Requests,      \* requests that may be in progress at once
    Ops,           \* the operations that are requested
    MAX_SOURCES,   \* active sources a consultant may have
    MAX_BULK_SIZE, \* proposals in one bulk request
    THRESHOLD,     \* CONSECUTIVE_FAILURE_THRESHOLD
    Faults,        \* whether sessions may break
    MaxCycles,     \* bound on the scans of a behaviour
    MaxRequests,   \* bound on its requests
    MaxProposals   \* bound on its proposals

VARIABLES
    sources,    \* public_sources
    proposals,  \* competency_proposals, in the order of their commits
    audit,      \* profile_enrichment_audit
    scanned,    \* latest row of enrichment_scan_history, with the sources missed
    notices,    \* source_failure_notice notifications of each source
    misses,     \* history: failed fetches since the last committed success
    contested,  \* history: proposals that two requests found pending at once
    beside,     \* history: pairs of scans of which the second began during the first
    crossed,    \* history: sources that two scans held at once
    scan,       \* arguments and locals of each scan
    req,        \* arguments and locals of each request
    cycles,     \* scans begun
    requests    \* requests begun

overlaps == <<contested, beside, crossed>>
vars ==
    <<sources, proposals, audit, scanned, notices, misses, overlaps, scan, req, cycles, requests>>

Consultants == {Owner[s] : s \in Sources}
Keys == {KeyOf[c] : c \in Candidates}
AllOps == {"accept", "edit", "reject", "add", "remove"}

(* A row of public_sources, whether or not it has been inserted yet.  Only *)
(* is_active is cleared by a removal.                                      *)
Source == [state : {"absent", "active", "removed"}, failures : Nat]

Proposal ==
    [source : Sources, key : Keys, cycle : Nat,
     status : {"pending", "accepted", "rejected"},
     merged : {"none", "evidence", "edited"}]

(* Two scans in the order in which they began.                             *)
Ordered == {x \in Nat \X Nat : x[1] < x[2]}

Found == [source : Sources, cand : Candidates]

Scan ==
    [pc : {"idle", "fetch", "extract", "accepted", "rejected", "pending"},
     cycle : Nat, who : Consultants, todo : SUBSET Sources,
     at : Sources \cup {NoSource},
     loaded : [Sources -> Nat], copy : [Sources -> Nat],
     ok : SUBSET Sources, missed : SUBSET Sources, failed : BOOLEAN,
     page : SUBSET Candidates, names : SUBSET Keys, rejected : SUBSET Keys,
     found : SUBSET Found, settled : SUBSET (Consultants \X Keys)]

Request ==
    [pc : {"idle", "review", "insert"}, op : AllOps, who : Consultants,
     todo : Seq(Nat), done : SUBSET Nat, source : Sources \cup {NoSource}]

EnrichmentAssumption ==
    /\ IsFiniteSet(Sources) /\ Sources # {} /\ NoSource \notin Sources
    /\ Configured \subseteq Sources
    /\ FailedBefore \in [Sources -> Nat]
    /\ \A s \in Sources : FailedBefore[s] > 0 => s \in Configured
    /\ \A c \in Consultants : Cardinality({s \in Configured : Owner[s] = c}) <= MAX_SOURCES
    /\ IsFiniteSet(Candidates)
    /\ Alike \subseteq Keys \X Keys
    /\ \A k \in Keys : <<k, k>> \in Alike
    /\ Ops \subseteq AllOps
    /\ MAX_SOURCES \in Nat /\ MAX_BULK_SIZE \in Nat /\ THRESHOLD \in Nat
    /\ Faults \in BOOLEAN
    /\ MaxCycles \in Nat /\ MaxRequests \in Nat /\ MaxProposals \in Nat
ASSUME EnrichmentAssumption

History == [who : Consultants, missed : SUBSET Sources, status : {"completed", "failed"}]
Nobody == CHOOSE c \in Consultants : TRUE
NoHistory == [who |-> Nobody, missed |-> {}, status |-> "none"]

NoScan ==
    [pc |-> "idle", cycle |-> 0, who |-> Nobody, todo |-> {}, at |-> NoSource,
     loaded |-> [s \in Sources |-> 0], copy |-> [s \in Sources |-> 0],
     ok |-> {}, missed |-> {}, failed |-> FALSE,
     page |-> {}, names |-> {}, rejected |-> {}, found |-> {}, settled |-> {}]

NoRequest ==
    [pc |-> "idle", op |-> "reject", who |-> Nobody, todo |-> <<>>, done |-> {},
     source |-> NoSource]

Init ==
    /\ sources = [s \in Sources |->
                     [state |-> IF s \in Configured THEN "active" ELSE "absent",
                      failures |-> FailedBefore[s]]]
    /\ proposals = <<>>
    /\ audit = {}
    /\ scanned = NoHistory
    /\ notices = [s \in Sources |-> 0]
    /\ misses = FailedBefore
    /\ contested = {} /\ beside = {} /\ crossed = {}
    /\ scan = [w \in Scans |-> NoScan]
    /\ req = [q \in Requests |-> NoRequest]
    /\ cycles = 0
    /\ requests = 0

-----------------------------------------------------------------------------
(* Sources and proposals as a query finds them.                            *)

Active(c) == {s \in Sources : sources[s].state = "active" /\ Owner[s] = c}
OwnerOf(p) == Owner[p.source]
With(c, status) ==
    {proposals[n].key : n \in {m \in DOMAIN proposals :
                                 OwnerOf(proposals[m]) = c /\ proposals[m].status = status}}

-----------------------------------------------------------------------------
(* The scan task.                                                          *)

(* The sources that a scan has a copy of until it commits.                 *)
Held(w) == scan[w].todo \cup scan[w].ok \cup scan[w].missed

(* On demand all active sources of one consultant, on schedule the active  *)
(* ones that are due: any of them, as time is not modelled.  Consultants   *)
(* and their sources follow in some order.                                 *)
Targets == SUBSET {s \in Sources : sources[s].state = "active"}

BeginScan(w) ==
    /\ scan[w].pc = "idle"
    /\ cycles < MaxCycles
    /\ cycles' = cycles + 1
    /\ beside' = beside \cup
          {<<scan[v].cycle, cycles + 1>> : v \in {u \in Scans : scan[u].pc # "idle"}}
    /\ \E todo \in Targets \ {{}} : \E s \in todo :
          /\ scan' = [scan EXCEPT ![w] =
                     [NoScan EXCEPT
                        !.pc = "fetch", !.cycle = cycles + 1, !.todo = todo,
                        !.who = Owner[s],
                        !.loaded = [u \in Sources |->
                                      IF u \in todo THEN sources[u].failures ELSE 0],
                        !.copy = [u \in Sources |->
                                    IF u \in todo THEN sources[u].failures ELSE 0],
                        !.settled = UNION {{c} \X With(c, "rejected") : c \in Consultants}]]
          /\ crossed' = crossed \cup (todo \cap UNION {Held(v) : v \in Scans})
    /\ UNCHANGED <<sources, proposals, audit, scanned, notices, misses, contested, req, requests>>

(* The sources of the current consultant that have not been scanned yet.   *)
Left(w) == {s \in scan[w].todo : Owner[s] = scan[w].who}

(* The end of _scan_source for a source that failed: it is skipped for     *)
(* this cycle.                                                             *)
Skipped(w, s) ==
    [scan[w] EXCEPT !.pc = "fetch", !.at = NoSource, !.page = {},
                    !.names = {}, !.rejected = {},
                    !.todo = @ \ {s}, !.missed = @ \cup {s}, !.failed = TRUE]

(* The end of _scan_source for a source that was read. *)
Read(w, new) ==
    LET s == scan[w].at
    IN [scan[w] EXCEPT !.pc = "fetch", !.at = NoSource, !.page = {},
                       !.names = {}, !.rejected = {},
                       !.todo = @ \ {s}, !.ok = @ \cup {s}, !.copy = [@ EXCEPT ![s] = 0],
                       !.found = @ \cup [source : {s}, cand : new]]

(* Mutant: a fetch that fails is not counted among the failures of the scan. *)
FetchUncounted(w) ==
    /\ scan[w].pc = "fetch"
    /\ \E s \in Left(w) :
          scan' = [scan EXCEPT ![w] = [Skipped(w, s) EXCEPT !.copy[s] = @ + 1,
                                                           !.failed = scan[w].failed]]
    /\ UNCHANGED <<sources, proposals, audit, scanned, notices, misses, overlaps, req, cycles, requests>>

(* The throttle slot and _fetch_with_retries: the page, an error that      *)
(* counts, or an exception that does not.  The notice goes out before the  *)
(* new count is committed.                                                 *)
Fetch(w) ==
    /\ scan[w].pc = "fetch"
    /\ \E s \in Left(w) :
          \/ /\ scan' = [scan EXCEPT ![w] = [@ EXCEPT !.pc = "extract", !.at = s]]
             /\ UNCHANGED <<notices, misses>>
          \/ LET count == scan[w].copy[s] + 1
             IN /\ scan' = [scan EXCEPT ![w] = [Skipped(w, s) EXCEPT !.copy[s] = count]]
                /\ misses' = [misses EXCEPT ![s] = @ + 1]
                /\ notices' = [notices EXCEPT ![s] = IF count = THRESHOLD THEN @ + 1 ELSE @]
          \/ /\ scan' = [scan EXCEPT ![w] = Skipped(w, s)]
             /\ UNCHANGED <<notices, misses>>
    /\ UNCHANGED <<sources, proposals, audit, scanned, overlaps, req, cycles, requests>>

(* Mutant: a page without candidates does not reset the failures. *)
ExtractWithoutReset(w) ==
    /\ scan[w].pc = "extract"
    /\ \/ scan' = [scan EXCEPT ![w] = [Read(w, {}) EXCEPT !.copy = scan[w].copy]]
       \/ \E page \in SUBSET Candidates :
             scan' = [scan EXCEPT ![w] = [@ EXCEPT !.pc = "accepted", !.page = page]]
    /\ UNCHANGED <<sources, proposals, audit, scanned, notices, misses, overlaps, req, cycles, requests>>

Room(w) ==
    MaxProposals - Len(proposals) - Cardinality(UNION {{v} \X scan[v].found : v \in Scans})

(* The model's answer: an exception, which leaves the failures of the      *)
(* source as they are, no candidates, or some.                             *)
Extract(w) ==
    /\ scan[w].pc = "extract"
    /\ \/ scan' = [scan EXCEPT ![w] = Skipped(w, scan[w].at)]
       \/ scan' = [scan EXCEPT ![w] = Read(w, {})]
       \/ \E page \in SUBSET Candidates :
             /\ page # {}
             /\ Cardinality(page) <= Room(w)
             /\ scan' = [scan EXCEPT ![w] = [@ EXCEPT !.pc = "accepted", !.page = page]]
    /\ UNCHANGED <<sources, proposals, audit, scanned, notices, misses, overlaps, req, cycles, requests>>

(* The deduplicator reads accepted, rejected and pending proposals in      *)
(* three statements.                                                       *)
ReadAccepted(w) ==
    /\ scan[w].pc = "accepted"
    /\ scan' = [scan EXCEPT ![w] = [@ EXCEPT !.pc = "rejected",
                                             !.names = With(scan[w].who, "accepted")]]
    /\ UNCHANGED <<sources, proposals, audit, scanned, notices, misses, overlaps, req, cycles, requests>>

ReadRejected(w) ==
    /\ scan[w].pc = "rejected"
    /\ scan' = [scan EXCEPT ![w] = [@ EXCEPT !.pc = "pending",
                                             !.rejected = With(scan[w].who, "rejected")]]
    /\ UNCHANGED <<sources, proposals, audit, scanned, notices, misses, overlaps, req, cycles, requests>>

(* Mutant: rejections are not looked at. *)
KnownUnlessRejected(w, pending, key) ==
    \/ \E name \in scan[w].names : <<name, key>> \in Alike
    \/ key \in pending

(* A candidate is skipped when its name is like that of an accepted item,  *)
(* or when the same item was rejected or is pending.                       *)
Known(w, pending, key) ==
    \/ \E name \in scan[w].names : <<name, key>> \in Alike
    \/ key \in scan[w].rejected
    \/ key \in pending

(* Mutant: the session does not flush before it reads. *)
ReadPendingUnflushed(w) ==
    /\ scan[w].pc = "pending"
    /\ LET pending == With(scan[w].who, "pending")
       IN scan' = [scan EXCEPT ![w] =
                     Read(w, {c \in scan[w].page : ~Known(w, pending, KeyOf[c])})]
    /\ UNCHANGED <<sources, proposals, audit, scanned, notices, misses, overlaps, req, cycles, requests>>

(* The session sees what it has inserted itself.  Two candidates of one    *)
(* page are not compared with each other.                                  *)
ReadPending(w) ==
    /\ scan[w].pc = "pending"
    /\ LET pending == With(scan[w].who, "pending")
                         \cup {KeyOf[f.cand] : f \in scan[w].found}
       IN scan' = [scan EXCEPT ![w] =
                     Read(w, {c \in scan[w].page : ~Known(w, pending, KeyOf[c])})]
    /\ UNCHANGED <<sources, proposals, audit, scanned, notices, misses, overlaps, req, cycles, requests>>

Pending(f, cycle) ==
    [source |-> f.source, key |-> KeyOf[f.cand], cycle |-> cycle,
     status |-> "pending", merged |-> "none"]

(* The commit for one consultant.  The failures of a source are written if *)
(* the scan changed its copy, whatever the row says by now.  The status of *)
(* the scan history counts the failures of all consultants so far.         *)
CommitScan(w) ==
    LET done == scan[w].ok \cup scan[w].missed
    IN /\ scan[w].pc = "fetch"
       /\ Left(w) = {}
       /\ sources' = [s \in Sources |->
             [sources[s] EXCEPT
                !.failures = IF s \in done /\ scan[w].copy[s] # scan[w].loaded[s]
                             THEN scan[w].copy[s] ELSE @]]
       /\ misses' = [s \in Sources |-> IF s \in scan[w].ok THEN 0 ELSE misses[s]]
       /\ \E rows \in SetToSeqs(scan[w].found) :
             proposals' = proposals \o
                [i \in DOMAIN rows |-> Pending(rows[i], scan[w].cycle)]
       /\ scanned' = [who |-> scan[w].who, missed |-> scan[w].missed,
                      status |-> IF scan[w].failed THEN "failed" ELSE "completed"]
       /\ IF scan[w].todo = {}
          THEN scan' = [scan EXCEPT ![w] = NoScan]
          ELSE \E s \in scan[w].todo :
                  scan' = [scan EXCEPT ![w] = [@ EXCEPT !.who = Owner[s], !.ok = {},
                                                        !.missed = {}, !.found = {}]]
       /\ UNCHANGED <<audit, notices, overlaps, req, cycles, requests>>

(* The session breaks or the worker dies: what was not committed is gone,  *)
(* what was announced is not.                                              *)
AbortScan(w) ==
    /\ Faults
    /\ scan[w].pc # "idle"
    /\ scan' = [scan EXCEPT ![w] = NoScan]
    /\ UNCHANGED <<sources, proposals, audit, scanned, notices, misses, overlaps, req, cycles, requests>>

-----------------------------------------------------------------------------
(* Requests: one session each, committed at the end.                       *)

Answer(q) == req' = [req EXCEPT ![q] = NoRequest]

(* accept (with edited content or not) and reject one proposal, or in bulk *)
(* several, edits excepted.  Any consultant may name any proposal.         *)
BeginReview(q) ==
    /\ req[q].pc = "idle"
    /\ requests < MaxRequests
    /\ requests' = requests + 1
    /\ \E op \in Ops \cap {"accept", "edit", "reject"}, c \in Consultants,
          todo \in BoundedSeq(DOMAIN proposals, MAX_BULK_SIZE) :
          /\ todo # <<>>
          /\ op = "edit" => Len(todo) = 1
          /\ req' = [req EXCEPT ![q] = [NoRequest EXCEPT !.pc = "review", !.op = op,
                                                        !.who = c, !.todo = todo]]
    /\ UNCHANGED <<sources, proposals, audit, scanned, notices, misses, overlaps, scan, cycles>>

(* Mutant: the status of the proposal is not checked. *)
ReviewAnyStatus(q) ==
    /\ req[q].pc = "review"
    /\ req[q].todo # <<>>
    /\ OwnerOf(proposals[Head(req[q].todo)]) = req[q].who
    /\ req' = [req EXCEPT ![q].todo = Tail(@), ![q].done = @ \cup {Head(req[q].todo)}]
    /\ contested' = contested \cup ({Head(req[q].todo)} \cap UNION {req[p].done : p \in Requests})
    /\ UNCHANGED <<sources, proposals, audit, scanned, notices, misses, beside, crossed, scan, cycles, requests>>

(* accept_proposal and reject_proposal up to their writes, which stay in   *)
(* the session.  A proposal of another consultant, or one that is not      *)
(* pending for this session, ends the request and rolls all of it back,    *)
(* also in bulk.                                                           *)
Review(q) ==
    /\ req[q].pc = "review"
    /\ req[q].todo # <<>>
    /\ LET n == Head(req[q].todo)
           reviewable == /\ OwnerOf(proposals[n]) = req[q].who
                         /\ proposals[n].status = "pending"
                         /\ n \notin req[q].done
       IN \/ /\ reviewable
             /\ req' = [req EXCEPT ![q] = [req[q] EXCEPT !.todo = Tail(@), !.done = @ \cup {n}]]
             /\ contested' = contested \cup ({n} \cap UNION {req[p].done : p \in Requests})
          \/ /\ ~reviewable
             /\ Answer(q)
             /\ UNCHANGED contested
    /\ UNCHANGED <<sources, proposals, audit, scanned, notices, misses, beside, crossed, scan, cycles, requests>>

Content(op) == IF op = "edit" THEN "edited" ELSE "evidence"

(* Mutant: a status that the deduplicator does not look for. *)
ReviewedMisspelled(p, op) ==
    [p EXCEPT !.status = IF op = "reject" THEN "rejected" ELSE "merged",
              !.merged = IF op = "reject" THEN "none" ELSE Content(op)]

Reviewed(p, op) ==
    IF op = "reject"
    THEN [p EXCEPT !.status = "rejected"]
    ELSE [p EXCEPT !.status = "accepted", !.merged = Content(op)]

(* Mutant: the audit entry records the proposal, not what was merged. *)
CommitReviewEvidence(q) ==
    /\ req[q].pc = "review"
    /\ req[q].todo = <<>>
    /\ proposals' = [n \in DOMAIN proposals |->
                        IF n \in req[q].done THEN Reviewed(proposals[n], req[q].op)
                                             ELSE proposals[n]]
    /\ audit' = audit \cup
          {[proposal |-> n, content |-> "evidence"] :
              n \in {m \in req[q].done : req[q].op # "reject"}}
    /\ Answer(q)
    /\ UNCHANGED <<sources, scanned, notices, misses, overlaps, scan, cycles, requests>>

(* The commit: statuses are overwritten whatever they are by now, and each *)
(* accepted proposal gets its audit entry.                                 *)
CommitReview(q) ==
    /\ req[q].pc = "review"
    /\ req[q].todo = <<>>
    /\ proposals' = [n \in DOMAIN proposals |->
                        IF n \in req[q].done THEN Reviewed(proposals[n], req[q].op)
                                             ELSE proposals[n]]
    /\ audit' = audit \cup
          {[proposal |-> n, content |-> Content(req[q].op)] :
              n \in {m \in req[q].done : req[q].op # "reject"}}
    /\ Answer(q)
    /\ UNCHANGED <<sources, scanned, notices, misses, overlaps, scan, cycles, requests>>

(* add_source counts the active sources of the consultant ...              *)
CountSources(q) ==
    /\ req[q].pc = "idle"
    /\ "add" \in Ops
    /\ requests < MaxRequests
    /\ requests' = requests + 1
    /\ \E s \in Sources :
          \/ /\ Cardinality(Active(Owner[s])) < MAX_SOURCES
             /\ req' = [req EXCEPT ![q] = [NoRequest EXCEPT !.pc = "insert", !.op = "add",
                                                           !.source = s]]
          \/ /\ Cardinality(Active(Owner[s])) >= MAX_SOURCES
             /\ UNCHANGED req
    /\ UNCHANGED <<sources, proposals, audit, scanned, notices, misses, overlaps, scan, cycles>>

(* ... and inserts the new one, unless the consultant has or had it: a     *)
(* removed source still occupies its URL.                                  *)
InsertSource(q) ==
    /\ req[q].pc = "insert"
    /\ LET s == req[q].source
       IN \/ /\ sources[s].state = "absent"
             /\ sources' = [sources EXCEPT ![s].state = "active"]
             /\ Answer(q)
          \/ /\ sources[s].state # "absent"
             /\ Answer(q)
             /\ UNCHANGED sources
    /\ UNCHANGED <<proposals, audit, scanned, notices, misses, overlaps, scan, cycles, requests>>

RemoveSource(q) ==
    /\ req[q].pc = "idle"
    /\ "remove" \in Ops
    /\ requests < MaxRequests
    /\ requests' = requests + 1
    /\ \E s \in Sources :
          \/ /\ sources[s].state = "active"
             /\ sources' = [sources EXCEPT ![s].state = "removed"]
          \/ /\ sources[s].state # "active"
             /\ UNCHANGED sources
    /\ UNCHANGED <<proposals, audit, scanned, notices, misses, overlaps, scan, req, cycles>>

AbortRequest(q) ==
    /\ Faults
    /\ req[q].pc # "idle"
    /\ Answer(q)
    /\ UNCHANGED <<sources, proposals, audit, scanned, notices, misses, overlaps, scan, cycles, requests>>

ScanStep(w) ==
    \/ Fetch(w) \/ Extract(w) \/ ReadAccepted(w) \/ ReadRejected(w) \/ ReadPending(w)
    \/ CommitScan(w)

RequestStep(q) == Review(q) \/ CommitReview(q) \/ InsertSource(q)

Next ==
    \/ \E w \in Scans : BeginScan(w) \/ ScanStep(w) \/ AbortScan(w)
    \/ \E q \in Requests :
          \/ BeginReview(q) \/ CountSources(q) \/ RemoveSource(q)
          \/ RequestStep(q) \/ AbortRequest(q)

Spec == Init /\ [][Next]_vars

-----------------------------------------------------------------------------
(* Every variable has its type. *)
TypeOK ==
    /\ sources \in [Sources -> Source]
    /\ proposals \in Seq(Proposal)
    /\ audit \subseteq [proposal : DOMAIN proposals, content : {"evidence", "edited"}]
    /\ scanned \in History \cup {NoHistory}
    /\ notices \in [Sources -> Nat]
    /\ misses \in [Sources -> Nat]
    /\ contested \subseteq DOMAIN proposals
    /\ beside \subseteq Ordered
    /\ crossed \subseteq Sources
    /\ scan \in [Scans -> Scan]
    /\ req \in [Requests -> Request]
    /\ cycles \in 0 .. MaxCycles
    /\ requests \in 0 .. MaxRequests

(* What has been accepted stays as it was merged: "no existing content is  *)
(* ever modified or deleted" (proposal_review_service.py, class            *)
(* ProposalReviewService).  It does unless two requests that overlapped    *)
(* both found the proposal pending.                                        *)
AdditiveOnly ==
    [][\A n \in DOMAIN proposals \ contested :
          proposals[n].status = "accepted" => proposals'[n] = proposals[n]]_vars

(* Design property 8: one audit entry for each accepted proposal, with the *)
(* content that was merged, and none for anything else, again unless two   *)
(* requests decided the proposal.                                          *)
AuditMatchesMerges ==
    {e \in audit : e.proposal \notin contested} =
        {[proposal |-> n, content |-> proposals[n].merged] :
            n \in {m \in DOMAIN proposals \ contested : proposals[m].status = "accepted"}}

(* An item of which a proposal was decided by two requests.                *)
Contested(c, key) ==
    \E n \in contested : OwnerOf(proposals[n]) = c /\ proposals[n].key = key

(* Requirement 3.3: what was rejected before a cycle began is not proposed *)
(* again in that cycle, whatever is reviewed and scanned while it runs:    *)
(* only a request that overwrites the rejection can undo it.               *)
RejectionStands ==
    \A w \in Scans : \A f \in scan[w].found :
        LET c == Owner[f.source]
            key == KeyOf[f.cand]
        IN <<c, key>> \in scan[w].settled => Contested(c, key)

(* One of the two scans began while the other one ran.                     *)
Beside(a, b) == <<a, b>> \in beside \/ <<b, a>> \in beside

(* A consultant has to decide an item once: two pending proposals of it    *)
(* come from scans that overlapped, or from one page, whose candidates are *)
(* not compared with each other.                                           *)
PendingOncePerPage ==
    \A m, n \in DOMAIN proposals :
        LET p == proposals[m]
            o == proposals[n]
        IN /\ p.status = "pending" /\ o.status = "pending"
           /\ p.key = o.key /\ OwnerOf(p) = OwnerOf(o)
           => \/ p.source = o.source /\ p.cycle = o.cycle
              \/ Beside(p.cycle, o.cycle)

(* A consultant whose scan is recorded as completed had every source read. *)
(* (The converse fails: failures add up over the consultants of a task.)   *)
CompletedMissedNothing ==
    scanned.status = "completed" => scanned.missed = {}

(* The notice of requirement 1.4 is never early: a source that no two      *)
(* scans held at once is reported only after that many fetches failed with *)
(* no committed success in between.                                        *)
NoticeIsEarned ==
    [][\A s \in Sources \ crossed :
          notices'[s] > notices[s] => misses'[s] >= THRESHOLD]_vars

=============================================================================

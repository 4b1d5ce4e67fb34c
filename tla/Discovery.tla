------------------------------ MODULE Discovery ------------------------------
(***************************************************************************)
(* DiscoveryPipeline (app/core/discovery_pipeline.py) for one source: its  *)
(* health, the executions of run_discovery that overlap while they await   *)
(* the source, and how what the source answers is merged with the          *)
(* prospects that are already known.                                       *)
(*                                                                         *)
(* A prospect is a record of its domain, the class of its name under       *)
(* normalize_company_name and one enrichment field.  The values of a       *)
(* merge are written into the dictionary of the known prospect itself      *)
(* (known); the known prospects are otherwise left as they are.            *)
(***************************************************************************)
EXTENDS ScoringEngine, Sequences, SequencesExt

CONSTANTS
    DiscoveryRuns,    \* executions of run_discovery in progress at once
    Existing,         \* prospects known when the pipeline is built: records
                      \* [domain, name, sources]
    Answers,          \* what the source may answer: sequences of records
                      \* [domain, name, source, field]
    HasClient,        \* whether a client of the source is configured
    Threshold,        \* min_score_threshold
    BACKOFF,          \* BACKOFF_PERIOD_SECONDS, in ticks of the clock
    CONSECUTIVE_FAILURE_THRESHOLD,
    MAX_RECOVERY_ATTEMPTS,
    MaxTime,          \* bound: ticks of the clock
    MaxCalls          \* bound: calls of the source

ASSUME DiscoveryAssumption ==
    /\ {BACKOFF, CONSECUTIVE_FAILURE_THRESHOLD, MAX_RECOVERY_ATTEMPTS} \subseteq Nat \ {0}
    /\ {MaxTime, MaxCalls} \subseteq Nat
    /\ HasClient \in BOOLEAN
    /\ \A list \in Answers \cup {Existing} : list \in Seq(Range(list))

VARIABLES
    health,    \* SourceHealthState of the source
    clock,     \* ticks since the pipeline was built
    calling,   \* executions that await the source
    known,     \* enrichment field of each known prospect
    result,    \* rows and counts of the answer handled last
    calls,     \* calls of the source so far
    streak,    \* failures recorded since a success was recorded (history)
    overlapped \* executions that awaited the source when it was suspended (history)

discVars == <<health, clock, calling, known, result, calls, streak, overlapped>>

NoValue == "None"
NoDomain == "None"    \* company_domain is None or ""
Blank == "blank"      \* nothing but spaces: true in a condition, "" when stripped
NoName == ""
Never == -1

NoResult == [rows |-> <<>>, merged |-> 0, filtered |-> 0]

DiscInit ==
    /\ health = [status |-> "active", failures |-> 0, suspendedAt |-> Never, attempts |-> 0]
    /\ clock = 0
    /\ calling = {}
    /\ known = [e \in DOMAIN Existing |-> NoValue]
    /\ result = NoResult
    /\ calls = 0
    /\ streak = 0
    /\ overlapped = {}

-----------------------------------------------------------------------------
\* deduplicate_and_merge.

HasKey(p) == p.domain # NoDomain

(* The indices of the entries, known prospects first, in which a later     *)
(* entry replaces an earlier one of the same key.                          *)
ByDomain(entries, domain) == {i \in DOMAIN entries : HasKey(entries[i]) /\ entries[i].domain = domain}
ByName(entries, name) == {i \in DOMAIN entries : entries[i].name # NoName /\ entries[i].name = name}

(* _find_match: the domain first, then the name.                           *)
FindMatch(entries, raw) ==
    IF HasKey(raw) /\ ByDomain(entries, raw.domain) # {}
    THEN ByDomain(entries, raw.domain)
    ELSE ByName(entries, raw.name)

(* _create_new_prospect: the row is an entry that later prospects of the   *)
(* answer match.                                                           *)
Create(raw) ==
    [domain |-> raw.domain, name |-> raw.name, sources |-> {raw.source}, isNew |-> TRUE]

(* _merge_prospect, which leaves the entry it starts from in the indices.  *)
Merge(entry, raw) ==
    [domain |-> IF raw.domain \in {NoDomain, Blank} THEN entry.domain ELSE raw.domain,
     name |-> raw.name, sources |-> entry.sources \cup {raw.source}, isNew |-> FALSE]

Latest(old, new) == IF new = NoValue THEN old ELSE new

(* A prospect of the answer makes a row: a new one, which is an entry from *)
(* then on, or that of the entry it matches, whose value it replaces.      *)
Deduplicated(acc, raw) ==
    LET match == FindMatch(acc.entries, raw)
        i == Max(match)
    IN  IF match = {}
        THEN [entries |-> Append(acc.entries, Create(raw)),
              values |-> Append(acc.values, raw.field),
              rows |-> Append(acc.rows, Create(raw))]
        ELSE [entries |-> acc.entries,
              values |-> [acc.values EXCEPT ![i] = Latest(@, raw.field)],
              rows |-> Append(acc.rows, Merge(acc.entries[i], raw))]

Deduplicate(values, answer) ==
    LET after[i \in 0..Len(answer)] ==
            IF i = 0 THEN [entries |-> Existing, values |-> values, rows |-> <<>>]
            ELSE Deduplicated(after[i - 1], answer[i])
    IN  after[Len(answer)]

RowScore(row) == ComputeScore([f \in {} |-> Missing], [f \in {} |-> 0], Cardinality(row.sources), FALSE)

Summary(rows) ==
    [rows |-> rows,
     merged |-> Cardinality({i \in DOMAIN rows : ~rows[i].isNew}),
     filtered |-> Cardinality({i \in DOMAIN rows : RowScore(rows[i]) < Threshold})]

-----------------------------------------------------------------------------
\* run_discovery.

CanAttemptRecovery == health.suspendedAt # Never /\ clock - health.suspendedAt >= BACKOFF

(* Mutant: a suspended source is tried again without waiting.              *)
MayCallAtOnce == health.status # "permanently_suspended"

MayCall ==
    CASE health.status = "permanently_suspended" -> FALSE
      [] health.status = "suspended" -> CanAttemptRecovery
      [] OTHER -> TRUE

(* Any other call returns an empty result and changes nothing.             *)
BeginRun(r) ==
    /\ r \notin calling
    /\ MayCall
    /\ HasClient
    /\ calls < MaxCalls
    /\ calling' = calling \cup {r}
    /\ calls' = calls + 1
    /\ UNCHANGED <<health, clock, known, result, streak, overlapped>>

RecordSuccess(h) ==
    IF h.status = "suspended"
    THEN [status |-> "active", failures |-> 0, suspendedAt |-> Never, attempts |-> 0]
    ELSE [h EXCEPT !.failures = 0]

(* suspendedAt stays that of the suspension when a recovery fails.         *)
RecordFailure(h) ==
    LET failed == [h EXCEPT !.failures = @ + 1] IN
    CASE h.status = "active" /\ failed.failures >= CONSECUTIVE_FAILURE_THRESHOLD ->
            [failed EXCEPT !.status = "suspended", !.suspendedAt = clock, !.attempts = 0]
      [] h.status = "suspended" ->
            [failed EXCEPT !.attempts = @ + 1,
                           !.status = IF h.attempts + 1 >= MAX_RECOVERY_ATTEMPTS
                                      THEN "permanently_suspended" ELSE @]
      [] OTHER -> failed

(* The source answers in time.                                             *)
Answer(r) ==
    /\ r \in calling
    /\ \E answer \in Answers :
        LET done == Deduplicate(known, answer) IN
        /\ known' = SubSeq(done.values, 1, Len(Existing))
        /\ result' = Summary(done.rows)
    /\ health' = RecordSuccess(health)
    /\ calling' = calling \ {r}
    /\ streak' = 0
    /\ UNCHANGED <<clock, calls, overlapped>>

(* It raises, or does not answer within max_runtime.                       *)
Fail(r) ==
    /\ r \in calling
    /\ health' = RecordFailure(health)
    /\ calling' = calling \ {r}
    /\ streak' = streak + 1
    /\ overlapped' = IF health.status = "active" /\ health'.status = "suspended"
                     THEN calling' ELSE overlapped
    /\ UNCHANGED <<clock, known, result, calls>>

DiscTick ==
    /\ clock < MaxTime
    /\ clock' = clock + 1
    /\ UNCHANGED <<health, calling, known, result, calls, streak, overlapped>>

DiscNext ==
    \/ \E r \in DiscoveryRuns : BeginRun(r) \/ Answer(r) \/ Fail(r)
    \/ DiscTick

DiscSpec == DiscInit /\ [][DiscNext]_discVars

-----------------------------------------------------------------------------
\* Properties.

(* Every variable has its type, and a source has a moment of suspension    *)
(* exactly when it is suspended, for a while or for good.                  *)
DiscTypeOK ==
    /\ health.status \in {"active", "suspended", "permanently_suspended"}
    /\ health.failures \in 0..MaxCalls
    /\ health.attempts \in 0..MAX_RECOVERY_ATTEMPTS
    /\ health.suspendedAt = Never <=> health.status = "active"
    /\ clock \in 0..MaxTime
    /\ calling \subseteq DiscoveryRuns
    /\ DOMAIN known = DOMAIN Existing
    /\ calls \in 0..MaxCalls

(* A source is given up only after three failures in a row and three       *)
(* failed recoveries with no success in between, whatever the order in     *)
(* which overlapping executions end.                                       *)
GivenUpAfterFailures ==
    /\ health.status # "permanently_suspended"
    /\ health'.status = "permanently_suspended"
    => streak' >= CONSECUTIVE_FAILURE_THRESHOLD + MAX_RECOVERY_ATTEMPTS

(* A source that was given up stays so: an answer that comes late does not *)
(* bring it back.                                                          *)
GivenUpForGood ==
    health.status = "permanently_suspended" => health'.status = "permanently_suspended"

(* During the backoff no recovery is counted but those of executions that  *)
(* awaited the source when it was suspended.                               *)
BackoffIsKept ==
    health.status # "active" /\ clock < health.suspendedAt + BACKOFF
        => health.attempts <= Cardinality(overlapped)

(* Two new rows of a result are two companies: they share neither a domain *)
(* nor a name.                                                             *)
NewRowsAreDistinct ==
    \A i, j \in DOMAIN result.rows :
        /\ i # j
        /\ result.rows[i].isNew
        /\ result.rows[j].isNew
        => /\ result.rows[i].name # NoName => result.rows[i].name # result.rows[j].name
           /\ HasKey(result.rows[i]) => result.rows[i].domain # result.rows[j].domain

(* A value of a known prospect is replaced by newer ones and never lost.   *)
ValuesAreKept ==
    \A e \in DOMAIN known : known[e] # NoValue => known'[e] # NoValue

(* The discovery keeps its promises about the source, whose health the     *)
(* overlapping executions share, and about what it makes of the answers.   *)
DiscoverySafety ==
    /\ [](DiscTypeOK /\ BackoffIsKept /\ NewRowsAreDistinct)
    /\ [][GivenUpAfterFailures /\ GivenUpForGood /\ ValuesAreKept]_discVars
=============================================================================

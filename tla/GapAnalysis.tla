---------------------------- MODULE GapAnalysis ----------------------------
(***************************************************************************)
(* GapAnalyzer (app/core/gap_analyzer.py): the nightly cycle of the task   *)
(* run_gap_analysis_cycle (app/workers/gap_worker.py) beside an on-demand  *)
(* analysis.  Both extract the capabilities an opportunity requires, once  *)
(* per opportunity, through a cache in Redis and a table with a unique     *)
(* key; the cycle then stores a heatmap of the gaps of every consultant    *)
(* and of the firm.                                                        *)
(*                                                                         *)
(* Opportunities are pipeline records.  Values are quarters of             *)
(* default_opportunity_value.  Preferred capabilities, which never make a  *)
(* gap of a heatmap, are left out.                                         *)
(***************************************************************************)
EXTENDS Integers, Sequences, FiniteSets, SequencesExt, Selection

CONSTANTS
    Recency,       \* opportunities in the window, the most recently updated first
    Skills,        \* canonical capabilities
    Consultants,
    Demands,       \* sets of skills a model may answer
    Standings,     \* records [lost, tier] an opportunity may have
    Profiles,      \* functions from Consultants to levels of the Skills
    FirstStanding, \* of each opportunity, at first
    FirstProfile,  \* the profile at first
    EXTRACTIONS,   \* max_extractions_per_cycle
    ENTRIES,       \* max_heatmap_entries
    BLOCKER_WEIGHT,
    TIMEOUT_TRIES, \* TIMEOUT_MAX_RETRIES
    LIMIT_TRIES,   \* RATE_LIMIT_MAX_RETRIES
    MaxNights,     \* bound: cycles
    MaxChanges     \* bound: requests, and changes of standings, profiles and the cache

ASSUME GapAssumption ==
    /\ {EXTRACTIONS, ENTRIES, BLOCKER_WEIGHT, TIMEOUT_TRIES, LIMIT_TRIES} \subseteq Nat \ {0}
    /\ {MaxNights, MaxChanges} \subseteq Nat
    /\ Recency \in Seq(Range(Recency))
    /\ IsFiniteSet(Skills)
    /\ "__firm__" \notin Consultants
    \* NoRow stands for no row.
    /\ Demands \subseteq (SUBSET Skills) \ {{"none"}}
    /\ Profiles \cup {FirstProfile} \subseteq
           [Consultants -> [Skills -> {"absent", "junior", "mid", "senior"}]]

VARIABLES
    demanded,  \* opportunity_extractions: the required skills, or NoRow
    cached,    \* entries of the extraction cache, or NoRow
    queued,    \* gap_extraction_queue
    standing,  \* status and tier of each opportunity
    profile,   \* beneficiary_capabilities
    heatmap,   \* of each beneficiary, the last heatmap and the one before
    extracting,\* calls of extract_capabilities: of the cycle and of the request
    night,     \* locals of the cycle
    nights,    \* cycles begun
    changes    \* requests and changes so far

gapVars == <<demanded, cached, queued, standing, profile, heatmap, extracting, night, nights, changes>>

Opportunities == Range(Recency)
NoRow == {"none"}
NoHeatmap == {[name |-> "none"]}
Firm == "__firm__"
Beneficiaries == Consultants \cup {Firm}
Extractors == {"night", "request"}

NoExtraction == [pc |-> "none", of |-> "none", reply |-> {}, timeouts |-> 0, limits |-> 0, attempts |-> 0]
NoNight == [pc |-> "idle", todo |-> <<>>, broken |-> FALSE, extracted |-> {}, demand |-> <<>>,
            value |-> <<>>, levels |-> <<>>, left |-> {}, stored |-> {}]

GapInit ==
    /\ demanded = [o \in Opportunities |-> NoRow]
    /\ cached = [o \in Opportunities |-> NoRow]
    /\ queued = {}
    /\ standing = FirstStanding
    /\ profile = FirstProfile
    /\ heatmap = [b \in Beneficiaries |-> [last |-> NoHeatmap, before |-> NoHeatmap]]
    /\ extracting = [p \in Extractors |-> NoExtraction]
    /\ night = NoNight
    /\ nights = 0
    /\ changes = 0

-----------------------------------------------------------------------------
\* The computation of a heatmap.

(* _proficiency_rank; a skill without a row is absent.                     *)
ProficiencyRank(level) ==
    CASE level = "senior" -> 3 [] level = "mid" -> 2 [] level = "junior" -> 1 [] OTHER -> 0

(* The firm has of every skill the highest level among its consultants.    *)
FirmLevels(levels) ==
    [k \in Skills |->
        LET known == {"absent"} \cup {levels[c][k] : c \in Consultants}
        IN  CHOOSE l \in known : \A m \in known : ProficiencyRank(l) >= ProficiencyRank(m)]

LevelsOf(b, levels) == IF b = Firm THEN FirmLevels(levels) ELSE levels[b]

(* classify_gap, and the condition of compute_gaps.                        *)
Absent(level) == level = "absent"
IsGap(level) == Absent(level) \/ level = "junior"
ClassifyGap(level) == IF Absent(level) THEN "hard" ELSE "soft"

(* _build_opportunity_values: TIER_WEIGHT_MAP, one without a known tier.   *)
OpportunityValue(s) == CASE s.tier = "C-tier" -> 2 [] s.tier = "D-tier" -> 1 [] OTHER -> 4

Requiring(k, demand) == {o \in DOMAIN demand : k \in demand[o]}
BlockedValue(k, demand, value) == Total(value, Requiring(k, demand))

(* detect_single_blockers: a skill of level junior counts as met.          *)
SingleBlockers(demand, level) ==
    UNION {unmet \in {{k \in demand[o] : Absent(level[k])} : o \in DOMAIN demand} : Cardinality(unmet) = 1}

(* apply_single_blocker_weighting.                                         *)
Weight(blocked, sole) == IF sole THEN BLOCKER_WEIGHT * blocked ELSE blocked

(* compute_gaps.                                                           *)
WeightedGaps(demand, value, level) ==
    {LET blocked == BlockedValue(k, demand, value)
         sole == k \in SingleBlockers(demand, level)
     IN  [name |-> k, kind |-> ClassifyGap(level[k]), count |-> Cardinality(Requiring(k, demand)),
          blocked |-> blocked, sole |-> sole,
          weight |-> Weight(blocked, sole)]
     : k \in {k \in Skills : IsGap(level[k]) /\ Requiring(k, demand) # {}}}

(* rank_gaps: what is kept of the gaps.  Equal ones stand in the order in  *)
(* which the database returned the capabilities.                           *)
Ranked(gaps) ==
    {kept \in SUBSET gaps :
        /\ Cardinality(kept) = IF Cardinality(gaps) < ENTRIES THEN Cardinality(gaps) ELSE ENTRIES
        /\ \A g \in kept, h \in gaps \ kept : g.weight >= h.weight}

Entry(name, before) == CHOOSE e \in before : e.name = name
Listed(before) == IF before = NoHeatmap THEN {} ELSE {e.name : e \in before}

(* compute_trend.  The entries it adds for the gaps that are not listed    *)
(* any more (RESOLVED) are filtered out before the heatmap is stored.      *)
Trend(g, before) ==
    IF g.name \notin Listed(before) THEN "new"
    ELSE LET e == Entry(g.name, before)
         IN  CASE g.blocked > e.blocked -> "growing" [] g.blocked < e.blocked -> "shrinking" [] OTHER -> "none"

WithTrend(g, before) ==
    [name |-> g.name, kind |-> g.kind, count |-> g.count, blocked |-> g.blocked,
     sole |-> g.sole, weight |-> g.weight, trend |-> Trend(g, before)]

-----------------------------------------------------------------------------
\* extract_capabilities, awaited by the cycle and by the request.

SetExtraction(p, value) == extracting' = [extracting EXCEPT ![p] = value]

(* The cache is read.  A hit ends the extraction.                          *)
Lookup(p, o) ==
    SetExtraction(p, IF cached[o] # NoRow THEN [NoExtraction EXCEPT !.pc = "extracted", !.of = o, !.reply = cached[o]]
                     ELSE [NoExtraction EXCEPT !.pc = "asking", !.of = o])

(* Mutant: a rate limit starts the count of the timeouts anew.             *)
ModelDelaysAnew(p) ==
    /\ extracting[p].pc = "asking"
    /\ LET x == [extracting[p] EXCEPT !.attempts = @ + 1]
       IN  \/ SetExtraction(p, [x EXCEPT !.timeouts = @ + 1,
                                         !.pc = IF x.timeouts + 1 >= TIMEOUT_TRIES THEN "failed" ELSE "asking"])
           \/ SetExtraction(p, [x EXCEPT !.limits = @ + 1, !.timeouts = 0,
                                         !.pc = IF x.limits + 1 >= LIMIT_TRIES THEN "failed" ELSE "asking"])
    /\ UNCHANGED <<demanded, cached, queued, standing, profile, heatmap, night, nights, changes>>

(* retry_llm_call: a timeout or a rate limit.  Each kind has its count.    *)
ModelDelays(p) ==
    /\ extracting[p].pc = "asking"
    /\ LET x == [extracting[p] EXCEPT !.attempts = @ + 1]
       IN  \/ SetExtraction(p, [x EXCEPT !.timeouts = @ + 1,
                                         !.pc = IF x.timeouts + 1 >= TIMEOUT_TRIES THEN "failed" ELSE "asking"])
           \/ SetExtraction(p, [x EXCEPT !.limits = @ + 1,
                                         !.pc = IF x.limits + 1 >= LIMIT_TRIES THEN "failed" ELSE "asking"])
    /\ UNCHANGED <<demanded, cached, queued, standing, profile, heatmap, night, nights, changes>>

(* Any other error of the call, or of Redis, ends the extraction.          *)
ExtractionFails(p) ==
    /\ extracting[p].pc \in {"asking", "caching"}
    /\ SetExtraction(p, [extracting[p] EXCEPT !.pc = "failed"])
    /\ UNCHANGED <<demanded, cached, queued, standing, profile, heatmap, night, nights, changes>>

(* The model answers, maybe without a capability, and                      *)
(* _store_extraction_in_db commits.                                        *)
StoreExtraction(p) ==
    /\ extracting[p].pc = "asking"
    /\ \E reply \in Demands :
        LET o == extracting[p].of IN
        /\ demanded[o] = NoRow
        /\ demanded' = [demanded EXCEPT ![o] = reply]
        /\ SetExtraction(p, [extracting[p] EXCEPT !.reply = reply, !.pc = "caching"])
    /\ UNCHANGED <<cached, queued, standing, profile, heatmap, night, nights, changes>>

(* A flush of it is refused.  It always is when the opportunity has a row; *)
(* it may be when the other caller, with whatever opportunity, inserts a   *)
(* canonical capability of the same name at the same time, or when the     *)
(* database fails.  The names are not kept, so it is possible always.      *)
StoreConflicts(p) ==
    /\ extracting[p].pc = "asking"
    /\ SetExtraction(p, [extracting[p] EXCEPT !.pc = "conflict"])
    /\ UNCHANGED <<demanded, cached, queued, standing, profile, heatmap, night, nights, changes>>

CacheExtraction(p) ==
    /\ extracting[p].pc = "caching"
    /\ cached' = [cached EXCEPT ![extracting[p].of] = extracting[p].reply]
    /\ SetExtraction(p, [extracting[p] EXCEPT !.pc = "extracted"])
    /\ UNCHANGED <<demanded, queued, standing, profile, heatmap, night, nights, changes>>

-----------------------------------------------------------------------------
\* run_nightly_cycle.

(* get_eligible_opportunities.                                             *)
IsEligible(o) ==
    /\ standing[o].lost \/ standing[o].tier \in {"C-tier", "D-tier"}
    /\ demanded[o] = NoRow

(* Steps 1 and 2.  enforce_batch_cap queues what is beyond the cap, and    *)
(* nothing reads the queue.                                                *)
SelectBatch ==
    /\ night.pc = "idle"
    /\ nights < MaxNights
    /\ LET eligible == Kept(Recency, {o \in Opportunities : IsEligible(o)})
           batch == SubSeq(eligible, 1, IF Len(eligible) < EXTRACTIONS THEN Len(eligible) ELSE EXTRACTIONS)
       IN  /\ night' = [NoNight EXCEPT !.pc = "extracting", !.todo = batch]
           /\ queued' = queued \cup (Range(eligible) \ Range(batch))
    /\ nights' = nights + 1
    /\ UNCHANGED <<demanded, cached, standing, profile, heatmap, extracting, changes>>

(* Step 3 for one opportunity: its text is read, which a session left      *)
(* broken refuses, and the capabilities are extracted from it.             *)
ExtractNext ==
    /\ night.pc = "extracting"
    /\ night.todo # <<>>
    /\ ~night.broken
    /\ extracting["night"].pc = "none"
    /\ Lookup("night", Head(night.todo))
    /\ UNCHANGED <<demanded, cached, queued, standing, profile, heatmap, night, nights, changes>>

(* There is no text or no model, or the session or Redis refuses.          *)
SkipNext ==
    /\ night.pc = "extracting"
    /\ night.todo # <<>>
    /\ extracting["night"].pc = "none"
    /\ night' = [night EXCEPT !.todo = Tail(@)]
    /\ UNCHANGED <<demanded, cached, queued, standing, profile, heatmap, extracting, nights, changes>>

(* The exception handlers of the loop do not roll back the session, which  *)
(* a refused flush has left broken.                                        *)
EndExtraction ==
    /\ extracting["night"].pc \in {"extracted", "failed", "conflict"}
    /\ night' = [night EXCEPT
                    !.todo = Tail(@),
                    !.broken = @ \/ extracting["night"].pc = "conflict",
                    !.extracted = IF extracting["night"].pc = "extracted" THEN @ \cup {extracting["night"].of} ELSE @]
    /\ SetExtraction("night", NoExtraction)
    /\ UNCHANGED <<demanded, cached, queued, standing, profile, heatmap, nights, changes>>

(* Steps 4 and 5.  The rows loaded are those of capabilities: an           *)
(* opportunity whose extraction has none is not among those analysed.  A   *)
(* consultant of whom no capability is stored has no heatmap.              *)
LoadDemand ==
    /\ night.pc = "extracting"
    /\ night.todo = <<>>
    /\ ~night.broken
    /\ LET stored == {o \in Opportunities : demanded[o] \notin {NoRow, {}}}
       IN  night' = [night EXCEPT !.pc = "mapping",
                                  !.demand = [o \in stored |-> demanded[o]],
                                  !.value = [o \in stored |-> OpportunityValue(standing[o])],
                                  !.levels = profile,
                                  !.left = {c \in Consultants : \E k \in Skills : ~Absent(profile[c][k])}]
    /\ UNCHANGED <<demanded, cached, queued, standing, profile, heatmap, extracting, nights, changes>>

(* The session refuses every statement until it is rolled back: the cycle  *)
(* ends with an error, which the task returns.                             *)
LoadRaises ==
    /\ night.pc = "extracting"
    /\ night.todo = <<>>
    /\ night.broken
    /\ night' = NoNight
    /\ UNCHANGED <<demanded, cached, queued, standing, profile, heatmap, extracting, nights, changes>>

(* The firm comes after the consultants.                                   *)
NextBeneficiary(b) == IF night.left = {} THEN b = Firm ELSE b \in night.left

(* Step 6: the gaps are weighted, ranked, compared with the heatmap before *)
(* and committed.                                                          *)
StoreHeatmap(b) ==
    /\ night.pc = "mapping"
    /\ NextBeneficiary(b)
    /\ ~night.broken
    /\ \E kept \in Ranked(WeightedGaps(night.demand, night.value, LevelsOf(b, night.levels))) :
        heatmap' = [heatmap EXCEPT ![b] = [last |-> {WithTrend(g, heatmap[b].last) : g \in kept},
                                           before |-> heatmap[b].last]]
    /\ night' = [night EXCEPT !.left = @ \ {b}, !.stored = @ \cup {b}, !.pc = IF b = Firm THEN "mapped" ELSE @]
    /\ UNCHANGED <<demanded, cached, queued, standing, profile, extracting, nights, changes>>

(* A statement fails, and with it all that follow in the session.          *)
HeatmapFails(b) ==
    /\ night.pc = "mapping"
    /\ NextBeneficiary(b)
    /\ night' = [night EXCEPT !.left = @ \ {b}, !.broken = TRUE, !.pc = IF b = Firm THEN "mapped" ELSE @]
    /\ UNCHANGED <<demanded, cached, queued, standing, profile, heatmap, extracting, nights, changes>>

Summarize ==
    /\ night.pc = "mapped"
    /\ night' = NoNight
    /\ UNCHANGED <<demanded, cached, queued, standing, profile, heatmap, extracting, nights, changes>>

-----------------------------------------------------------------------------
\* analyze_on_demand of a stored opportunity, and what others change.

AskOnDemand ==
    /\ extracting["request"].pc = "none"
    /\ changes < MaxChanges
    /\ changes' = changes + 1
    /\ \E o \in Opportunities : Lookup("request", o)
    /\ UNCHANGED <<demanded, cached, queued, standing, profile, heatmap, night, nights>>

(* The report, an error, or the cancellation by wait_for at any await.     *)
EndRequest ==
    /\ extracting["request"].pc # "none"
    /\ SetExtraction("request", NoExtraction)
    /\ UNCHANGED <<demanded, cached, queued, standing, profile, heatmap, night, nights, changes>>

(* A score or a status changes, a profile is edited, or Redis drops an     *)
(* entry (REDIS_EXTRACTION_TTL).                                           *)
ChangeInputs ==
    /\ changes < MaxChanges
    /\ changes' = changes + 1
    /\ \/ /\ \E o \in Opportunities, s \in Standings : standing' = [standing EXCEPT ![o] = s]
          /\ UNCHANGED <<profile, cached>>
       \/ profile' \in Profiles /\ UNCHANGED <<standing, cached>>
       \/ /\ \E o \in Opportunities : cached' = [cached EXCEPT ![o] = NoRow]
          /\ UNCHANGED <<standing, profile>>
    /\ UNCHANGED <<demanded, queued, heatmap, extracting, night, nights>>

GapNext ==
    \/ \E p \in Extractors : ModelDelays(p) \/ ExtractionFails(p) \/ StoreExtraction(p) \/ StoreConflicts(p)
                             \/ CacheExtraction(p)
    \/ SelectBatch \/ ExtractNext \/ SkipNext \/ EndExtraction \/ LoadDemand \/ LoadRaises
    \/ \E b \in Beneficiaries : StoreHeatmap(b) \/ HeatmapFails(b)
    \/ Summarize \/ AskOnDemand \/ EndRequest \/ ChangeInputs

GapSpec == GapInit /\ [][GapNext]_gapVars

-----------------------------------------------------------------------------
\* Properties.

Entries == [name : Skills, kind : {"hard", "soft"}, count : Nat, blocked : Nat, sole : BOOLEAN,
            weight : Nat, trend : {"new", "growing", "shrinking", "none"}]

(* The rows and the heatmaps have their types, and an extraction asks the  *)
(* model a bounded number of times (retry_llm_call).                       *)
GapTypeOK ==
    /\ \A o \in Opportunities : {demanded[o], cached[o]} \subseteq (SUBSET Skills) \cup {NoRow}
    /\ \A b \in Beneficiaries : \A h \in {heatmap[b].last, heatmap[b].before} :
        h = NoHeatmap \/ (Cardinality(h) <= ENTRIES /\ \A e \in h : e \in Entries)
    /\ \A p \in Extractors : extracting[p].attempts <= TIMEOUT_TRIES + LIMIT_TRIES - 1

(* The cache never gives an extraction other than the stored one, though   *)
(* two callers ask the model about one opportunity at a time.              *)
CachedIsStored == \A o \in Opportunities : cached[o] # NoRow => cached[o] = demanded[o]

(* When the heatmaps of a cycle are made, each skill of each opportunity   *)
(* which the cycle counts as extracted, whether the model or the cache     *)
(* gave it, is demanded by that opportunity in what the cycle has loaded:  *)
(* a cycle that lost an extraction to another caller makes no heatmap.     *)
ExtractedIsMapped ==
    night.pc = "mapping" => \A o \in night.extracted : \A k \in demanded[o] : o \in Requiring(k, night.demand)

(* No gap that a heatmap leaves out outranks one it lists: the value which *)
(* opportunities without the skill lose, twice when it is all that some    *)
(* opportunity misses.                                                     *)
ValueLost(b, k) ==
    LET level == LevelsOf(b, night.levels)
        lost == Total(night.value, {o \in DOMAIN night.demand : k \in night.demand[o]})
        sole == \E o \in DOMAIN night.demand : {j \in night.demand[o] : level[j] = "absent"} = {k}
    IN  CASE level[k] \notin {"absent", "junior"} -> 0 [] sole -> BLOCKER_WEIGHT * lost [] OTHER -> lost

NothingOutranks ==
    \A b \in night.stored : \A k \in Skills \ Listed(heatmap[b].last) :
        /\ ValueLost(b, k) > 0 => Cardinality(heatmap[b].last) = ENTRIES
        /\ \A e \in heatmap[b].last : ValueLost(b, k) <= ValueLost(b, e.name)

(* What the firm lacks no consultant of the same cycle has, and what it    *)
(* lacks altogether no consultant has at any level.                        *)
FirmGapsAreEveryones ==
    Firm \in night.stored =>
        \A e \in heatmap[Firm].last, c \in Consultants :
            night.levels[c][e.name] \in IF e.kind = "hard" THEN {"absent"} ELSE {"absent", "junior"}

(* The trend of an entry is that of its value since the heatmap before,    *)
(* whatever became of its weight or its rank.                              *)
TrendsAreOfValues ==
    \A b \in Beneficiaries : heatmap[b].last # NoHeatmap =>
        \A e \in heatmap[b].last :
            LET known == {d \in (IF heatmap[b].before = NoHeatmap THEN {} ELSE heatmap[b].before) : d.name = e.name}
            IN  /\ e.trend = "new" <=> known = {}
                /\ \A d \in known : /\ e.trend = "growing" <=> e.blocked > d.blocked
                                    /\ e.trend = "shrinking" <=> e.blocked < d.blocked

(* The heatmaps are of what was extracted, once for each opportunity, and  *)
(* agree with one another and with those before them.                      *)
GapSafety ==
    /\ GapTypeOK /\ CachedIsStored /\ ExtractedIsMapped
    /\ NothingOutranks /\ FirmGapsAreEveryones /\ TrendsAreOfValues
=============================================================================

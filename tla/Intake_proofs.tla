---------------------------- MODULE Intake_proofs -----------------------------
(***************************************************************************)
(* What a prospect passes before somebody writes to it, for any sources,   *)
(* answers, callers, delays, replies, texts, people, records and cycles.   *)
(* Discovery keeps its promises about a source and its answers             *)
(* (DiscoveryHolds), the throttle spaces the calls that do not overlap     *)
(* (ThrottleHolds), the cache serves scores of the text it is asked about  *)
(* (CacheHolds), Apollo gives the best contacts of its answer and a batch  *)
(* keeps its limit (ApolloHolds), and a cycle of the scheduled enrichment  *)
(* stores what was answered and counts it (CycleHolds).  The five share no *)
(* variable and no definition; each has its own inductive invariant.       *)
(***************************************************************************)
EXTENDS Discovery, DomainThrottle, RelevanceCache, ApolloClient, EnrichmentCycle, Selection_proofs,
        FiniteSetTheorems, SequenceTheorems

-----------------------------------------------------------------------------
\* Discovery.  What the rows of an answer are made of.

Told == UNION {Range(answer) : answer \in Answers}
Merged == Range(Existing) \cup {Create(raw) : raw \in Told}
Rows == {Create(raw) : raw \in Told} \cup {Merge(old, raw) : old \in Merged, raw \in Told}
Values == {NoValue} \cup {raw.field : raw \in Told}

(* New rows that share neither a domain nor a name.                        *)
Distinct(rows) ==
    \A i, j \in DOMAIN rows :
        /\ i # j
        /\ rows[i].isNew
        /\ rows[j].isNew
        => /\ rows[i].name # NoName => rows[i].name # rows[j].name
           /\ HasKey(rows[i]) => rows[i].domain # rows[j].domain

(* A new row is among the entries that a later prospect is compared with.  *)
IsAmong(row, entries) == \E k \in DOMAIN entries : entries[k] = row

Partial(values) ==
    {acc \in [entries : Seq(Merged), values : Seq(Values), rows : Seq(Rows)] :
        /\ Len(acc.values) = Len(acc.entries)
        /\ Len(Existing) <= Len(acc.entries)
        /\ \A e \in 1 .. Len(Existing) : values[e] # NoValue => acc.values[e] # NoValue
        /\ \A i \in DOMAIN acc.rows : acc.rows[i].isNew => IsAmong(acc.rows[i], acc.entries)
        /\ Distinct(acc.rows)}

(* The lists that the code is given are lists.                             *)
LEMMA ListsAreTyped ==
    /\ Existing \in Seq(Merged)
    /\ \A answer \in Answers : answer \in Seq(Told)
<1>1. Existing \in Seq(Range(Existing))
  BY DiscoveryAssumption
<1>2. ASSUME NEW answer \in Answers PROVE answer \in Seq(Told)
  <2>1. answer \in Seq(Range(answer))
    BY DiscoveryAssumption
  <2>2. Range(answer) \subseteq Told
    BY DEF Told
  <2> QED
    BY <2>1, <2>2
<1>3. Range(Existing) \subseteq Merged
  BY DEF Merged
<1> QED
  BY <1>1, <1>2, <1>3

(* A bounded set of numbers has a largest one.                             *)
LEMMA MaxIsIn ==
    ASSUME NEW n \in Nat, NEW S \in SUBSET (1 .. n), S # {}
    PROVE  Max(S) \in S
<1> DEFINE U == {k \in Nat : k > n \/ (\A m \in S : m >= n - k => \E l \in S : \A o \in S : l >= o)}
<1>1. 0 \in U
  <2>1. ASSUME NEW m \in S, m >= n PROVE \A o \in S : m >= o
    BY <2>1
  <2> QED
    BY <2>1
<1>2. ASSUME NEW k \in U PROVE k + 1 \in U
  <2> SUFFICES ASSUME ~ (k + 1 > n), NEW m \in S, m >= n - (k + 1) PROVE \E l \in S : \A o \in S : l >= o
    OBVIOUS
  <2>1. CASE m >= n - k
    BY <2>1
  <2>2. CASE \E o \in S : o > m
    <3>1. PICK o \in S : o > m
      BY <2>2
    <3>2. o >= n - k
      BY <3>1
    <3> QED
      BY <3>2
  <2>3. CASE ~ (\E o \in S : o > m)
    BY <2>3
  <2> QED
    BY <2>1, <2>2, <2>3
<1>3. U = Nat
  <2> HIDE DEF U
  <2>1. U \in SUBSET Nat
    BY DEF U
  <2> QED
    BY <1>1, <1>2, <2>1, Induction
<1>4. n \in U
  BY <1>3
<1>5. PICK m \in S : TRUE
  OBVIOUS
<1>6. m >= n - n /\ ~ (n > n)
  OBVIOUS
<1>7. \E l \in S : \A o \in S : l >= o
  BY <1>4, <1>6
<1> QED
  BY <1>7 DEF Max

(* A prospect of an answer leaves the rows distinct and loses no value.    *)
LEMMA DeduplicatedOK ==
    ASSUME NEW values \in Seq(Values), NEW acc \in Partial(values), NEW raw \in Told
    PROVE  Deduplicated(acc, raw) \in Partial(values)
<1> DEFINE match == FindMatch(acc.entries, raw)
<1>1. /\ acc.entries \in Seq(Merged) /\ acc.values \in Seq(Values) /\ acc.rows \in Seq(Rows)
      /\ Len(acc.values) = Len(acc.entries)
      /\ Len(Existing) <= Len(acc.entries)
      /\ \A e \in 1 .. Len(Existing) : values[e] # NoValue => acc.values[e] # NoValue
      /\ \A i \in DOMAIN acc.rows : acc.rows[i].isNew => IsAmong(acc.rows[i], acc.entries)
      /\ Distinct(acc.rows)
  BY DEF Partial
<1>2. /\ Len(acc.entries) \in Nat /\ Len(acc.rows) \in Nat /\ Len(Existing) \in Nat
      /\ DOMAIN acc.entries = 1 .. Len(acc.entries) /\ DOMAIN acc.values = 1 .. Len(acc.values)
      /\ DOMAIN acc.rows = 1 .. Len(acc.rows)
  BY <1>1, ListsAreTyped
<1>3. raw.field \in Values /\ Create(raw) \in Merged /\ Create(raw) \in Rows
  BY DEF Values, Merged, Rows
<1>4. CASE match = {}
  <2> DEFINE new == Create(raw)
             entries == Append(acc.entries, new)
             more == Append(acc.values, raw.field)
             rows == Append(acc.rows, new)
  <2>1. Deduplicated(acc, raw) = [entries |-> entries, values |-> more, rows |-> rows]
    BY <1>4, Zenon DEF Deduplicated
  <2>2. new.domain = raw.domain /\ new.name = raw.name /\ new.isNew
    BY DEF Create
  <2>3. /\ entries \in Seq(Merged) /\ Len(entries) = Len(acc.entries) + 1 /\ DOMAIN entries = 1 .. Len(acc.entries) + 1
        /\ \A k \in 1 .. Len(acc.entries) : entries[k] = acc.entries[k]
        /\ entries[Len(acc.entries) + 1] = new
    BY <1>1, <1>3
  <2>4. /\ more \in Seq(Values) /\ Len(more) = Len(acc.values) + 1
        /\ \A k \in 1 .. Len(acc.values) : more[k] = acc.values[k]
    BY <1>1, <1>3
  <2>5. /\ rows \in Seq(Rows) /\ DOMAIN rows = 1 .. Len(acc.rows) + 1
        /\ \A k \in 1 .. Len(acc.rows) : rows[k] = acc.rows[k]
        /\ rows[Len(acc.rows) + 1] = new
    BY <1>1, <1>3
  <2> HIDE DEF entries, more, rows, new
  <2>6. \A e \in 1 .. Len(Existing) : values[e] # NoValue => more[e] # NoValue
    BY <1>1, <1>2, <2>4
  <2>7. ASSUME NEW i \in DOMAIN rows, rows[i].isNew PROVE IsAmong(rows[i], entries)
    <3>1. CASE i = Len(acc.rows) + 1
      <4>1. Len(acc.entries) + 1 \in DOMAIN entries /\ entries[Len(acc.entries) + 1] = rows[i]
        BY <1>2, <2>3, <2>5, <3>1
      <4> QED
        BY <4>1 DEF IsAmong
    <3>2. CASE i \in 1 .. Len(acc.rows)
      <4>1. rows[i] = acc.rows[i] /\ i \in DOMAIN acc.rows
        BY <1>2, <2>5, <3>2
      <4>2. PICK k \in DOMAIN acc.entries : acc.entries[k] = rows[i]
        BY <1>1, <2>7, <4>1 DEF IsAmong
      <4>3. k \in DOMAIN entries /\ entries[k] = rows[i]
        BY <1>2, <2>3, <4>2
      <4> QED
        BY <4>3 DEF IsAmong
    <3> QED
      BY <2>5, <3>1, <3>2
  <2>8. ASSUME NEW i \in 1 .. Len(acc.rows), acc.rows[i].isNew
        PROVE  /\ acc.rows[i].name # NoName => acc.rows[i].name # new.name
               /\ new.name # NoName => acc.rows[i].name # new.name
               /\ HasKey(acc.rows[i]) => acc.rows[i].domain # new.domain
               /\ HasKey(new) => acc.rows[i].domain # new.domain
    <3>1. PICK k \in DOMAIN acc.entries : acc.entries[k] = acc.rows[i]
      BY <1>1, <1>2, <2>8 DEF IsAmong
    <3>2. acc.rows[i].name # NoName => acc.rows[i].name # raw.name
      <4> SUFFICES ASSUME acc.rows[i].name # NoName, acc.rows[i].name = raw.name PROVE FALSE
        OBVIOUS
      <4>1. k \in ByName(acc.entries, raw.name)
        BY <3>1 DEF ByName
      <4>2. match # {}
        BY <4>1, Zenon DEF FindMatch
      <4> QED
        BY <1>4, <4>2
    <3>3. HasKey(acc.rows[i]) => acc.rows[i].domain # raw.domain
      <4> SUFFICES ASSUME HasKey(acc.rows[i]), acc.rows[i].domain = raw.domain PROVE FALSE
        OBVIOUS
      <4>1. HasKey(raw) /\ k \in ByDomain(acc.entries, raw.domain)
        BY <3>1 DEF ByDomain, HasKey
      <4>2. match # {}
        BY <4>1, Zenon DEF FindMatch
      <4> QED
        BY <1>4, <4>2
    <3> QED
      BY <2>2, <3>2, <3>3 DEF HasKey
  <2>9. Distinct(rows)
    <3> SUFFICES ASSUME NEW i \in DOMAIN rows, NEW j \in DOMAIN rows, i # j, rows[i].isNew, rows[j].isNew
                 PROVE  /\ rows[i].name # NoName => rows[i].name # rows[j].name
                        /\ HasKey(rows[i]) => rows[i].domain # rows[j].domain
      BY DEF Distinct
    <3>1. CASE i \in 1 .. Len(acc.rows) /\ j \in 1 .. Len(acc.rows)
      <4>1. rows[i] = acc.rows[i] /\ rows[j] = acc.rows[j] /\ i \in DOMAIN acc.rows /\ j \in DOMAIN acc.rows
        BY <1>2, <2>5, <3>1
      <4> QED
        BY <1>1, <4>1 DEF Distinct
    <3>2. CASE i \in 1 .. Len(acc.rows) /\ j = Len(acc.rows) + 1
      BY <2>5, <2>8, <3>2
    <3>3. CASE i = Len(acc.rows) + 1 /\ j \in 1 .. Len(acc.rows)
      BY <2>5, <2>8, <3>3
    <3> QED
      BY <1>2, <2>5, <3>1, <3>2, <3>3
  <2>10. [entries |-> entries, values |-> more, rows |-> rows] \in Partial(values)
    <3> DEFINE v == [entries |-> entries, values |-> more, rows |-> rows]
    <3>1. v \in [entries : Seq(Merged), values : Seq(Values), rows : Seq(Rows)]
      BY <2>3, <2>4, <2>5
    <3>2. v.entries = entries /\ v.values = more /\ v.rows = rows
      OBVIOUS
    <3>3. Len(more) = Len(entries) /\ Len(Existing) <= Len(entries)
      BY <1>1, <1>2, <2>3, <2>4
    <3> HIDE DEF v
    <3>4. v \in Partial(values)
      BY <2>6, <2>7, <2>9, <3>1, <3>2, <3>3 DEF Partial
    <3> QED
      BY <3>4 DEF v
  <2> QED
    BY <2>1, <2>10
<1>5. CASE match # {}
  <2> DEFINE i == Max(match)
             row == Merge(acc.entries[i], raw)
             more == [acc.values EXCEPT ![i] = Latest(acc.values[i], raw.field)]
             rows == Append(acc.rows, row)
  <2>1. Deduplicated(acc, raw) = [entries |-> acc.entries, values |-> more, rows |-> rows]
    BY <1>5, Zenon DEF Deduplicated
  <2>2. match \in SUBSET (1 .. Len(acc.entries))
    BY <1>2 DEF FindMatch, ByName, ByDomain
  <2>3. i \in 1 .. Len(acc.entries)
    BY <1>2, <1>5, <2>2, MaxIsIn
  <2> HIDE DEF i
  <2>4. row \in Rows /\ row.isNew = FALSE
    <3>1. acc.entries[i] \in Merged
      BY <1>1, <2>3
    <3>2. row \in Rows
      BY <3>1 DEF Rows
    <3> QED
      BY <3>2 DEF Merge
  <2>5. Latest(acc.values[i], raw.field) \in Values
        /\ (acc.values[i] # NoValue => Latest(acc.values[i], raw.field) # NoValue)
    BY <1>1, <1>3, <2>3 DEF Latest
  <2> DEFINE latest == Latest(acc.values[i], raw.field)
  <2> HIDE DEF latest
  <2>6. /\ more \in Seq(Values) /\ Len(more) = Len(acc.values)
        /\ \A k \in 1 .. Len(acc.values) : more[k] = IF k = i THEN latest ELSE acc.values[k]
    <3>1. latest \in Values /\ more = [acc.values EXCEPT ![i] = latest]
      BY <2>5 DEF latest
    <3> QED
      BY <1>1, <2>3, <3>1
  <2>7. /\ rows \in Seq(Rows) /\ DOMAIN rows = 1 .. Len(acc.rows) + 1
        /\ \A k \in 1 .. Len(acc.rows) : rows[k] = acc.rows[k]
        /\ rows[Len(acc.rows) + 1] = row
    BY <1>1, <2>4
  <2> HIDE DEF more, rows, row
  <2>8. \A e \in 1 .. Len(Existing) : values[e] # NoValue => more[e] # NoValue
    BY <1>1, <1>2, <2>5, <2>6 DEF latest
  <2>9. ASSUME NEW j \in DOMAIN rows, rows[j].isNew
        PROVE  j \in DOMAIN acc.rows /\ rows[j] = acc.rows[j]
    BY <1>2, <2>4, <2>7, <2>9
  <2>10. \A j \in DOMAIN rows : rows[j].isNew => IsAmong(rows[j], acc.entries)
    BY <1>1, <2>9
  <2>11. Distinct(rows)
    BY <1>1, <2>9 DEF Distinct
  <2>12. [entries |-> acc.entries, values |-> more, rows |-> rows] \in Partial(values)
    BY <1>1, <2>6, <2>7, <2>8, <2>10, <2>11 DEF Partial
  <2> QED
    BY <2>1, <2>12
<1> QED
  BY <1>4, <1>5

(* So does the answer.                                                     *)
LEMMA DeduplicateOK ==
    ASSUME NEW values \in Seq(Values), Len(values) = Len(Existing), NEW answer \in Answers
    PROVE  Deduplicate(values, answer) \in Partial(values)
<1> DEFINE S == Partial(values)
           n == Len(answer)
           base == [entries |-> Existing, values |-> values, rows |-> <<>>]
           step == [x \in S \X (1 .. n) |-> Deduplicated(x[1], answer[x[2]])]
           After(h, i) == IF i = 0 THEN base ELSE Deduplicated(h[i - 1], answer[i])
           after == CHOOSE after : after = [i \in 0 .. n |-> After(after, i)]
<1>1. n \in Nat /\ \A i \in 1 .. n : answer[i] \in Told
  BY ListsAreTyped
<1>2. \A acc \in S, i \in 1 .. n : Deduplicated(acc, answer[i]) \in S
  BY <1>1, DeduplicatedOK
<1>3. base \in S
  <2>1. Existing \in Seq(Merged) /\ <<>> \in Seq(Rows) /\ Len(Existing) \in Nat
    BY ListsAreTyped
  <2>2. base \in [entries : Seq(Merged), values : Seq(Values), rows : Seq(Rows)]
    BY <2>1
  <2>3. base.entries = Existing /\ base.values = values /\ base.rows = <<>>
    OBVIOUS
  <2>4. Distinct(<<>>)
    BY DEF Distinct
  <2> HIDE DEF base
  <2> QED
    BY <2>1, <2>2, <2>3, <2>4 DEF Partial
<1> HIDE DEF S, n, base
<1>4. step \in [S \X (1 .. n) -> S]
  BY <1>2
<1>5. \A acc \in S, i \in 1 .. n : step[<<acc, i>>] = Deduplicated(acc, answer[i])
  OBVIOUS
<1> HIDE DEF step
<1>6. n \in Nat
  BY <1>1
<1>7. Iterates(S, base, n, step)
  BY <1>3, <1>4, <1>6, Iteration
<1>8. PICK g \in [0 .. n -> S] : g[0] = base /\ \A i \in 1 .. n : g[i] = step[<<g[i - 1], i>>]
  BY <1>7, Zenon DEF Iterates
<1>9. g = [i \in 0 .. n |-> After(g, i)]
  <2>1. ASSUME NEW i \in 0 .. n, i # 0 PROVE g[i] = Deduplicated(g[i - 1], answer[i])
    <3>1. i \in 1 .. n /\ i - 1 \in 0 .. n
      BY <1>6, <2>1
    <3> QED
      BY <1>5, <1>8, <3>1
  <2>2. \A i \in 0 .. n : g[i] = After(g, i)
    BY <1>8, <2>1
  <2> HIDE DEF After
  <2> QED
    BY <2>2
<1>10. after = [i \in 0 .. n |-> After(after, i)]
  <2> HIDE DEF After
  <2>1. \E h : h = [i \in 0 .. n |-> After(h, i)]
    BY <1>9, Zenon
  <2> QED
    BY <2>1, Zenon DEF after
<1>11. Deduplicate(values, answer) = after[n]
  BY Zenon DEF Deduplicate, n, base
<1> HIDE DEF after
<1> DEFINE T == {i \in Nat : i <= n => after[i] \in S}
<1>12. 0 \in T
  BY <1>3, <1>6, <1>10
<1>13. ASSUME NEW i \in T PROVE i + 1 \in T
  <2> SUFFICES ASSUME i + 1 <= n PROVE after[i + 1] \in S
    OBVIOUS
  <2>1. i \in Nat /\ after[i] \in S /\ i + 1 \in 1 .. n /\ i + 1 \in 0 .. n /\ i + 1 # 0 /\ (i + 1) - 1 = i
    BY <1>6
  <2>2. after[i + 1] = Deduplicated(after[i], answer[i + 1])
    BY <1>10, <2>1
  <2> QED
    BY <1>2, <2>1, <2>2
<1>14. T = Nat
  <2> HIDE DEF T
  <2>1. T \in SUBSET Nat
    BY DEF T
  <2> QED
    BY <1>12, <1>13, <2>1, Induction
<1>15. after[n] \in S
  BY <1>6, <1>14
<1> QED
  BY <1>11, <1>15 DEF S

-----------------------------------------------------------------------------
\* The health of the source.

Healths == [status : {"active", "suspended", "permanently_suspended"}, failures : Nat,
            suspendedAt : Nat \cup {Never}, attempts : 0 .. MAX_RECOVERY_ATTEMPTS]

(* Every failure counts in the streak, and those that suspended the source *)
(* come before its recoveries.                                             *)
HealthOK ==
    /\ health \in Healths
    /\ health.suspendedAt = Never <=> health.status = "active"
    /\ health.status = "suspended" =>
        /\ health.attempts < MAX_RECOVERY_ATTEMPTS
        /\ streak >= CONSECUTIVE_FAILURE_THRESHOLD + health.attempts
    /\ streak \in Nat
    /\ streak >= health.failures

(* Nobody begins a call within the backoff: who fails then had been        *)
(* waiting when the source was suspended.                                  *)
Backoff ==
    health.status # "active" /\ clock < health.suspendedAt + BACKOFF
        => health.attempts + Cardinality(calling) <= Cardinality(overlapped)

CallsOK ==
    /\ calls \in 0 .. MaxCalls
    /\ calling \subseteq DiscoveryRuns /\ IsFiniteSet(calling)
    /\ IsFiniteSet(overlapped)
    /\ health.failures + Cardinality(calling) <= calls
    /\ clock \in 0 .. MaxTime

KnownOK ==
    /\ known \in Seq(Values)
    /\ Len(known) = Len(Existing)
    /\ Distinct(result.rows)

DiscInv == HealthOK /\ CallsOK /\ Backoff /\ KnownOK

(* The source begins healthy, and nothing is known of anybody.             *)
LEMMA DiscInitially == DiscInit => DiscInv
<1> SUFFICES ASSUME DiscInit PROVE DiscInv
  OBVIOUS
<1>1. /\ health = [status |-> "active", failures |-> 0, suspendedAt |-> Never, attempts |-> 0]
      /\ clock = 0 /\ calling = {} /\ calls = 0 /\ streak = 0 /\ overlapped = {}
      /\ known = [e \in DOMAIN Existing |-> NoValue] /\ result = NoResult
  BY DEF DiscInit
<1>2. {BACKOFF, CONSECUTIVE_FAILURE_THRESHOLD, MAX_RECOVERY_ATTEMPTS} \subseteq Nat \ {0} /\ {MaxTime, MaxCalls} \subseteq Nat
  BY DiscoveryAssumption
<1>3. health \in Healths /\ health.status = "active" /\ health.suspendedAt = Never /\ health.failures = 0
  BY <1>1, <1>2 DEF Healths
<1>4. HealthOK
  BY <1>1, <1>3 DEF HealthOK
<1>5. CallsOK
  BY <1>1, <1>2, <1>3, FS_EmptySet DEF CallsOK
<1>6. Backoff
  BY <1>3 DEF Backoff
<1>7. KnownOK
  <2>1. NoValue \in Values /\ Existing \in Seq(Merged)
    BY ListsAreTyped DEF Values
  <2>2. known \in Seq(Values) /\ Len(known) = Len(Existing)
    BY <1>1, <2>1
  <2>3. Distinct(result.rows)
    BY <1>1 DEF Distinct, NoResult
  <2> QED
    BY <2>2, <2>3 DEF KnownOK
<1> QED
  BY <1>4, <1>5, <1>6, <1>7 DEF DiscInv

(* What the fields of a record are.                                        *)
LEMMA HealthFields ==
    ASSUME NEW h \in Healths
    PROVE  /\ h.status \in {"active", "suspended", "permanently_suspended"} /\ h.failures \in Nat
           /\ h.suspendedAt \in Nat \cup {Never} /\ h.attempts \in 0 .. MAX_RECOVERY_ATTEMPTS
BY DEF Healths

(* _record_success: a source that was given up stays so.                   *)
LEMMA SuccessOK ==
    ASSUME NEW h \in Healths, NEW g, g = RecordSuccess(h)
    PROVE  /\ g \in Healths /\ g.failures = 0
           /\ g.status = IF h.status = "suspended" THEN "active" ELSE h.status
           /\ g.suspendedAt = IF h.status = "suspended" THEN Never ELSE h.suspendedAt
           /\ h.status # "suspended" => g.attempts = h.attempts
<1>1. {MAX_RECOVERY_ATTEMPTS} \subseteq Nat
  BY DiscoveryAssumption
<1>2. CASE h.status = "suspended"
  <2> DEFINE v == [status |-> "active", failures |-> 0, suspendedAt |-> Never, attempts |-> 0]
  <2>1. v \in Healths /\ v.failures = 0 /\ v.status = "active" /\ v.suspendedAt = Never
    BY <1>1 DEF Healths
  <2>2. g = v
    BY <1>2, Zenon DEF RecordSuccess
  <2> HIDE DEF v
  <2> QED
    BY <1>2, <2>1, <2>2
<1>3. CASE h.status # "suspended"
  <2> DEFINE v == [h EXCEPT !.failures = 0]
  <2>1. v \in Healths /\ v.failures = 0 /\ v.status = h.status /\ v.suspendedAt = h.suspendedAt /\ v.attempts = h.attempts
    BY DEF Healths
  <2>2. g = v
    BY <1>3, Zenon DEF RecordSuccess
  <2> HIDE DEF v
  <2> QED
    BY <1>3, <2>1, <2>2
<1> QED
  BY <1>2, <1>3

(* _record_failure: the third in a row suspends, and a recovery that fails *)
(* counts.                                                                 *)
LEMMA FailureOK ==
    ASSUME NEW h \in Healths, clock \in Nat, NEW g, g = RecordFailure(h),
           h.status = "suspended" => h.attempts < MAX_RECOVERY_ATTEMPTS
    PROVE  /\ g \in Healths /\ g.failures = h.failures + 1
           /\ h.status = "active" =>
                \/ g.status = "active" /\ g.suspendedAt = h.suspendedAt
                \/ /\ g.status = "suspended" /\ g.suspendedAt = clock /\ g.attempts = 0
                   /\ g.failures >= CONSECUTIVE_FAILURE_THRESHOLD
           /\ h.status = "suspended" =>
                /\ g.attempts = h.attempts + 1 /\ g.suspendedAt = h.suspendedAt
                /\ \/ g.status = "suspended" /\ g.attempts < MAX_RECOVERY_ATTEMPTS
                   \/ g.status = "permanently_suspended" /\ g.attempts >= MAX_RECOVERY_ATTEMPTS
           /\ h.status = "permanently_suspended" =>
                g.status = h.status /\ g.attempts = h.attempts /\ g.suspendedAt = h.suspendedAt
<1>1. {CONSECUTIVE_FAILURE_THRESHOLD, MAX_RECOVERY_ATTEMPTS} \subseteq Nat \ {0}
  BY DiscoveryAssumption
<1>2. /\ h.status \in {"active", "suspended", "permanently_suspended"} /\ h.failures \in Nat
      /\ h.suspendedAt \in Nat \cup {Never} /\ h.attempts \in 0 .. MAX_RECOVERY_ATTEMPTS
  BY HealthFields
<1> DEFINE more == h.failures + 1
           failed == [h EXCEPT !.failures = more]
<1>3. more \in Nat
  BY <1>2
<1> HIDE DEF more
<1>4. failed \in Healths /\ failed.failures = more /\ failed.status = h.status
      /\ failed.suspendedAt = h.suspendedAt /\ failed.attempts = h.attempts
  BY <1>3 DEF Healths
<1>5. CASE h.status = "active" /\ more >= CONSECUTIVE_FAILURE_THRESHOLD
  <2> DEFINE v == [failed EXCEPT !.status = "suspended", !.suspendedAt = clock, !.attempts = 0]
  <2>1. g = v
    BY <1>4, <1>5, Zenon DEF RecordFailure, more
  <2>3. clock \in Nat \cup {Never} /\ 0 \in 0 .. MAX_RECOVERY_ATTEMPTS
    BY <1>1
  <2> HIDE DEF failed
  <2>2. v \in Healths /\ v.failures = more /\ v.status = "suspended" /\ v.suspendedAt = clock /\ v.attempts = 0
    BY <1>4, <2>3 DEF Healths
  <2> HIDE DEF v
  <2> QED
    BY <1>5, <2>1, <2>2 DEF more
<1>6. CASE h.status = "suspended"
  <2> DEFINE tried == h.attempts + 1
             status == IF tried >= MAX_RECOVERY_ATTEMPTS THEN "permanently_suspended" ELSE h.status
             v == [failed EXCEPT !.attempts = tried, !.status = status]
  <2>1. g = v
    BY <1>4, <1>6, Zenon DEF RecordFailure, more
  <2>2. tried \in 0 .. MAX_RECOVERY_ATTEMPTS
        /\ status \in {"suspended", "permanently_suspended"}
        /\ (status = "suspended" => tried < MAX_RECOVERY_ATTEMPTS)
        /\ (status = "permanently_suspended" => tried >= MAX_RECOVERY_ATTEMPTS)
    BY <1>1, <1>2, <1>6
  <2> HIDE DEF failed, status
  <2>3. v \in Healths /\ v.failures = more /\ v.status = status /\ v.suspendedAt = h.suspendedAt /\ v.attempts = tried
    BY <1>4, <2>2 DEF Healths
  <2> HIDE DEF v
  <2> QED
    BY <1>6, <2>1, <2>2, <2>3 DEF more
<1>7. CASE ~ (h.status = "active" /\ more >= CONSECUTIVE_FAILURE_THRESHOLD) /\ h.status # "suspended"
  <2>1. g = failed
    BY <1>4, <1>7 DEF RecordFailure, more
  <2> HIDE DEF failed
  <2> QED
    BY <1>4, <1>7, <2>1 DEF more
<1> QED
  BY <1>5, <1>6, <1>7

(* An answer leaves the known prospects known.                             *)
LEMMA AnswerOK ==
    ASSUME KnownOK, NEW answer \in Answers,
           NEW values, values = SubSeq(Deduplicate(known, answer).values, 1, Len(Existing)),
           NEW rows, rows = Deduplicate(known, answer).rows
    PROVE  /\ values \in Seq(Values) /\ Len(values) = Len(Existing) /\ Distinct(rows)
           /\ \A e \in 1 .. Len(Existing) : known[e] # NoValue => values[e] # NoValue
<1> DEFINE done == Deduplicate(known, answer)
<1>1. done \in Partial(known)
  BY DeduplicateOK DEF KnownOK
<1> HIDE DEF done
<1>2. /\ done.values \in Seq(Values) /\ Len(done.values) = Len(done.entries)
      /\ Len(Existing) <= Len(done.entries)
      /\ \A e \in 1 .. Len(Existing) : known[e] # NoValue => done.values[e] # NoValue
      /\ Distinct(done.rows)
  BY <1>1 DEF Partial
<1>3. Len(Existing) \in Nat /\ Len(done.values) \in Nat /\ Len(Existing) <= Len(done.values)
  <2>1. Existing \in Seq(Merged)
    BY ListsAreTyped
  <2> QED
    BY <1>2, <2>1
<1>4. values = SubSeq(done.values, 1, Len(Existing)) /\ rows = done.rows
  BY DEF done
<1>5. values \in Seq(Values) /\ Len(values) = Len(Existing) /\ \A e \in 1 .. Len(Existing) : values[e] = done.values[e]
  BY <1>2, <1>3, <1>4
<1> QED
  BY <1>2, <1>4, <1>5

(* What a step may not do to the source and to the values that are known.  *)
SourceKept == GivenUpAfterFailures /\ GivenUpForGood /\ ValuesAreKept

(* Every step keeps the invariant and what has been promised of steps.     *)
LEMMA DiscStep == DiscInv /\ DiscNext => DiscInv' /\ SourceKept
<1> SUFFICES ASSUME DiscInv, DiscNext PROVE DiscInv' /\ SourceKept
  OBVIOUS
<1>1. /\ {BACKOFF, CONSECUTIVE_FAILURE_THRESHOLD, MAX_RECOVERY_ATTEMPTS} \subseteq Nat \ {0}
      /\ {MaxTime, MaxCalls} \subseteq Nat
  BY DiscoveryAssumption
<1>2. /\ health \in Healths /\ (health.suspendedAt = Never <=> health.status = "active")
      /\ health.status = "suspended" =>
            /\ health.attempts < MAX_RECOVERY_ATTEMPTS
            /\ streak >= CONSECUTIVE_FAILURE_THRESHOLD + health.attempts
      /\ streak \in Nat /\ streak >= health.failures
  BY DEF DiscInv, HealthOK
<1>3. /\ health.status \in {"active", "suspended", "permanently_suspended"} /\ health.failures \in Nat
      /\ health.suspendedAt \in Nat \cup {Never} /\ health.attempts \in 0 .. MAX_RECOVERY_ATTEMPTS
  BY <1>2, HealthFields
<1>4. /\ calls \in 0 .. MaxCalls /\ calling \subseteq DiscoveryRuns /\ IsFiniteSet(calling) /\ IsFiniteSet(overlapped)
      /\ health.failures + Cardinality(calling) <= calls /\ clock \in 0 .. MaxTime
  BY DEF DiscInv, CallsOK
<1>5. Cardinality(calling) \in Nat /\ Cardinality(overlapped) \in Nat /\ clock \in Nat
  BY <1>1, <1>4, FS_CardinalityType
<1>6. health.status # "active" /\ clock < health.suspendedAt + BACKOFF
        => health.attempts + Cardinality(calling) <= Cardinality(overlapped)
  BY DEF DiscInv, Backoff
<1>7. KnownOK
  BY DEF DiscInv
<1>8. DOMAIN known = 1 .. Len(Existing)
  BY <1>7 DEF KnownOK
<1>9. ASSUME NEW r \in DiscoveryRuns, BeginRun(r) PROVE DiscInv' /\ SourceKept
  <2>1. /\ r \notin calling /\ MayCall /\ calls < MaxCalls /\ calling' = calling \cup {r} /\ calls' = calls + 1
        /\ UNCHANGED <<health, clock, known, result, streak, overlapped>>
    BY <1>9 DEF BeginRun
  <2>2. IsFiniteSet(calling') /\ Cardinality(calling') = Cardinality(calling) + 1
    BY <1>4, <2>1, FS_AddElement
  <2>3. HealthOK'
    BY <1>2, <2>1 DEF HealthOK
  <2>4. CallsOK'
    BY <1>1, <1>3, <1>4, <1>5, <2>1, <2>2 DEF CallsOK
  <2>5. health.status # "active" => ~ (clock < health.suspendedAt + BACKOFF)
    <3>1. health.status # "active" => health.status = "suspended" /\ CanAttemptRecovery
      BY <1>3, <2>1 DEF MayCall
    <3> QED
      BY <1>1, <1>3, <1>5, <3>1 DEF CanAttemptRecovery, Never
  <2>6. Backoff'
    BY <2>1, <2>5 DEF Backoff
  <2>7. KnownOK'
    BY <1>7, <2>1 DEF KnownOK
  <2>8. SourceKept
    BY <2>1 DEF SourceKept, GivenUpAfterFailures, GivenUpForGood, ValuesAreKept
  <2> QED
    BY <2>3, <2>4, <2>6, <2>7, <2>8 DEF DiscInv
<1>10. ASSUME NEW r \in calling
       PROVE  IsFiniteSet(calling \ {r}) /\ Cardinality(calling \ {r}) = Cardinality(calling) - 1
  BY <1>4, FS_RemoveElement
<1>11. ASSUME NEW r \in DiscoveryRuns, Answer(r) PROVE DiscInv' /\ SourceKept
  <2>1. /\ r \in calling /\ health' = RecordSuccess(health) /\ calling' = calling \ {r} /\ streak' = 0
        /\ UNCHANGED <<clock, calls, overlapped>>
    BY <1>11 DEF Answer
  <2>2. /\ health' \in Healths /\ health'.failures = 0
        /\ health'.status = IF health.status = "suspended" THEN "active" ELSE health.status
        /\ health'.suspendedAt = IF health.status = "suspended" THEN Never ELSE health.suspendedAt
        /\ health.status # "suspended" => health'.attempts = health.attempts
    BY <1>2, <2>1, SuccessOK
  <2>3. HealthOK'
    BY <1>2, <1>3, <2>1, <2>2 DEF HealthOK
  <2>4. CallsOK'
    BY <1>3, <1>4, <1>5, <1>10, <2>1, <2>2 DEF CallsOK
  <2>5. Backoff'
    <3> SUFFICES ASSUME health'.status # "active", clock < health'.suspendedAt + BACKOFF
                 PROVE  health'.attempts + Cardinality(calling') <= Cardinality(overlapped)
      BY <2>1 DEF Backoff
    <3>1. health.status # "suspended" /\ health.status # "active" /\ health'.suspendedAt = health.suspendedAt
          /\ health'.attempts = health.attempts
      BY <2>2
    <3>2. Cardinality(calling') = Cardinality(calling) - 1
      BY <1>10, <2>1
    <3>3. clock < health.suspendedAt + BACKOFF
      BY <3>1
    <3>4. health.attempts + Cardinality(calling) <= Cardinality(overlapped)
      BY <1>6, <3>1, <3>3
    <3> QED
      BY <1>3, <1>5, <3>1, <3>2, <3>4
  <2>6. PICK answer \in Answers :
          /\ known' = SubSeq(Deduplicate(known, answer).values, 1, Len(Existing))
          /\ result' = Summary(Deduplicate(known, answer).rows)
    BY <1>11, Zenon DEF Answer
  <2>7. result'.rows = Deduplicate(known, answer).rows
    BY <2>6 DEF Summary
  <2>8. /\ known' \in Seq(Values) /\ Len(known') = Len(Existing) /\ Distinct(result'.rows)
        /\ \A e \in 1 .. Len(Existing) : known[e] # NoValue => known'[e] # NoValue
    BY <1>7, <2>6, <2>7, AnswerOK
  <2>9. KnownOK'
    BY <2>8 DEF KnownOK
  <2>10. SourceKept
    <3>1. GivenUpAfterFailures
      BY <1>3, <2>2 DEF GivenUpAfterFailures
    <3>2. GivenUpForGood
      BY <2>2 DEF GivenUpForGood
    <3>3. ValuesAreKept
      BY <1>8, <2>8 DEF ValuesAreKept
    <3> QED
      BY <3>1, <3>2, <3>3 DEF SourceKept
  <2> QED
    BY <2>3, <2>4, <2>5, <2>9, <2>10 DEF DiscInv
<1>12. ASSUME NEW r \in DiscoveryRuns, Fail(r) PROVE DiscInv' /\ SourceKept
  <2>1. /\ r \in calling /\ health' = RecordFailure(health) /\ calling' = calling \ {r} /\ streak' = streak + 1
        /\ overlapped' = IF health.status = "active" /\ health'.status = "suspended" THEN calling' ELSE overlapped
        /\ UNCHANGED <<clock, known, result, calls>>
    BY <1>12 DEF Fail
  <2>2. /\ health' \in Healths /\ health'.failures = health.failures + 1
        /\ health.status = "active" =>
             \/ health'.status = "active" /\ health'.suspendedAt = health.suspendedAt
             \/ /\ health'.status = "suspended" /\ health'.suspendedAt = clock /\ health'.attempts = 0
                /\ health'.failures >= CONSECUTIVE_FAILURE_THRESHOLD
        /\ health.status = "suspended" =>
             /\ health'.attempts = health.attempts + 1 /\ health'.suspendedAt = health.suspendedAt
             /\ \/ health'.status = "suspended" /\ health'.attempts < MAX_RECOVERY_ATTEMPTS
                \/ health'.status = "permanently_suspended" /\ health'.attempts >= MAX_RECOVERY_ATTEMPTS
        /\ health.status = "permanently_suspended" =>
             health'.status = health.status /\ health'.attempts = health.attempts
             /\ health'.suspendedAt = health.suspendedAt
    BY <1>2, <1>5, <2>1, FailureOK
  <2>3. IsFiniteSet(calling') /\ Cardinality(calling') = Cardinality(calling) - 1 /\ IsFiniteSet(overlapped')
        /\ Cardinality(calling') \in Nat
    <3>1. IsFiniteSet(calling') /\ Cardinality(calling') = Cardinality(calling) - 1
      BY <1>10, <2>1
    <3>2. IsFiniteSet(overlapped')
      BY <1>4, <2>1, <3>1
    <3> QED
      BY <3>1, <3>2, FS_CardinalityType
  <2>4. HealthOK'
    <3>1. streak' \in Nat /\ streak' >= health'.failures
      BY <1>2, <1>3, <2>1, <2>2
    <3>2. health'.suspendedAt = Never <=> health'.status = "active"
      <4>1. clock # Never
        BY <1>5 DEF Never
      <4> QED
        BY <1>2, <1>3, <2>2, <4>1
    <3>3. health'.status = "suspended" =>
            health'.attempts < MAX_RECOVERY_ATTEMPTS /\ streak' >= CONSECUTIVE_FAILURE_THRESHOLD + health'.attempts
      <4>1. CASE health.status = "active"
        BY <1>1, <1>2, <1>3, <2>1, <2>2, <4>1
      <4>2. CASE health.status = "suspended"
        BY <1>1, <1>2, <1>3, <2>1, <2>2, <4>2
      <4>3. CASE health.status = "permanently_suspended"
        BY <2>2, <4>3
      <4> QED
        BY <1>3, <4>1, <4>2, <4>3
    <3> QED
      BY <2>2, <3>1, <3>2, <3>3 DEF HealthOK
  <2>5. CallsOK'
    BY <1>3, <1>4, <1>5, <2>1, <2>2, <2>3 DEF CallsOK
  <2>6. Backoff'
    <3> SUFFICES ASSUME health'.status # "active", clock < health'.suspendedAt + BACKOFF
                 PROVE  health'.attempts + Cardinality(calling') <= Cardinality(overlapped')
      BY <2>1 DEF Backoff
    <3>1. CASE health.status = "active"
      <4>1. health'.attempts = 0 /\ overlapped' = calling'
        BY <2>1, <2>2, <3>1
      <4> QED
        BY <2>3, <4>1
    <3>2. CASE health.status = "suspended"
      <4>1. health'.attempts = health.attempts + 1 /\ overlapped' = overlapped /\ health'.suspendedAt = health.suspendedAt
        BY <2>1, <2>2, <3>2
      <4> QED
        BY <1>3, <1>5, <1>6, <2>3, <3>2, <4>1
    <3>3. CASE health.status = "permanently_suspended"
      <4>1. health'.attempts = health.attempts /\ overlapped' = overlapped /\ health'.suspendedAt = health.suspendedAt
        BY <2>1, <2>2, <3>3
      <4> QED
        BY <1>3, <1>5, <1>6, <2>3, <3>3, <4>1
    <3> QED
      BY <1>3, <3>1, <3>2, <3>3
  <2>7. KnownOK'
    BY <1>7, <2>1 DEF KnownOK
  <2>8. SourceKept
    <3>1. GivenUpAfterFailures
      <4> SUFFICES ASSUME health.status # "permanently_suspended", health'.status = "permanently_suspended"
                   PROVE  streak' >= CONSECUTIVE_FAILURE_THRESHOLD + MAX_RECOVERY_ATTEMPTS
        BY DEF GivenUpAfterFailures
      <4>1. health.status = "suspended"
        BY <1>3, <2>2
      <4> QED
        BY <1>1, <1>2, <1>3, <2>1, <2>2, <4>1
    <3>2. GivenUpForGood
      BY <2>2 DEF GivenUpForGood
    <3>3. ValuesAreKept
      BY <2>1 DEF ValuesAreKept
    <3> QED
      BY <3>1, <3>2, <3>3 DEF SourceKept
  <2> QED
    BY <2>4, <2>5, <2>6, <2>7, <2>8 DEF DiscInv
<1>13. ASSUME DiscTick PROVE DiscInv' /\ SourceKept
  <2>1. clock < MaxTime /\ clock' = clock + 1
        /\ UNCHANGED <<health, calling, known, result, calls, streak, overlapped>>
    BY <1>13 DEF DiscTick
  <2>2. HealthOK' /\ KnownOK'
    BY <1>2, <1>7, <2>1 DEF HealthOK, KnownOK
  <2>3. CallsOK'
    BY <1>1, <1>4, <2>1 DEF CallsOK
  <2>4. Backoff'
    <3> SUFFICES ASSUME health.status # "active", clock + 1 < health.suspendedAt + BACKOFF
                 PROVE  health.attempts + Cardinality(calling) <= Cardinality(overlapped)
      BY <2>1 DEF Backoff
    <3>1. health.suspendedAt \in Nat
      BY <1>2, <1>3
    <3> QED
      BY <1>1, <1>5, <1>6, <3>1
  <2>5. SourceKept
    BY <2>1 DEF SourceKept, GivenUpAfterFailures, GivenUpForGood, ValuesAreKept
  <2> QED
    BY <2>2, <2>3, <2>4, <2>5 DEF DiscInv
<1> QED
  BY <1>9, <1>11, <1>12, <1>13 DEF DiscNext

(* Stuttering steps included.                                              *)
LEMMA DiscPreserved == DiscInv /\ [DiscNext]_discVars => DiscInv'
<1>1. ASSUME DiscInv, UNCHANGED discVars PROVE DiscInv'
  BY <1>1 DEF discVars, DiscInv, HealthOK, CallsOK, Backoff, KnownOK
<1> QED
  BY <1>1, DiscStep

(* What the invariant says.                                                *)
LEMMA DiscImplies == DiscInv => DiscTypeOK /\ BackoffIsKept /\ NewRowsAreDistinct
<1> SUFFICES ASSUME DiscInv PROVE DiscTypeOK /\ BackoffIsKept /\ NewRowsAreDistinct
  OBVIOUS
<1>1. health \in Healths /\ (health.suspendedAt = Never <=> health.status = "active")
  BY DEF DiscInv, HealthOK
<1>2. /\ health.status \in {"active", "suspended", "permanently_suspended"} /\ health.failures \in Nat
      /\ health.suspendedAt \in Nat \cup {Never} /\ health.attempts \in 0 .. MAX_RECOVERY_ATTEMPTS
  BY <1>1, HealthFields
<1>3. /\ calls \in 0 .. MaxCalls /\ calling \subseteq DiscoveryRuns /\ IsFiniteSet(calling) /\ IsFiniteSet(overlapped)
      /\ health.failures + Cardinality(calling) <= calls /\ clock \in 0 .. MaxTime
  BY DEF DiscInv, CallsOK
<1>4. Cardinality(calling) \in Nat /\ Cardinality(overlapped) \in Nat /\ MaxCalls \in Nat /\ MAX_RECOVERY_ATTEMPTS \in Nat
  BY <1>3, FS_CardinalityType, DiscoveryAssumption
<1>5. DOMAIN known = DOMAIN Existing
  <2>1. known \in Seq(Values) /\ Len(known) = Len(Existing) /\ Existing \in Seq(Merged)
    BY ListsAreTyped DEF DiscInv, KnownOK
  <2> QED
    BY <2>1
<1>6. DiscTypeOK
  <2>1. health.failures \in 0 .. MaxCalls
    BY <1>2, <1>3, <1>4
  <2> QED
    BY <1>1, <1>2, <1>3, <1>5, <2>1 DEF DiscTypeOK
<1>7. BackoffIsKept
  BY <1>2, <1>4 DEF DiscInv, Backoff, BackoffIsKept
<1>8. NewRowsAreDistinct
  BY Zenon DEF DiscInv, KnownOK, Distinct, NewRowsAreDistinct
<1> QED
  BY <1>6, <1>7, <1>8

(* Whatever the source answers, in whatever order overlapping executions   *)
(* end: it is given up only after all its failures and for good, no        *)
(* recovery is counted within the backoff but for those that were waiting, *)
(* the new rows of an answer are companies of their own, and no value of a *)
(* known prospect is lost.                                                 *)
THEOREM DiscoveryHolds == DiscSpec => DiscoverySafety
<1>1. DiscInit /\ [][DiscNext]_discVars => []DiscInv
  BY DiscInitially, DiscPreserved, PTL
<1>2. DiscInv /\ [DiscNext]_discVars => [GivenUpAfterFailures /\ GivenUpForGood /\ ValuesAreKept]_discVars
  BY DiscStep DEF SourceKept
<1> QED
  BY <1>1, <1>2, DiscImplies, PTL DEF DiscSpec, DiscoverySafety

-----------------------------------------------------------------------------
\* The inductive invariant.

Acquires == [pc : {"idle", "get", "sleep", "set", "fallback", "went"},
          asked : Nat, wake : Nat, went : Nat, after : Nat \cup {NoSlot}]

ThrottleTypes ==
    /\ slot \in Nat \cup {NoSlot}
    /\ recorded \in Nat \cup {NoSlot}
    /\ now \in Nat
    /\ caller \in [Callers -> Acquires]

(* The key holds the last moment that was written, and is gone only when   *)
(* that moment is long past.                                               *)
SlotIsRecorded ==
    /\ recorded <= now
    /\ slot = recorded \/ (slot = NoSlot /\ now - recorded >= TTL)

(* What a caller found when it asked is no later than the last moment that *)
(* was written; and each step of the call has waited for what it must.     *)
Spaced(c) ==
    /\ caller[c].after <= recorded
    /\ caller[c].after # NoSlot =>
        /\ At(c, "sleep") => caller[c].wake - caller[c].after >= RATE
        /\ At(c, "set") => now - caller[c].after >= RATE
        /\ At(c, "fallback") => caller[c].wake - caller[c].after >= RATE
        /\ At(c, "went") => caller[c].went - caller[c].after >= RATE

(* A caller at a command is at the tick of its question or of its wake.    *)
Timely(c) ==
    /\ caller[c].asked <= now
    /\ caller[c].went <= now
    /\ At(c, "get") => caller[c].asked = now
    /\ At(c, "sleep") => /\ now <= caller[c].wake
                         /\ caller[c].asked < caller[c].wake
                         /\ caller[c].wake <= caller[c].asked + RATE
    /\ At(c, "set") => now <= caller[c].asked + RATE
    /\ At(c, "fallback") => /\ now <= caller[c].wake
                            /\ caller[c].asked < caller[c].wake
                            /\ caller[c].wake <= caller[c].asked + RATE + FALLBACK

ThrInv == ThrottleTypes /\ SlotIsRecorded /\ \A c \in Callers : Spaced(c) /\ Timely(c)

-----------------------------------------------------------------------------

(* Initially nobody has asked.                                             *)
LEMMA ThrInitially == ThrInit => ThrInv
  BY DEF ThrInit, ThrInv, ThrottleTypes, Acquires, SlotIsRecorded, Spaced, Timely, Idle, NoSlot, At

(* Only c's locals change.                                                 *)
Moved(c, r) ==
    /\ caller' \in [Callers -> Acquires]
    /\ caller'[c] = r
    /\ \A d \in Callers \ {c} : caller'[d] = caller[d]

(* What a step that changes one caller has to keep.                        *)
LEMMA OneCaller ==
  ASSUME ThrInv, NEW c \in Callers, slot' = slot, recorded' = recorded, now' = now,
         caller' \in [Callers -> Acquires], \A d \in Callers \ {c} : caller'[d] = caller[d],
         Spaced(c)', Timely(c)'
  PROVE  ThrInv'
<1>1. ThrottleTypes'
  BY DEF ThrInv, ThrottleTypes
<1>2. SlotIsRecorded'
  BY DEF ThrInv, SlotIsRecorded
<1>3. ASSUME NEW d \in Callers PROVE Spaced(d)' /\ Timely(d)'
  <2>1. CASE d = c
    BY <2>1
  <2>2. CASE d # c
    BY <2>2 DEF ThrInv, ThrottleTypes, Spaced, Timely, At
  <2> QED
    BY <2>1, <2>2
<1> QED
  BY <1>1, <1>2, <1>3 DEF ThrInv

(* Every step keeps it: a caller that waits was told the key that its      *)
(* predecessor wrote, and one that does not wait found none so recent.     *)
LEMMA ThrStep == ThrInv /\ [ThrNext]_thrVars => ThrInv'
<1> SUFFICES ASSUME ThrInv, [ThrNext]_thrVars PROVE ThrInv'
  OBVIOUS
<1> USE ThrottleAssumption
<1>1. ASSUME NEW c \in Callers, Ask(c) PROVE ThrInv'
  <2> DEFINE r == [Idle EXCEPT !.pc = "get", !.asked = now, !.after = recorded]
  <2>1. r \in Acquires
    BY DEF ThrInv, ThrottleTypes, Acquires, Idle, NoSlot
  <2>2. Moved(c, r)
    BY <1>1, <2>1 DEF ThrInv, ThrottleTypes, Ask, Moved
  <2>3. Spaced(c)' /\ Timely(c)'
    BY <1>1, <2>2 DEF ThrInv, ThrottleTypes, Ask, Moved, Spaced, Timely, At, Idle, NoSlot, SlotIsRecorded
  <2> QED
    BY <1>1, <2>2, <2>3, OneCaller DEF Ask, Moved
<1>2. ASSUME NEW c \in Callers, Get(c) PROVE ThrInv'
  <2>1. CASE slot = NoSlot \/ caller[c].asked - slot >= RATE
    <3> DEFINE r == [caller[c] EXCEPT !.pc = "set"]
    <3>1. Moved(c, r)
      BY <1>2, <2>1 DEF ThrInv, ThrottleTypes, Acquires, Moved, Get, Move
    <3>2. Spaced(c)' /\ Timely(c)'
      BY <1>2, <2>1, <3>1 DEF ThrInv, ThrottleTypes, Acquires, Moved, Get, Spaced, Timely, At, NoSlot, SlotIsRecorded
    <3> QED
      BY <1>2, <3>1, <3>2, OneCaller DEF Get, Moved
  <2>2. CASE ~(slot = NoSlot \/ caller[c].asked - slot >= RATE)
    <3> DEFINE wait == RATE - (caller[c].asked - slot)
               r == [caller[c] EXCEPT !.pc = "sleep", !.wake = now + wait]
    <3>0. caller \in [Callers -> Acquires] /\ caller[c] \in Acquires /\ caller[c].asked \in Nat /\ slot \in Nat
      BY <2>2 DEF ThrInv, ThrottleTypes, Acquires
    <3>1. now + wait \in Nat
      BY <2>2, <3>0, <1>2 DEF ThrInv, ThrottleTypes, SlotIsRecorded, Timely, Get, At
    <3>2. r \in Acquires
      BY <3>0, <3>1 DEF Acquires
    <3>3. Moved(c, r)
      BY <1>2, <2>2, <3>0, <3>2 DEF Moved, Get, SleepFor
    <3>4. Spaced(c)' /\ Timely(c)'
      BY <1>2, <2>2, <3>0, <3>3 DEF ThrInv, ThrottleTypes, Acquires, Moved, Get, Spaced, Timely, At, NoSlot, SlotIsRecorded
    <3> QED
      BY <1>2, <3>3, <3>4, OneCaller DEF Get, Moved
  <2> QED
    BY <2>1, <2>2
<1>3. ASSUME NEW c \in Callers, Wake(c) PROVE ThrInv'
  <2> DEFINE r == [caller[c] EXCEPT !.pc = "set"]
  <2>1. Moved(c, r)
    BY <1>3 DEF ThrInv, ThrottleTypes, Acquires, Moved, Wake, Move
  <2>2. Spaced(c)' /\ Timely(c)'
    BY <1>3, <2>1 DEF ThrInv, ThrottleTypes, Acquires, Moved, Wake, Spaced, Timely, At, NoSlot, SlotIsRecorded
  <2> QED
    BY <1>3, <2>1, <2>2, OneCaller DEF Wake, Moved
<1>4. ASSUME NEW c \in Callers, Put(c) PROVE ThrInv'
  <2>1. ThrottleTypes'
    BY <1>4 DEF ThrInv, ThrottleTypes, Acquires, Put
  <2>2. SlotIsRecorded'
    BY <1>4 DEF ThrInv, ThrottleTypes, Put, SlotIsRecorded
  <2>3. ASSUME NEW d \in Callers PROVE Spaced(d)' /\ Timely(d)'
    <3>1. recorded <= now /\ recorded' = now /\ now' = now
      BY <1>4 DEF ThrInv, Put, SlotIsRecorded
    <3>2. CASE d = c
      BY <1>4, <3>1, <3>2 DEF ThrInv, ThrottleTypes, Acquires, Put, Spaced, Timely, At, NoSlot
    <3>3. CASE d # c
      BY <1>4, <3>1, <3>3 DEF ThrInv, ThrottleTypes, Acquires, Put, Spaced, Timely, At, NoSlot
    <3> QED
      BY <3>2, <3>3
  <2> QED
    BY <2>1, <2>2, <2>3 DEF ThrInv
<1>5. ASSUME NEW c \in Callers, RedisFails(c) PROVE ThrInv'
  <2> DEFINE r == [caller[c] EXCEPT !.pc = "fallback", !.wake = now + FALLBACK]
  <2>1. Moved(c, r)
    <3>1. caller \in [Callers -> Acquires] /\ caller[c] \in Acquires /\ now + FALLBACK \in Nat
      BY DEF ThrInv, ThrottleTypes
    <3>2. r \in Acquires
      BY <3>1 DEF Acquires
    <3> QED
      BY <1>5, <3>1, <3>2 DEF Moved, RedisFails, SleepFor
  <2>2. Spaced(c)' /\ Timely(c)'
    BY <1>5, <2>1 DEF ThrInv, ThrottleTypes, Acquires, Moved, RedisFails, Spaced, Timely, At, NoSlot, SlotIsRecorded
  <2> QED
    BY <1>5, <2>1, <2>2, OneCaller DEF RedisFails, Moved
<1>6. ASSUME NEW c \in Callers, GoUnrecorded(c) PROVE ThrInv'
  <2> DEFINE r == [caller[c] EXCEPT !.pc = "went", !.went = now]
  <2>1. Moved(c, r)
    BY <1>6 DEF ThrInv, ThrottleTypes, Acquires, Moved, GoUnrecorded
  <2>2. Spaced(c)' /\ Timely(c)'
    BY <1>6, <2>1 DEF ThrInv, ThrottleTypes, Acquires, Moved, GoUnrecorded, Spaced, Timely, At, NoSlot, SlotIsRecorded
  <2> QED
    BY <1>6, <2>1, <2>2, OneCaller DEF GoUnrecorded, Moved
<1>7. CASE Expire
  BY <1>7 DEF ThrInv, ThrottleTypes, Expire, SlotIsRecorded, Spaced, Timely, At
<1>8. CASE ThrTick
  <2>1. ThrottleTypes' /\ SlotIsRecorded'
    BY <1>8 DEF ThrInv, ThrottleTypes, ThrTick, SlotIsRecorded, NoSlot
  <2>2. ASSUME NEW c \in Callers PROVE Spaced(c)' /\ Timely(c)'
    <3>1. Asleep(c) \/ caller[c].pc \in {"idle", "went"}
      BY <1>8 DEF ThrTick
    <3> QED
      BY <1>8, <3>1 DEF ThrInv, ThrottleTypes, Acquires, ThrTick, Asleep, Spaced, Timely, At, NoSlot
  <2> QED
    BY <2>1, <2>2 DEF ThrInv
<1>9. CASE UNCHANGED thrVars
  BY <1>9 DEF ThrInv, ThrottleTypes, SlotIsRecorded, Spaced, Timely, At, thrVars
<1> QED
  BY <1>1, <1>2, <1>3, <1>4, <1>5, <1>6, <1>7, <1>8, <1>9 DEF ThrNext

(* The invariant says what was promised.                                   *)
LEMMA ThrImplies == ThrInv => ThrottleSafety
<1> SUFFICES ASSUME ThrInv PROVE ThrottleSafety
  OBVIOUS
<1> USE ThrottleAssumption
<1>1. ThrTypeOK
  BY DEF ThrInv, ThrottleTypes, Acquires, Timely, At, ThrTypeOK
<1>2. RequestsAreSpaced
  BY DEF ThrInv, Spaced, RequestsAreSpaced
<1>3. WaitIsBounded
  <2> SUFFICES ASSUME NEW c \in Callers, caller[c].pc \notin {"idle", "went"}
               PROVE  now - caller[c].asked <= RATE + FALLBACK
    BY DEF WaitIsBounded
  <2> QED
    BY DEF ThrInv, ThrottleTypes, Acquires, Timely, At
<1> QED
  BY <1>1, <1>2, <1>3 DEF ThrottleSafety

(* Callers of one domain that do not overlap go a full interval apart,     *)
(* whatever Redis refuses or forgets, and none waits longer than an        *)
(* interval and the delay of a failure.                                    *)
THEOREM ThrottleHolds == ThrSpec => []ThrottleSafety
<1>1. ThrSpec => []ThrInv
  BY ThrInitially, ThrStep, PTL DEF ThrSpec
<1> QED
  BY <1>1, ThrImplies, PTL

-----------------------------------------------------------------------------
\* The inductive invariant.

Evals == [pc : {"idle", "reading", "asking", "storing", "returned", "raised"}, text : Texts \cup {0},
          enrichedNow : BOOLEAN, attempt : 1..MATCHING_TRIES, reply : Int, result : Int]

Entries == [score : 0..100, partial : BOOLEAN, age : Nat, reply : Replies,
            of : [text : Texts, enrichedNow : BOOLEAN]]

EvalTypes ==
    /\ text \in Texts
    /\ enrichedNow \in BOOLEAN
    /\ entry \in [Texts -> Entries \cup {NoEntry}]
    /\ eval \in [Evaluations -> Evals]

(* A call keeps the text it began with until it has stored its score.      *)
CallInv(e) ==
    /\ eval[e].pc \in {"reading", "asking", "storing"} => eval[e].text \in Texts
    /\ eval[e].pc = "storing" => eval[e].reply \in Replies

CacheInv == EvalTypes /\ EntryIsOfItsText /\ \A e \in Evaluations : CallInv(e)

-----------------------------------------------------------------------------

(* Whatever a reply holds, the score is within the bounds.                 *)
LEMMA ParsedWithinBounds == ASSUME NEW reply \in Int PROVE ParsedScore(reply) \in 0..100
  BY DEF ParsedScore

(* Initially nothing is cached.                                            *)
LEMMA CacheInitially == CacheInit => CacheInv
<1> SUFFICES ASSUME CacheInit PROVE CacheInv
  OBVIOUS
<1>1. NoEval \in Evals
  BY RelevanceAssumption DEF NoEval, Evals, Pending
<1>2. EvalTypes
  BY <1>1, RelevanceAssumption DEF CacheInit, EvalTypes
<1>3. EntryIsOfItsText
  BY DEF CacheInit, EntryIsOfItsText
<1>4. \A e \in Evaluations : CallInv(e)
  BY DEF CacheInit, CallInv, NoEval
<1> QED
  BY <1>2, <1>3, <1>4 DEF CacheInv

(* A step of one call that leaves text and cache alone.                    *)
LEMMA OneEval ==
  ASSUME CacheInv, NEW e \in Evaluations, NEW r \in Evals, SetEval(e, r),
         r.pc \in {"reading", "asking", "storing"} => r.text \in Texts,
         r.pc = "storing" => r.reply \in Replies,
         UNCHANGED <<text, enrichedNow, entry>>
  PROVE  CacheInv'
<1>1. EvalTypes'
  BY DEF CacheInv, EvalTypes, SetEval
<1>2. EntryIsOfItsText'
  BY DEF CacheInv, EntryIsOfItsText
<1>3. ASSUME NEW f \in Evaluations PROVE CallInv(f)'
  BY DEF CacheInv, CallInv, EvalTypes, SetEval
<1> QED
  BY <1>1, <1>2, <1>3 DEF CacheInv

(* Every step keeps the invariant.                                         *)
LEMMA CacheStep == CacheInv /\ [CacheNext]_cacheVars => CacheInv'
<1> SUFFICES ASSUME CacheInv, [CacheNext]_cacheVars PROVE CacheInv'
  OBVIOUS
<1>0. NoEval \in Evals
  BY RelevanceAssumption DEF NoEval, Evals, Pending
<1>r. ASSUME NEW e \in Evaluations
      PROVE  eval[e] \in Evals /\ CallInv(e) /\ text \in Texts /\ enrichedNow \in BOOLEAN
  BY DEF CacheInv, EvalTypes
<1>1. ASSUME NEW e \in Evaluations, Evaluate(e) PROVE CacheInv'
  <2> DEFINE r == [NoEval EXCEPT !.pc = "reading", !.text = text, !.enrichedNow = enrichedNow]
  <2>1. r \in Evals /\ r.pc = "reading" /\ r.text = text
    BY <1>0, <1>r DEF Evals, NoEval
  <2> QED
    BY <1>1, <1>r, <2>1, OneEval DEF Evaluate
<1>2. ASSUME NEW e \in Evaluations, ReadCache(e) PROVE CacheInv'
  <2>1. CASE entry[eval[e].text] = NoEntry
    <3> DEFINE r == [eval[e] EXCEPT !.pc = "asking"]
    <3>1. r \in Evals /\ r.pc = "asking" /\ r.text \in Texts
      BY <1>2, <1>r DEF Evals, ReadCache, CallInv
    <3> QED
      BY <1>2, <2>1, <3>1, OneEval DEF ReadCache
  <2>2. CASE entry[eval[e].text] # NoEntry
    <3> DEFINE r == [NoEval EXCEPT !.pc = "returned", !.result = entry[eval[e].text].score]
    <3>1. entry[eval[e].text] \in Entries
      BY <1>2, <1>r, <2>2 DEF ReadCache, CallInv, CacheInv, EvalTypes
    <3>2. entry[eval[e].text].score \in Int
      BY <3>1 DEF Entries
    <3>3. r \in Evals /\ r.pc = "returned"
      BY <1>0, <3>2 DEF Evals, NoEval
    <3> QED
      BY <1>2, <2>2, <3>3, OneEval DEF ReadCache
  <2> QED
    BY <2>1, <2>2
<1>3. ASSUME NEW e \in Evaluations, ProviderReplies(e) PROVE CacheInv'
  <2>1. PICK reply \in Replies : SetEval(e, [eval[e] EXCEPT !.pc = "storing", !.reply = reply])
    BY <1>3 DEF ProviderReplies
  <2> DEFINE r == [eval[e] EXCEPT !.pc = "storing", !.reply = reply]
  <2>2. r \in Evals /\ r.text \in Texts /\ r.reply = reply
    BY <1>3, <1>r, RelevanceAssumption DEF Evals, CallInv, ProviderReplies
  <2> QED
    BY <1>3, <2>1, <2>2, OneEval DEF ProviderReplies
<1>4. ASSUME NEW e \in Evaluations, ProviderFails(e) PROVE CacheInv'
  <2>1. CASE eval[e].attempt < MATCHING_TRIES
    <3> DEFINE r == [eval[e] EXCEPT !.attempt = @ + 1]
    <3>1. r \in Evals /\ r.pc = "asking" /\ r.text \in Texts
      BY <1>4, <1>r, <2>1, RelevanceAssumption DEF Evals, CallInv, ProviderFails
    <3> QED
      BY <1>4, <2>1, <3>1, OneEval DEF ProviderFails
  <2>2. CASE ~ (eval[e].attempt < MATCHING_TRIES)
    <3> DEFINE r == [NoEval EXCEPT !.pc = "returned"]
    <3>1. r \in Evals /\ r.pc = "returned"
      BY <1>0 DEF Evals, NoEval
    <3> QED
      BY <1>4, <2>2, <3>1, OneEval DEF ProviderFails
  <2> QED
    BY <2>1, <2>2
<1>5. ASSUME NEW e \in Evaluations, Store(e) PROVE CacheInv'
  <2> DEFINE score == ParsedScore(eval[e].reply)
             new == [score |-> score, partial |-> ~eval[e].enrichedNow, age |-> 0, reply |-> eval[e].reply,
                     of |-> [text |-> eval[e].text, enrichedNow |-> eval[e].enrichedNow]]
             key == eval[e].text
             r == [NoEval EXCEPT !.pc = "returned", !.result = score]
  <2>1. key \in Texts /\ eval[e].reply \in Replies /\ eval[e].enrichedNow \in BOOLEAN
    BY <1>5, <1>r DEF Store, CallInv, Evals
  <2>2. score \in 0..100
    BY <2>1, ParsedWithinBounds, RelevanceAssumption
  <2>3. new \in Entries
    <3>1. (~eval[e].enrichedNow) \in BOOLEAN
      OBVIOUS
    <3> HIDE DEF score
    <3> QED
      BY <2>1, <2>2, <3>1 DEF Entries
  <2>4. new.of.text = key /\ new.partial = ~new.of.enrichedNow
    OBVIOUS
  <2>5. entry' = [entry EXCEPT ![key] = new] /\ SetEval(e, r)
    BY <1>5 DEF Store, EntryKey, Return
  <2>6. r \in Evals /\ r.pc = "returned"
    <3>1. score \in Int
      BY <2>2
    <3> HIDE DEF score
    <3> QED
      BY <1>0, <3>1 DEF Evals, NoEval
  <2> HIDE DEF new, r
  <2>7. EvalTypes'
    BY <1>5, <2>1, <2>3, <2>5, <2>6 DEF CacheInv, EvalTypes, SetEval, Store
  <2>8. EntryIsOfItsText'
    BY <2>1, <2>4, <2>5 DEF CacheInv, EvalTypes, EntryIsOfItsText
  <2>9. ASSUME NEW f \in Evaluations PROVE CallInv(f)'
    BY <2>5, <2>6 DEF CacheInv, EvalTypes, CallInv, SetEval
  <2> QED
    BY <2>7, <2>8, <2>9 DEF CacheInv
<1>6. ASSUME NEW e \in Evaluations, CallRaises(e) PROVE CacheInv'
  <2> DEFINE r == [NoEval EXCEPT !.pc = "raised"]
  <2>1. CASE SetEval(e, r)
    <3>1. r \in Evals /\ r.pc = "raised"
      BY <1>0 DEF Evals, NoEval
    <3> QED
      BY <1>6, <2>1, <3>1, OneEval DEF CallRaises
  <2> QED
    BY <1>6, <2>1 DEF CallRaises
<1>7. CASE EditText \/ EnrichmentChanges
  <2>1. EvalTypes'
    BY <1>7 DEF EditText, EnrichmentChanges, CacheInv, EvalTypes
  <2>2. EntryIsOfItsText' /\ \A e \in Evaluations : CallInv(e)'
    BY <1>7 DEF EditText, EnrichmentChanges, CacheInv, EntryIsOfItsText, CallInv
  <2> QED
    BY <2>1, <2>2 DEF CacheInv
<1>8. CASE ExpireEntry
  <2>1. PICK v \in Texts : entry' = [entry EXCEPT ![v] = NoEntry]
    BY <1>8 DEF ExpireEntry
  <2>2. EvalTypes'
    BY <1>8, <2>1 DEF ExpireEntry, CacheInv, EvalTypes
  <2>3. EntryIsOfItsText' /\ \A e \in Evaluations : CallInv(e)'
    BY <1>8, <2>1 DEF ExpireEntry, CacheInv, EvalTypes, EntryIsOfItsText, CallInv
  <2> QED
    BY <2>2, <2>3 DEF CacheInv
<1>9. CASE CacheTick
  <2>1. ASSUME NEW v \in Texts, entry[v] # NoEntry
        PROVE  /\ entry'[v] = [entry[v] EXCEPT !.age = @ + 1] /\ entry'[v] \in Entries
               /\ entry'[v].of = entry[v].of /\ entry'[v].partial = entry[v].partial
    BY <1>9, <2>1 DEF CacheTick, CacheInv, EvalTypes, Entries
  <2>2. ASSUME NEW v \in Texts, entry[v] = NoEntry PROVE entry'[v] = NoEntry
    BY <1>9, <2>2 DEF CacheTick
  <2>3. EvalTypes'
    BY <1>9, <2>1, <2>2 DEF CacheTick, CacheInv, EvalTypes
  <2>4. EntryIsOfItsText' /\ \A e \in Evaluations : CallInv(e)'
    BY <1>9, <2>1, <2>2 DEF CacheTick, CacheInv, EntryIsOfItsText, CallInv
  <2> QED
    BY <2>3, <2>4 DEF CacheInv
<1>10. CASE UNCHANGED cacheVars
  BY <1>10 DEF cacheVars, CacheInv, EvalTypes, EntryIsOfItsText, CallInv
<1> QED
  BY <1>1, <1>2, <1>3, <1>4, <1>5, <1>6, <1>7, <1>8, <1>9, <1>10 DEF CacheNext

(* The invariant gives the types.                                          *)
LEMMA CacheTypes == CacheInv => CacheTypeOK
  BY RelevanceAssumption DEF CacheInv, CacheTypeOK, EvalTypes, Entries, Evals

(* An entry becomes younger only when a call has just been answered.       *)
LEMMA CacheAges == CacheInv /\ [CacheNext]_cacheVars => [EntryIsOfItsAge]_cacheVars
<1> SUFFICES ASSUME CacheInv, CacheNext, NEW v \in Texts,
                    entry[v] # NoEntry, entry'[v] # NoEntry, entry'[v].age < entry[v].age
             PROVE  \E e \in Evaluations : eval[e].pc = "storing" /\ eval'[e].pc = "returned"
  BY DEF EntryIsOfItsAge
<1>0. entry[v] \in Entries /\ entry[v].age \in Nat
  BY DEF CacheInv, EvalTypes, Entries
<1>1. CASE \E e \in Evaluations : Store(e)
  <2>1. PICK e \in Evaluations : Store(e)
    BY <1>1
  <2>2. eval[e].pc = "storing" /\ eval'[e].pc = "returned"
    BY <2>1 DEF Store, Return, SetEval, NoEval, CacheInv, EvalTypes
  <2> QED
    BY <2>2
<1>2. CASE CacheTick
  <2>1. entry'[v] = [entry[v] EXCEPT !.age = @ + 1]
    BY <1>2 DEF CacheTick
  <2>2. entry'[v].age = entry[v].age + 1
    BY <1>0, <2>1 DEF Entries
  <2> QED
    BY <1>0, <2>2
<1>3. CASE ExpireEntry
  <2>1. PICK w \in Texts : entry' = [entry EXCEPT ![w] = NoEntry]
    BY <1>3 DEF ExpireEntry
  <2>2. entry'[v] = entry[v]
    BY <2>1 DEF CacheInv, EvalTypes
  <2> QED
    BY <1>0, <2>2
<1>4. CASE UNCHANGED entry
  BY <1>0, <1>4
<1> QED
  BY <1>1, <1>2, <1>3, <1>4
     DEF CacheNext, Evaluate, ReadCache, ProviderReplies, ProviderFails, CallRaises, EditText, EnrichmentChanges

-----------------------------------------------------------------------------

(* What evaluate_relevance takes from its cache is a score of the text it  *)
(* was asked about and at most CACHE_TTL old, for any number of concurrent *)
(* calls, edits in between, replies, retries and errors of Redis.          *)
THEOREM CacheHolds == CacheSpec => CacheSafety
<1>1. CacheSpec => []CacheInv
  BY CacheInitially, CacheStep, PTL DEF CacheSpec
<1>2. CacheInv => CacheTypeOK /\ EntryIsOfItsText
  BY CacheTypes DEF CacheInv
<1> QED
  BY <1>1, <1>2, CacheAges, PTL DEF CacheSpec, CacheSafety

-----------------------------------------------------------------------------
\* ApolloClient.  The contacts an answer leaves.

Contact == [priority : Int, verified : BOOLEAN, reachable : BOOLEAN]

Reached(people) == {i \in DOMAIN people : people[i].reachable}
Ahead(people, j) == {i \in Reached(people) : Before(people, i, j)}
Place(people, j) == Cardinality(Ahead(people, j)) + 1
Nth(people, n) == CHOOSE j \in Reached(people) : Place(people, j) = n
KeptContacts(people) ==
    IF Cardinality(Reached(people)) < MAX_CONTACTS THEN Cardinality(Reached(people)) ELSE MAX_CONTACTS

(* _parse_and_filter_contacts, in these words.                             *)
LEMMA BestContactsAre ==
    ASSUME NEW people
    PROVE  BestContacts(people) = [n \in 1 .. KeptContacts(people) |-> people[Nth(people, n)]]
BY Zenon DEF BestContacts, KeptContacts, Nth, Place, Ahead, Reached

(* The order of the sort is total and strict.                              *)
LEMMA BeforeIsTotal ==
    ASSUME NEW people \in Seq(Contact)
    PROVE  /\ \A i \in DOMAIN people : ~ Before(people, i, i)
           /\ \A i, j \in DOMAIN people : i # j => Before(people, i, j) \/ Before(people, j, i)
           /\ \A i, j, k \in DOMAIN people : Before(people, i, j) /\ Before(people, j, k) => Before(people, i, k)
<1>1. DOMAIN people = 1 .. Len(people) /\ Len(people) \in Nat
  OBVIOUS
<1>2. \A i \in DOMAIN people : people[i] \in Contact
  BY <1>1
<1>3. \A i \in DOMAIN people : people[i].priority \in Int /\ people[i].verified \in BOOLEAN
  BY <1>2 DEF Contact
<1>4. \A i \in DOMAIN people : ~ Before(people, i, i)
  BY <1>1, <1>3 DEF Before, Better
<1>5. \A i, j \in DOMAIN people : i # j => Before(people, i, j) \/ Before(people, j, i)
  BY <1>1, <1>3 DEF Before, Better
<1>6. ASSUME NEW i \in DOMAIN people, NEW j \in DOMAIN people, NEW k \in DOMAIN people,
             Before(people, i, j), Before(people, j, k)
      PROVE  Before(people, i, k)
  BY <1>1, <1>3, <1>6 DEF Before, Better
<1> QED
  BY <1>4, <1>5, <1>6

(* A contact before another has fewer before it.                           *)
LEMMA PlacesFollow ==
    ASSUME NEW people \in Seq(Contact), NEW i \in Reached(people), NEW j \in Reached(people),
           Before(people, i, j)
    PROVE  Place(people, i) < Place(people, j)
<1>1. IsFiniteSet(Reached(people))
  <2>1. Reached(people) \in SUBSET (1 .. Len(people)) /\ Len(people) \in Nat
    BY DEF Reached
  <2>2. IsFiniteSet(1 .. Len(people))
    BY <2>1, FS_Interval
  <2> QED
    BY <2>1, <2>2, FS_Subset
<1>2. Ahead(people, i) \in SUBSET Ahead(people, j) /\ Ahead(people, j) \in SUBSET Reached(people)
  BY BeforeIsTotal DEF Ahead, Reached
<1>3. i \in Ahead(people, j) /\ i \notin Ahead(people, i)
  BY BeforeIsTotal DEF Ahead, Reached
<1>4. IsFiniteSet(Ahead(people, j)) /\ IsFiniteSet(Ahead(people, i))
  BY <1>1, <1>2, FS_Subset
<1>5. Cardinality(Ahead(people, i)) <= Cardinality(Ahead(people, j))
      /\ Cardinality(Ahead(people, i)) # Cardinality(Ahead(people, j))
  BY <1>2, <1>3, <1>4, FS_Subset
<1>6. Cardinality(Ahead(people, i)) \in Nat /\ Cardinality(Ahead(people, j)) \in Nat
  BY <1>4, FS_CardinalityType
<1> QED
  BY <1>5, <1>6 DEF Place

(* The places of the contacts are the numbers from 1, each taken once.     *)
LEMMA EachPlaceIsTaken ==
    ASSUME NEW people \in Seq(Contact)
    PROVE  /\ Cardinality(Reached(people)) \in Nat
           /\ \A j \in Reached(people) : Place(people, j) \in 1 .. Cardinality(Reached(people))
           /\ \A n \in 1 .. Cardinality(Reached(people)) :
                Nth(people, n) \in Reached(people) /\ Place(people, Nth(people, n)) = n
           /\ \A j \in Reached(people) : Nth(people, Place(people, j)) = j
<1> DEFINE R == Reached(people)
           size == Cardinality(R)
           f == [j \in R |-> Place(people, j)]
<1>1. IsFiniteSet(R) /\ size \in Nat
  <2>1. R \in SUBSET (1 .. Len(people)) /\ Len(people) \in Nat
    BY DEF Reached
  <2>2. IsFiniteSet(1 .. Len(people))
    BY <2>1, FS_Interval
  <2>3. IsFiniteSet(R)
    BY <2>1, <2>2, FS_Subset
  <2> QED
    BY <2>3, FS_CardinalityType
<1>2. ASSUME NEW j \in R PROVE Place(people, j) \in 1 .. size
  <2>1. j \notin Ahead(people, j) /\ Ahead(people, j) \in SUBSET R
    BY BeforeIsTotal DEF Ahead, Reached
  <2>2. IsFiniteSet(Ahead(people, j)) /\ Cardinality(Ahead(people, j)) <= size
        /\ (size = Cardinality(Ahead(people, j)) => R = Ahead(people, j))
    BY <1>1, <2>1, FS_Subset
  <2>3. Cardinality(Ahead(people, j)) \in Nat /\ Cardinality(Ahead(people, j)) # size
    BY <2>1, <2>2, FS_CardinalityType
  <2> QED
    BY <1>1, <2>2, <2>3 DEF Place
<1>3. ASSUME NEW i \in R, NEW j \in R, Place(people, i) = Place(people, j) PROVE i = j
  <2>1. Place(people, i) \in Nat
    BY <1>1, <1>2
  <2>2. Before(people, i, j) => Place(people, i) < Place(people, j)
    BY PlacesFollow
  <2>3. Before(people, j, i) => Place(people, j) < Place(people, i)
    BY PlacesFollow
  <2>4. i # j => Before(people, i, j) \/ Before(people, j, i)
    BY BeforeIsTotal DEF Reached
  <2> QED
    BY <1>3, <2>1, <2>2, <2>3, <2>4
<1>4. f \in Injection(R, 1 .. size)
  BY <1>2, <1>3 DEF Injection, IsInjective
<1>5. f \in Surjection(R, 1 .. size)
  <2>1. IsFiniteSet(1 .. size) /\ Cardinality(1 .. size) = size
    BY <1>1, FS_Interval
  <2> QED
    BY <1>4, <2>1, FS_Injection
<1>6. ASSUME NEW n \in 1 .. size
      PROVE  Nth(people, n) \in R /\ Place(people, Nth(people, n)) = n
  <2>1. \E j \in R : Place(people, j) = n
    BY <1>5 DEF Surjection
  <2> QED
    BY <2>1 DEF Nth
<1>7. ASSUME NEW j \in R PROVE Nth(people, Place(people, j)) = j
  BY <1>2, <1>3, <1>6
<1> QED
  BY <1>1, <1>2, <1>6, <1>7

(* What is kept can be reached, and is as good as what is left out.        *)
Best(found, pool) ==
    \A k \in Range(found), p \in Range(pool) :
        /\ k.reachable
        /\ p.reachable /\ p \notin Range(found) => ~ Better(p, k)

(* Of the contacts that can be reached, none that is left out is better    *)
(* than one that is kept.                                                  *)
LEMMA BestContactsAreBest ==
    ASSUME NEW people \in Seq(Contact)
    PROVE  Best(BestContacts(people), people)
<1> DEFINE R == Reached(people)
           size == KeptContacts(people)
           found == BestContacts(people)
<1>1. found = [n \in 1 .. size |-> people[Nth(people, n)]]
  BY BestContactsAre
<1>2. size \in Nat /\ size <= Cardinality(R) /\ Cardinality(R) \in Nat
  BY EachPlaceIsTaken, ApolloAssumption DEF KeptContacts
<1> HIDE DEF size, found
<1> SUFFICES ASSUME NEW k \in Range(found), NEW p \in Range(people)
             PROVE  k.reachable /\ (p.reachable /\ p \notin Range(found) => ~ Better(p, k))
  BY DEF Best, found
<1>3. PICK n \in 1 .. size : k = people[Nth(people, n)]
  BY <1>1 DEF Range
<1>4. Nth(people, n) \in R /\ Place(people, Nth(people, n)) = n
  BY <1>2, EachPlaceIsTaken
<1>5. k.reachable
  BY <1>3, <1>4 DEF Reached
<1>6. ASSUME p.reachable, Better(p, k) PROVE p \in Range(found)
  <2>1. PICK i \in DOMAIN people : p = people[i]
    BY DEF Range
  <2>2. i \in R /\ Before(people, i, Nth(people, n))
    BY <1>3, <1>6, <2>1 DEF Reached, Before
  <2>3. Place(people, i) < n /\ Place(people, i) \in 1 .. Cardinality(R)
    BY <1>4, <2>2, PlacesFollow, EachPlaceIsTaken
  <2>4. Place(people, i) \in 1 .. size
    BY <1>2, <2>3
  <2>5. Nth(people, Place(people, i)) = i
    BY <2>2, EachPlaceIsTaken
  <2>6. found[Place(people, i)] = p /\ Place(people, i) \in DOMAIN found
    BY <1>1, <2>1, <2>4, <2>5
  <2> QED
    BY <2>6 DEF Range
<1> QED
  BY <1>5, <1>6

-----------------------------------------------------------------------------
\* The calls.

Founds == {BestContacts(people) : people \in People} \cup {FirstSignals(raw) : raw \in Signals} \cup {<<>>}

Lookups == [pc : {"idle", "asking", "waiting", "done"}, broad : BOOLEAN, attempt : 1 .. APOLLO_TRIES,
            outcome : {"none", "complete", "broadened_search", "contacts_unavailable", "answered",
                       "pending_retry", "RateLimitError", "Exception"},
            found : Founds, first : {"none", "empty"}, pool : People \cup {<<>>}]

(* A call has found nothing until it ends, and what it has found then is   *)
(* the best of its last answer.                                            *)
LookupOK(c, call) ==
    /\ call.outcome # "none" <=> call.pc = "done"
    /\ call.pc = "waiting" => call.attempt < APOLLO_TRIES
    /\ call.pc # "done" => call.found = <<>>
    /\ call.broad \/ call.outcome \in {"broadened_search", "contacts_unavailable"} => call.first = "empty"
    /\ CallKind[c] = "contacts" => Best(call.found, call.pool)

LookupInv == lookup \in [ApolloCalls -> Lookups] /\ \A c \in ApolloCalls : LookupOK(c, lookup[c])

(* Of nothing found there is none to complain of.                          *)
LEMMA NothingFound == ASSUME NEW pool PROVE Best(<<>>, pool)
<1>1. Range(<<>>) = {}
  BY DEF Range
<1> QED
  BY <1>1 DEF Best

(* A call before its first request.                                        *)
LEMMA NoLookupOK == NoLookup \in Lookups /\ \A c \in ApolloCalls : LookupOK(c, NoLookup)
<1>1. NoLookup \in Lookups
  BY ApolloAssumption DEF NoLookup, Lookups, Founds
<1>2. NoLookup.outcome = "none" /\ NoLookup.pc = "idle" /\ NoLookup.found = <<>> /\ NoLookup.broad = FALSE
  BY DEF NoLookup
<1> QED
  BY <1>1, <1>2, NothingFound DEF LookupOK

(* A step of one call leaves the others, and the batch.                    *)
LEMMA OneLookup ==
    ASSUME LookupInv, NEW c \in ApolloCalls, NEW value, SetLookup(c, value),
           value \in Lookups, LookupOK(c, value)
    PROVE  LookupInv'
<1>1. lookup' = [lookup EXCEPT ![c] = value] /\ lookup \in [ApolloCalls -> Lookups]
  BY DEF SetLookup, LookupInv
<1>2. lookup' \in [ApolloCalls -> Lookups]
  BY <1>1
<1>3. ASSUME NEW d \in ApolloCalls PROVE LookupOK(d, lookup'[d])
  <2>1. lookup'[d] = IF d = c THEN value ELSE lookup[d]
    BY <1>1
  <2> QED
    BY <2>1, Zenon DEF LookupInv
<1> QED
  BY <1>2, <1>3 DEF LookupInv, LookupOK

(* The answer of a search ends the call as it should, or broadens it.      *)
LEMMA SearchedOK ==
    ASSUME NEW c \in ApolloCalls, NEW call \in Lookups, LookupOK(c, call), call.pc = "asking", NEW people \in People
    PROVE  LET value == Searched([call EXCEPT !.pool = people], people)
           IN  value \in Lookups /\ LookupOK(c, value)
<1> DEFINE asked == [call EXCEPT !.pool = people]
           value == Searched(asked, people)
           contacts == BestContacts(people)
<1>1. asked \in Lookups /\ asked.pc = "asking" /\ asked.broad = call.broad /\ asked.pool = people
      /\ asked.found = call.found /\ asked.first = call.first /\ asked.outcome = call.outcome
  BY DEF Lookups
<1>2. contacts \in Founds /\ <<>> \in Founds
  BY DEF Founds
<1>3. Best(contacts, people)
  BY BestContactsAreBest, ApolloAssumption DEF Contact
<1>4. call.found = <<>> /\ call.outcome = "none" /\ (call.broad => call.first = "empty")
  BY DEF LookupOK
<1>5. call.broad \in BOOLEAN
  BY DEF Lookups
<1>6. 1 \in 1 .. APOLLO_TRIES
  BY ApolloAssumption
<1> HIDE DEF asked, contacts
<1>7. CASE contacts # <<>>
  <2> DEFINE v == [asked EXCEPT !.pc = "done", !.found = contacts,
                                !.outcome = IF asked.broad THEN "broadened_search" ELSE "complete"]
  <2>1. value = v
    BY <1>7 DEF Searched, contacts
  <2>2. v \in Lookups
    BY <1>1, <1>2 DEF Lookups
  <2>3. v.pc = "done" /\ v.found = contacts /\ v.pool = people /\ v.first = call.first /\ v.broad = call.broad
        /\ v.outcome = IF call.broad THEN "broadened_search" ELSE "complete"
    BY <1>1 DEF Lookups
  <2> HIDE DEF v
  <2>4. LookupOK(c, v)
    BY <1>3, <1>4, <1>5, <2>3 DEF LookupOK
  <2> QED
    BY <2>1, <2>2, <2>4 DEF asked
<1>8. CASE contacts = <<>> /\ ~ call.broad
  <2> DEFINE v == [asked EXCEPT !.broad = TRUE, !.attempt = 1, !.first = "empty"]
  <2>1. value = v
    BY <1>1, <1>8 DEF Searched, contacts
  <2>2. v \in Lookups
    BY <1>1, <1>6 DEF Lookups
  <2>3. v.pc = "asking" /\ v.found = <<>> /\ v.pool = people /\ v.first = "empty" /\ v.outcome = "none"
    BY <1>1, <1>4 DEF Lookups
  <2> HIDE DEF v
  <2>4. LookupOK(c, v)
    BY <2>3, NothingFound DEF LookupOK
  <2> QED
    BY <2>1, <2>2, <2>4 DEF asked
<1>9. CASE contacts = <<>> /\ call.broad
  <2> DEFINE v == [asked EXCEPT !.pc = "done", !.outcome = "contacts_unavailable"]
  <2>1. value = v
    BY <1>1, <1>9 DEF Searched, contacts
  <2>2. v \in Lookups
    BY <1>1 DEF Lookups
  <2>3. v.pc = "done" /\ v.found = <<>> /\ v.pool = people /\ v.first = call.first
        /\ v.outcome = "contacts_unavailable"
    BY <1>1, <1>4 DEF Lookups
  <2> HIDE DEF v
  <2>4. LookupOK(c, v)
    BY <1>4, <1>9, <2>3, NothingFound DEF LookupOK
  <2> QED
    BY <2>1, <2>2, <2>4 DEF asked
<1> QED
  BY <1>5, <1>7, <1>8, <1>9 DEF asked

(* The calls keep what they must, step by step.                            *)
LEMMA LookupStep == LookupInv /\ LookupNext => LookupInv'
<1> SUFFICES ASSUME LookupInv, NEW c \in ApolloCalls,
                    BeginLookup(c) \/ Answers200(c) \/ CallRaised(c) \/ AnswerFails(c) \/ RetryLookup(c)
             PROVE  LookupInv'
  BY Zenon DEF LookupNext
<1> DEFINE call == lookup[c]
<1>1. call \in Lookups /\ LookupOK(c, call)
  BY DEF LookupInv
<1>2. /\ call.pc \in {"idle", "asking", "waiting", "done"} /\ call.attempt \in 1 .. APOLLO_TRIES
      /\ APOLLO_TRIES \in Nat /\ call.broad \in BOOLEAN
  BY <1>1, ApolloAssumption DEF Lookups
<1>3. CASE BeginLookup(c)
  <2> DEFINE v == [NoLookup EXCEPT !.pc = "asking"]
  <2>1. v \in Lookups
    BY NoLookupOK DEF Lookups
  <2>2. v.outcome = "none" /\ v.pc = "asking" /\ v.found = <<>> /\ v.broad = FALSE
    BY DEF NoLookup
  <2>3. SetLookup(c, v)
    BY <1>3 DEF BeginLookup
  <2> HIDE DEF v
  <2>4. LookupOK(c, v)
    BY <2>2, NothingFound DEF LookupOK
  <2> QED
    BY <2>1, <2>3, <2>4, OneLookup
<1>4. CASE Answers200(c)
  <2>1. call.pc = "asking"
    BY <1>4 DEF Answers200
  <2>2. ASSUME NEW people \in People, SetLookup(c, Searched([call EXCEPT !.pool = people], people))
        PROVE  LookupInv'
    BY <1>1, <2>1, <2>2, SearchedOK, OneLookup
  <2>3. ASSUME CallKind[c] = "intent", NEW raw \in Signals,
               SetLookup(c, [call EXCEPT !.pc = "done", !.outcome = "answered", !.found = FirstSignals(raw)])
        PROVE  LookupInv'
    <3> DEFINE v == [call EXCEPT !.pc = "done", !.outcome = "answered", !.found = FirstSignals(raw)]
    <3>1. FirstSignals(raw) \in Founds
      BY DEF Founds
    <3>2. v \in Lookups /\ v.pc = "done" /\ v.outcome = "answered" /\ v.broad = call.broad /\ v.first = call.first
      BY <1>1, <3>1 DEF Lookups
    <3> HIDE DEF v
    <3>3. LookupOK(c, v)
      BY <1>1, <2>3, <3>2 DEF LookupOK
    <3> QED
      BY <2>3, <3>2, <3>3, OneLookup DEF v
  <2> QED
    BY <1>4, <2>2, <2>3, Zenon DEF Answers200
<1>5. CASE CallRaised(c)
  <2>0. PICK error \in {"RateLimitError", "Exception"} :
               SetLookup(c, [call EXCEPT !.pc = "done", !.outcome = error]) /\ call.pc = "asking"
    BY <1>5 DEF CallRaised
  <2> DEFINE v == [call EXCEPT !.pc = "done", !.outcome = error]
  <2>1. v \in Lookups /\ v.pc = "done" /\ v.outcome = error /\ v.broad = call.broad
        /\ v.first = call.first /\ v.found = call.found /\ v.pool = call.pool
    BY <1>1 DEF Lookups
  <2>2. SetLookup(c, v) /\ call.pc = "asking"
    BY <2>0
  <2> HIDE DEF v
  <2>3. LookupOK(c, v)
    BY <1>1, <2>1, <2>2 DEF LookupOK
  <2> QED
    BY <2>1, <2>2, <2>3, OneLookup
<1>6. CASE AnswerFails(c) /\ call.attempt < APOLLO_TRIES
  <2> DEFINE v == [call EXCEPT !.pc = "waiting"]
  <2>1. v \in Lookups /\ v.pc = "waiting" /\ v.outcome = call.outcome /\ v.broad = call.broad
        /\ v.first = call.first /\ v.found = call.found /\ v.pool = call.pool /\ v.attempt = call.attempt
    BY <1>1 DEF Lookups
  <2>2. SetLookup(c, v) /\ call.pc = "asking"
    BY <1>6 DEF AnswerFails
  <2> HIDE DEF v
  <2>3. LookupOK(c, v)
    BY <1>1, <1>6, <2>1, <2>2 DEF LookupOK
  <2> QED
    BY <2>1, <2>2, <2>3, OneLookup
<1>7. CASE AnswerFails(c) /\ ~ (call.attempt < APOLLO_TRIES)
  <2> DEFINE o == IF CallKind[c] = "contacts" THEN "pending_retry" ELSE "answered"
             v == [call EXCEPT !.pc = "done", !.outcome = o]
  <2>0. o \in {"pending_retry", "answered"}
    OBVIOUS
  <2> HIDE DEF o
  <2>1. v \in Lookups /\ v.pc = "done" /\ v.outcome = o /\ v.broad = call.broad
        /\ v.first = call.first /\ v.found = call.found /\ v.pool = call.pool
    BY <1>1, <2>0 DEF Lookups
  <2>2. SetLookup(c, v) /\ call.pc = "asking"
    BY <1>7 DEF AnswerFails, Exhausted, o
  <2> HIDE DEF v
  <2>3. LookupOK(c, v)
    BY <1>1, <2>0, <2>1, <2>2 DEF LookupOK
  <2> QED
    BY <2>1, <2>2, <2>3, OneLookup
<1>8. CASE RetryLookup(c)
  <2> DEFINE v == [call EXCEPT !.pc = "asking", !.attempt = call.attempt + 1]
  <2>0. call.pc = "waiting" /\ SetLookup(c, v)
    BY <1>8 DEF RetryLookup
  <2>1. call.attempt + 1 \in 1 .. APOLLO_TRIES
    BY <1>1, <1>2, <2>0 DEF LookupOK
  <2>2. v \in Lookups /\ v.pc = "asking" /\ v.outcome = call.outcome /\ v.broad = call.broad
        /\ v.first = call.first /\ v.found = call.found /\ v.pool = call.pool
    BY <1>1, <2>1 DEF Lookups
  <2> HIDE DEF v
  <2>3. LookupOK(c, v)
    BY <1>1, <2>0, <2>2 DEF LookupOK
  <2> QED
    BY <2>0, <2>2, <2>3, OneLookup
<1> QED
  BY <1>3, <1>4, <1>5, <1>6, <1>7, <1>8

-----------------------------------------------------------------------------
\* The batch and its window.

Batches == [pc : {"begin", "throttled", "asking", "waiting", "returned", "raised"}, next : Nat \ {0},
            attempt : 1 .. APOLLO_TRIES, wake : Nat, results : Seq({"complete", "not_found", "enrichment_failed"})]

BatchTypes ==
    /\ bulk \in Batches
    /\ bulk.pc # "raised" => Len(bulk.results) = bulk.next - 1
    /\ bulk.pc = "waiting" => bulk.attempt < APOLLO_TRIES
    /\ tick \in Nat
    /\ stamps \in Seq(Nat)
    /\ requests \in Seq([at : Nat, retry : BOOLEAN])

(* Each moment of the window is that of a request, and every first request *)
(* that is still recent at a moment has its own there.                     *)
Covers(f, times, made, moment) ==
    /\ f \in [1 .. Len(times) -> 1 .. Len(made)]
    /\ \A k \in 1 .. Len(times) : made[f[k]].at = times[k]
    /\ \A n \in 1 .. Len(made) :
        ~ made[n].retry /\ moment - made[n].at < WINDOW => \E k \in 1 .. Len(times) : f[k] = n

Covered(times, made, moment) == \E f : Covers(f, times, made, moment)

FirstOnes(n, made) == {i \in InWindow(n, made) : ~ made[i].retry}
AreLimited(made) == \A n \in DOMAIN made : Cardinality(FirstOnes(n, made)) <= RATE_LIMIT

Window ==
    Domains > BATCH_THRESHOLD =>
        /\ Len(stamps) <= RATE_LIMIT
        /\ Covered(stamps, requests, tick)
        /\ bulk.pc = "throttled" => stamps # <<>> /\ bulk.wake = stamps[1] + WINDOW
        /\ AreLimited(requests)

BatchInv == BatchTypes /\ Window

Requests == [at : Nat, retry : BOOLEAN]

(* What the window keeps of its moments: fewer when the first is gone.     *)
LEMMA RecentOK ==
    ASSUME NEW times \in Seq(Nat), tick \in Nat
    PROVE  /\ Recent(times) \in Seq(Nat)
           /\ Len(Recent(times)) <= Len(times)
           /\ times # <<>> /\ tick - times[1] >= WINDOW => Len(Recent(times)) < Len(times)
           /\ \E at \in [1 .. Len(Recent(times)) -> 1 .. Len(times)] :
                /\ \A i \in 1 .. Len(Recent(times)) : Recent(times)[i] = times[at[i]]
                /\ \A k \in 1 .. Len(times) : tick - times[k] < WINDOW => \E i \in 1 .. Len(Recent(times)) : at[i] = k
<1> DEFINE keep == {t \in Range(times) : tick - t < WINDOW}
           kept == Kept(times, keep)
<1>1. PICK at : Remains(kept, at, times, keep, Len(times))
  BY KeptProperties
<1>2. kept \in Seq(Nat) /\ Len(kept) \in Nat /\ Len(times) \in Nat
  <2>1. kept \in Seq(Nat)
    BY KeptProperties
  <2> QED
    BY <2>1
<1>3. Recent(times) = kept
  BY DEF Recent
<1>4. \A k \in 1 .. Len(times) : times[k] \in keep <=> tick - times[k] < WINDOW
  BY DEF Range
<1> HIDE DEF keep, kept
<1>5. Len(kept) <= Len(times)
  <2>1. Len(kept) \in 1 .. Len(kept) => at[Len(kept)] \in 1 .. Len(times) /\ Len(kept) <= at[Len(kept)]
    BY <1>1 DEF Remains
  <2> QED
    BY <1>2, <2>1
<1>6. ASSUME times # <<>>, tick - times[1] >= WINDOW PROVE Len(kept) < Len(times)
  <2>1. 1 \in 1 .. Len(times) /\ times[1] \in Nat
    BY <1>2, <1>6
  <2>2. times[1] \notin keep
    BY <1>4, <1>6, <2>1, ApolloAssumption
  <2>3. ASSUME Len(kept) = Len(times) PROVE FALSE
    <3> DEFINE all == 1 .. Len(times)
    <3>1. IsFiniteSet(all)
      BY <1>2, FS_Interval
    <3>2. at \in [all -> all] /\ \A i, j \in all : i < j => at[i] < at[j]
      BY <1>1, <2>3 DEF Remains
    <3>3. at \in Injection(all, all)
      <4>1. ASSUME NEW i \in all, NEW j \in all, at[i] = at[j] PROVE i = j
        <5>0. \A k \in all : k \in Nat
          BY <1>2
        <5>1. at[i] \in Nat /\ at[j] \in Nat /\ i \in Nat /\ j \in Nat
          BY <3>2, <4>1, <5>0, Zenon
        <5> QED
          BY <3>2, <4>1, <5>1
      <4> QED
        BY <3>2, <4>1 DEF Injection, IsInjective
    <3>4. at \in Surjection(all, all)
      BY <3>1, <3>3, FS_Injection
    <3>5. PICK i \in all : at[i] = 1
      BY <2>1, <3>4 DEF Surjection
    <3>6. kept[i] = times[1] /\ kept[i] \in keep
      BY <1>1, <2>3, <3>5 DEF Remains
    <3> QED
      BY <2>2, <3>6
  <2> QED
    BY <1>2, <1>5, <2>3
<1>7. /\ at \in [1 .. Len(kept) -> 1 .. Len(times)]
      /\ \A i \in 1 .. Len(kept) : kept[i] = times[at[i]]
      /\ \A k \in 1 .. Len(times) : tick - times[k] < WINDOW => \E i \in 1 .. Len(kept) : at[i] = k
  BY <1>1, <1>4 DEF Remains
<1> QED
  BY <1>2, <1>3, <1>5, <1>6, <1>7

(* The window may forget what is not recent.                               *)
LEMMA RecentCovers ==
    ASSUME NEW times \in Seq(Nat), NEW made \in Seq(Requests), tick \in Nat, Covered(times, made, tick)
    PROVE  Covered(Recent(times), made, tick)
<1>1. PICK f : Covers(f, times, made, tick)
  BY DEF Covered
<1>2. PICK at \in [1 .. Len(Recent(times)) -> 1 .. Len(times)] :
        /\ \A i \in 1 .. Len(Recent(times)) : Recent(times)[i] = times[at[i]]
        /\ \A k \in 1 .. Len(times) : tick - times[k] < WINDOW => \E i \in 1 .. Len(Recent(times)) : at[i] = k
  BY RecentOK
<1> DEFINE g == [i \in 1 .. Len(Recent(times)) |-> f[at[i]]]
<1>3. g \in [1 .. Len(Recent(times)) -> 1 .. Len(made)]
  BY <1>1, <1>2 DEF Covers
<1>4. ASSUME NEW i \in 1 .. Len(Recent(times)) PROVE made[g[i]].at = Recent(times)[i]
  BY <1>1, <1>2 DEF Covers
<1>5. ASSUME NEW n \in 1 .. Len(made), ~ made[n].retry, tick - made[n].at < WINDOW
      PROVE  \E i \in 1 .. Len(Recent(times)) : g[i] = n
  <2>1. PICK k \in 1 .. Len(times) : f[k] = n
    BY <1>1, <1>5 DEF Covers
  <2>2. times[k] = made[n].at
    BY <1>1, <2>1 DEF Covers
  <2>3. PICK i \in 1 .. Len(Recent(times)) : at[i] = k
    BY <1>2, <1>5, <2>2
  <2> QED
    BY <2>1, <2>3
<1> HIDE DEF g
<1>6. Covers(g, Recent(times), made, tick)
  BY <1>3, <1>4, <1>5 DEF Covers
<1> QED
  BY <1>6 DEF Covered

(* Of the requests that a window covers, no more are recent than it has    *)
(* moments.                                                                *)
LEMMA FewAreRecent ==
    ASSUME NEW times \in Seq(Nat), NEW made \in Seq(Requests), NEW moment \in Nat, Covered(times, made, moment),
           NEW few \in SUBSET {n \in 1 .. Len(made) : ~ made[n].retry /\ moment - made[n].at < WINDOW}
    PROVE  Cardinality(few) <= Len(times) /\ Cardinality(few) \in Nat
<1>1. PICK f : Covers(f, times, made, moment)
  BY DEF Covered
<1> DEFINE slots == 1 .. Len(times)
           image == {f[k] : k \in slots}
<1>2. IsFiniteSet(slots) /\ Cardinality(slots) = Len(times) /\ Len(times) \in Nat
  <2>1. Len(times) \in Nat
    OBVIOUS
  <2>2. ASSUME NEW n \in Nat PROVE IsFiniteSet(1 .. n) /\ Cardinality(1 .. n) = n
    BY FS_Interval
  <2> QED
    BY <2>1, <2>2
<1>3. f \in Surjection(slots, image)
  <2>1. f \in [slots -> image]
    BY <1>1 DEF Covers
  <2> QED
    BY <2>1 DEF Surjection
<1>4. IsFiniteSet(image) /\ Cardinality(image) <= Len(times)
  BY <1>2, <1>3, FS_Surjection
<1>5. few \in SUBSET image
  BY <1>1 DEF Covers
<1>6. IsFiniteSet(few) /\ Cardinality(few) <= Cardinality(image)
  BY <1>4, <1>5, FS_Subset
<1>7. Cardinality(few) \in Nat /\ Cardinality(image) \in Nat
  BY <1>4, <1>6, FS_CardinalityType
<1> QED
  BY <1>2, <1>4, <1>6, <1>7

(* Time makes a request no more recent.                                    *)
LEMMA LaterCovered ==
    ASSUME NEW times, NEW made \in Seq(Requests), NEW moment \in Nat, Covered(times, made, moment)
    PROVE  Covered(times, made, moment + 1)
<1>1. PICK f : Covers(f, times, made, moment)
  BY DEF Covered
<1>2. \A n \in 1 .. Len(made) : made[n] \in Requests
  OBVIOUS
<1>3. ASSUME NEW n \in 1 .. Len(made), ~ made[n].retry, (moment + 1) - made[n].at < WINDOW
      PROVE  \E k \in 1 .. Len(times) : f[k] = n
  <2>1. moment - made[n].at < WINDOW
    BY <1>2, <1>3, ApolloAssumption DEF Requests
  <2> QED
    BY <1>1, <1>3, <2>1 DEF Covers
<1>4. Covers(f, times, made, moment + 1)
  BY <1>1, <1>3 DEF Covers
<1> QED
  BY <1>4 DEF Covered

(* A first request enters the window.                                      *)
LEMMA EnteredCovered ==
    ASSUME NEW times \in Seq(Nat), NEW made \in Seq(Requests), NEW moment \in Nat, Covered(times, made, moment)
    PROVE  Covered(Append(times, moment), Append(made, [at |-> moment, retry |-> FALSE]), moment)
<1>1. PICK f : Covers(f, times, made, moment)
  BY DEF Covered
<1> DEFINE more == Append(times, moment)
           all == Append(made, [at |-> moment, retry |-> FALSE])
           g == [k \in 1 .. Len(times) + 1 |-> IF k <= Len(times) THEN f[k] ELSE Len(made) + 1]
<1>2. /\ Len(more) = Len(times) + 1 /\ Len(times) \in Nat /\ Len(all) = Len(made) + 1 /\ Len(made) \in Nat
      /\ \A k \in 1 .. Len(times) : more[k] = times[k]
      /\ more[Len(times) + 1] = moment
      /\ \A n \in 1 .. Len(made) : all[n] = made[n]
      /\ all[Len(made) + 1].at = moment
  BY DEF Requests
<1>3. f \in [1 .. Len(times) -> 1 .. Len(made)]
  BY <1>1 DEF Covers
<1> HIDE DEF more, all
<1>4. g \in [1 .. Len(more) -> 1 .. Len(all)]
  BY <1>2, <1>3
<1>5. ASSUME NEW k \in 1 .. Len(more) PROVE all[g[k]].at = more[k]
  <2>1. CASE k \in 1 .. Len(times)
    <3>1. g[k] = f[k] /\ f[k] \in 1 .. Len(made)
      BY <1>2, <1>3, <2>1
    <3>2. made[f[k]].at = times[k]
      BY <1>1, <2>1 DEF Covers
    <3> QED
      BY <1>2, <2>1, <3>1, <3>2
  <2>2. CASE k = Len(times) + 1
    <3>1. g[k] = Len(made) + 1
      BY <1>2, <2>2
    <3> QED
      BY <1>2, <2>2, <3>1
  <2> QED
    BY <1>2, <2>1, <2>2
<1>6. ASSUME NEW n \in 1 .. Len(all), ~ all[n].retry, moment - all[n].at < WINDOW
      PROVE  \E k \in 1 .. Len(more) : g[k] = n
  <2>1. CASE n \in 1 .. Len(made)
    <3>1. PICK k \in 1 .. Len(times) : f[k] = n
      BY <1>1, <1>2, <1>6, <2>1 DEF Covers
    <3>2. g[k] = n /\ k \in 1 .. Len(more)
      BY <1>2, <3>1
    <3> QED
      BY <3>2
  <2>2. CASE n = Len(made) + 1
    <3>1. g[Len(times) + 1] = n /\ Len(times) + 1 \in 1 .. Len(more)
      BY <1>2, <2>2
    <3> QED
      BY <3>1
  <2> QED
    BY <1>2, <2>1, <2>2
<1> HIDE DEF g
<1>7. Covers(g, more, all, moment)
  BY <1>4, <1>5, <1>6 DEF Covers
<1> QED
  BY <1>7 DEF Covered, more, all

(* A retry needs no place there.                                           *)
LEMMA RetriedCovered ==
    ASSUME NEW times \in Seq(Nat), NEW made \in Seq(Requests), NEW moment \in Nat, Covered(times, made, moment)
    PROVE  Covered(times, Append(made, [at |-> moment, retry |-> TRUE]), moment)
<1>1. PICK f : Covers(f, times, made, moment)
  BY DEF Covered
<1> DEFINE all == Append(made, [at |-> moment, retry |-> TRUE])
<1>2. /\ Len(all) = Len(made) + 1 /\ Len(made) \in Nat
      /\ \A n \in 1 .. Len(made) : all[n] = made[n]
      /\ all[Len(made) + 1].retry
  BY DEF Requests
<1>3. f \in [1 .. Len(times) -> 1 .. Len(made)]
  BY <1>1 DEF Covers
<1> HIDE DEF all
<1>4. f \in [1 .. Len(times) -> 1 .. Len(all)]
  BY <1>2, <1>3
<1>5. \A k \in 1 .. Len(times) : all[f[k]].at = times[k]
  BY <1>1, <1>2, <1>3 DEF Covers
<1>6. ASSUME NEW n \in 1 .. Len(all), ~ all[n].retry, moment - all[n].at < WINDOW
      PROVE  \E k \in 1 .. Len(times) : f[k] = n
  <2>1. n \in 1 .. Len(made)
    BY <1>2, <1>6
  <2> QED
    BY <1>1, <1>2, <1>6, <2>1 DEF Covers
<1>7. Covers(f, times, all, moment)
  BY <1>4, <1>5, <1>6 DEF Covers
<1> QED
  BY <1>7 DEF Covered, all

(* One more request limits the lookups if those in its window are few.     *)
LEMMA OneMoreLimited ==
    ASSUME NEW made \in Seq(Requests), NEW request \in Requests, AreLimited(made),
           Cardinality(FirstOnes(Len(made) + 1, Append(made, request))) <= RATE_LIMIT
    PROVE  AreLimited(Append(made, request))
<1> DEFINE all == Append(made, request)
<1>1. /\ DOMAIN all = 1 .. Len(made) + 1 /\ Len(made) \in Nat /\ DOMAIN made = 1 .. Len(made)
      /\ \A n \in 1 .. Len(made) : all[n] = made[n]
  OBVIOUS
<1> HIDE DEF all
<1>2. ASSUME NEW n \in 1 .. Len(made) PROVE FirstOnes(n, all) = FirstOnes(n, made)
  <2>1. \A i \in 1 .. n : all[i] = made[i]
    BY <1>1
  <2> QED
    BY <1>1, <2>1 DEF FirstOnes, InWindow
<1>3. ASSUME NEW n \in DOMAIN all PROVE Cardinality(FirstOnes(n, all)) <= RATE_LIMIT
  <2>1. CASE n \in 1 .. Len(made)
    BY <1>1, <1>2, <2>1 DEF AreLimited
  <2>2. CASE n = Len(made) + 1
    BY <2>2 DEF all
  <2> QED
    BY <1>1, <2>1, <2>2
<1> QED
  BY <1>3 DEF AreLimited, all

(* The first requests in the window of the last are recent then.           *)
LEMMA LastWindow ==
    ASSUME NEW made \in Seq(Requests), made # <<>>
    PROVE  FirstOnes(Len(made), made) \in
             SUBSET {n \in 1 .. Len(made) : ~ made[n].retry /\ made[Len(made)].at - made[n].at < WINDOW}
BY DEF FirstOnes, InWindow

(* A request which a window within its limit covers breaks no limit.       *)
LEMMA RequestLimited ==
    ASSUME NEW made \in Seq(Requests), NEW retry \in BOOLEAN, NEW moment \in Nat, NEW times \in Seq(Nat),
           AreLimited(made), Len(times) <= RATE_LIMIT,
           Covered(times, Append(made, [at |-> moment, retry |-> retry]), moment)
    PROVE  AreLimited(Append(made, [at |-> moment, retry |-> retry]))
<1> DEFINE request == [at |-> moment, retry |-> retry]
           all == Append(made, request)
<1>1. request \in Requests /\ request.at = moment
  BY DEF Requests
<1> HIDE DEF request
<1>2. all \in Seq(Requests) /\ all # <<>> /\ Len(all) = Len(made) + 1 /\ all[Len(all)] = request
  BY <1>1
<1> HIDE DEF all
<1>3. FirstOnes(Len(all), all) \in SUBSET {n \in 1 .. Len(all) : ~ all[n].retry /\ moment - all[n].at < WINDOW}
  BY <1>1, <1>2, LastWindow
<1>4. Covered(times, all, moment)
  BY DEF all, request
<1>5. Cardinality(FirstOnes(Len(all), all)) <= Len(times) /\ Cardinality(FirstOnes(Len(all), all)) \in Nat
  BY <1>2, <1>3, <1>4, FewAreRecent
<1>6. Cardinality(FirstOnes(Len(made) + 1, Append(made, request))) <= RATE_LIMIT
  <2>1. Len(times) \in Nat /\ RATE_LIMIT \in Nat
    BY ApolloAssumption
  <2> QED
    BY <1>2, <1>5, <2>1 DEF all
<1>7. AreLimited(Append(made, request))
  BY <1>1, <1>6, OneMoreLimited
<1> QED
  BY <1>7 DEF request

(* The next company after a result.                                        *)
LEMMA NextCompanyOK ==
    ASSUME BatchTypes, bulk.pc = "asking", NEW status \in {"complete", "not_found", "enrichment_failed"},
           NEW b, b = NextCompany([bulk EXCEPT !.results = Append(@, status)])
    PROVE  b \in Batches /\ b.pc \in {"begin", "returned"} /\ Len(b.results) = b.next - 1
<1> DEFINE more == Append(bulk.results, status)
           asked == [bulk EXCEPT !.results = more]
           pc == IF bulk.next = Domains THEN "returned" ELSE "begin"
           next == bulk.next + 1
           after == [asked EXCEPT !.next = next, !.attempt = 1, !.pc = pc]
<1>1. bulk \in Batches /\ Len(bulk.results) = bulk.next - 1 /\ bulk.next \in Nat \ {0}
  BY DEF BatchTypes, Batches
<1>2. bulk.results \in Seq({"complete", "not_found", "enrichment_failed"})
  BY <1>1 DEF Batches
<1>3. more \in Seq({"complete", "not_found", "enrichment_failed"}) /\ Len(more) = Len(bulk.results) + 1
  BY <1>2
<1>4. pc \in {"begin", "returned"}
  OBVIOUS
<1> HIDE DEF more, pc
<1>5. asked \in Batches /\ asked.next = bulk.next /\ asked.results = more
  BY <1>1, <1>3 DEF Batches
<1>6. b = after
  BY <1>5, Zenon DEF NextCompany, more, pc
<1>6a. next \in Nat \ {0} /\ next - 1 = bulk.next
  BY <1>1
<1>7. 1 \in 1 .. APOLLO_TRIES
  BY ApolloAssumption
<1> HIDE DEF asked, next
<1>8. after \in Batches /\ after.pc = pc /\ after.results = more /\ after.next = next
  BY <1>4, <1>5, <1>7, <1>6a DEF Batches
<1> HIDE DEF after
<1>9. Len(after.results) = after.next - 1
  BY <1>1, <1>3, <1>8, <1>6a
<1> QED
  BY <1>4, <1>6, <1>8, <1>9

(* A step that makes no request and changes no moment of the window.       *)
LEMMA WindowStands ==
    ASSUME BatchInv, UNCHANGED <<stamps, tick, requests>>, bulk'.pc # "throttled"
    PROVE  Window'
<1>1. Domains > BATCH_THRESHOLD => Covered(stamps, requests, tick) /\ AreLimited(requests) /\ Len(stamps) <= RATE_LIMIT
  BY DEF BatchInv, Window
<1> QED
  BY <1>1, Zenon DEF Window

(* The batch keeps what it must, step by step.                             *)
LEMMA BatchStep == BatchInv /\ BulkNext => BatchInv'
<1> SUFFICES ASSUME BatchInv, BulkNext PROVE BatchInv'
  OBVIOUS
<1>1. /\ bulk \in Batches /\ tick \in Nat /\ stamps \in Seq(Nat) /\ requests \in Seq(Requests)
      /\ bulk.pc # "raised" => Len(bulk.results) = bulk.next - 1
      /\ bulk.pc = "waiting" => bulk.attempt < APOLLO_TRIES
  BY DEF BatchInv, BatchTypes, Requests
<1>2. /\ bulk.pc \in {"begin", "throttled", "asking", "waiting", "returned", "raised"}
      /\ bulk.attempt \in 1 .. APOLLO_TRIES /\ bulk.wake \in Nat /\ bulk.next \in Nat
      /\ bulk.results \in Seq({"complete", "not_found", "enrichment_failed"})
  BY <1>1 DEF Batches
<1>3. /\ {APOLLO_TRIES, RATE_LIMIT, WINDOW} \subseteq Nat \ {0} /\ RETRY_DELAY \in Nat
  BY ApolloAssumption
<1>4. Domains > BATCH_THRESHOLD =>
        /\ Len(stamps) <= RATE_LIMIT /\ Covered(stamps, requests, tick) /\ AreLimited(requests)
        /\ bulk.pc = "throttled" => stamps # <<>> /\ bulk.wake = stamps[1] + WINDOW
  BY DEF BatchInv, Window
<1>5. /\ Recent(stamps) \in Seq(Nat) /\ Len(Recent(stamps)) \in Nat /\ Len(stamps) \in Nat
      /\ Len(Recent(stamps)) <= Len(stamps)
      /\ stamps # <<>> /\ tick - stamps[1] >= WINDOW => Len(Recent(stamps)) < Len(stamps)
  <2>1. Recent(stamps) \in Seq(Nat)
    BY <1>1, RecentOK
  <2> QED
    BY <1>1, <2>1, RecentOK
<1>6. Domains > BATCH_THRESHOLD => Covered(Recent(stamps), requests, tick)
  BY <1>1, <1>4, RecentCovers
<1>7. CASE Throttle
  <2> DEFINE wake == Recent(stamps)[1] + WINDOW
             b == [bulk EXCEPT !.pc = "throttled", !.wake = wake]
  <2>1. /\ bulk.pc = "begin" /\ Len(Recent(stamps)) >= RATE_LIMIT /\ stamps' = Recent(stamps)
        /\ bulk' = b /\ UNCHANGED <<tick, requests>>
    BY <1>7 DEF Throttle, SetBulk, AtCapacity
  <2>2. Recent(stamps) # <<>> /\ Recent(stamps)[1] \in Nat
    BY <1>3, <1>5, <2>1
  <2>2a. wake \in Nat
    BY <1>3, <2>2
  <2> HIDE DEF wake
  <2>3. b \in Batches /\ b.pc = "throttled" /\ b.wake = wake /\ b.results = bulk.results /\ b.next = bulk.next
    BY <1>1, <2>2a DEF Batches
  <2> HIDE DEF b
  <2>4. BatchTypes'
    BY <1>1, <1>5, <2>1, <2>3 DEF BatchTypes, Requests
  <2>5. Domains > BATCH_THRESHOLD => Len(Recent(stamps)) <= RATE_LIMIT
    BY <1>3, <1>4, <1>5
  <2>6. Window'
    BY <1>4, <1>6, <2>1, <2>2, <2>3, <2>5, Zenon DEF Window, wake
  <2> QED
    BY <2>4, <2>6 DEF BatchInv
<1>8. CASE Request1
  <2> DEFINE b == [bulk EXCEPT !.pc = "asking"]
             r == [at |-> tick, retry |-> FALSE]
             times == Append(Recent(stamps), tick)
             made == Append(requests, r)
  <2>1. /\ \/ bulk.pc = "begin" /\ (Domains <= BATCH_THRESHOLD \/ ~ (Len(Recent(stamps)) >= RATE_LIMIT))
           \/ bulk.pc = "throttled" /\ tick >= bulk.wake
        /\ stamps' = IF Domains > BATCH_THRESHOLD THEN times ELSE stamps
        /\ bulk' = b /\ tick' = tick /\ requests' = made
    BY <1>8 DEF Request1, SetBulk, AtCapacity, Request
  <2>2. r \in Requests
    BY <1>1 DEF Requests
  <2>3. b \in Batches /\ b.pc = "asking" /\ b.results = bulk.results /\ b.next = bulk.next
    BY <1>1 DEF Batches
  <2>4. times \in Seq(Nat) /\ Len(times) = Len(Recent(stamps)) + 1 /\ made \in Seq(Requests)
    BY <1>1, <1>5, <2>2
  <2>5. Domains > BATCH_THRESHOLD => Len(times) <= RATE_LIMIT
    <3> SUFFICES ASSUME Domains > BATCH_THRESHOLD PROVE Len(Recent(stamps)) < RATE_LIMIT
      BY <1>3, <1>5, <2>4
    <3>0. {Domains, BATCH_THRESHOLD} \subseteq Nat
      BY ApolloAssumption
    <3>1. CASE bulk.pc = "begin"
      BY <1>3, <1>5, <2>1, <3>0, <3>1
    <3>2. CASE bulk.pc = "throttled"
      <4>1. stamps # <<>> /\ tick >= stamps[1] + WINDOW
        BY <1>4, <2>1, <3>2
      <4>2. stamps[1] \in Nat
        BY <1>1, <4>1
      <4> QED
        BY <1>1, <1>3, <1>4, <1>5, <4>1, <4>2
    <3> QED
      BY <2>1, <3>1, <3>2
  <2>6. Domains > BATCH_THRESHOLD => Covered(times, made, tick)
    BY <1>1, <1>5, <1>6, EnteredCovered
  <2>7. Domains > BATCH_THRESHOLD => AreLimited(made)
    BY <1>1, <1>4, <2>4, <2>5, <2>6, RequestLimited
  <2> HIDE DEF b, times, made
  <2>8. BatchTypes'
    BY <1>1, <2>1, <2>3, <2>4 DEF BatchTypes, Requests
  <2>9. Window'
    BY <2>1, <2>3, <2>5, <2>6, <2>7, Zenon DEF Window
  <2> QED
    BY <2>8, <2>9 DEF BatchInv
<1>9. ASSUME NEW status \in {"complete", "not_found", "enrichment_failed"}, bulk.pc = "asking",
             SetBulk(NextCompany([bulk EXCEPT !.results = Append(@, status)])), UNCHANGED <<stamps, requests>>
      PROVE  BatchInv'
  <2>1. bulk' = NextCompany([bulk EXCEPT !.results = Append(@, status)]) /\ tick' = tick
    BY <1>9 DEF SetBulk
  <2>2. bulk' \in Batches /\ bulk'.pc \in {"begin", "returned"} /\ Len(bulk'.results) = bulk'.next - 1
    BY <1>9, <2>1, NextCompanyOK DEF BatchInv
  <2>3. BatchTypes'
    BY <1>1, <1>9, <2>1, <2>2 DEF BatchTypes, Requests
  <2>4. Window'
    BY <1>9, <2>1, <2>2, WindowStands
  <2> QED
    BY <2>3, <2>4 DEF BatchInv
<1>10. CASE BulkAnswer
  BY <1>9, <1>10 DEF BulkAnswer
<1>11. CASE BulkRaises
  <2> DEFINE b == [bulk EXCEPT !.pc = "raised", !.results = <<>>]
  <2>1. bulk' = b /\ UNCHANGED <<stamps, tick, requests>>
    BY <1>11 DEF BulkRaises, SetBulk
  <2>1a. <<>> \in Seq({"complete", "not_found", "enrichment_failed"})
    OBVIOUS
  <2>2. b \in Batches /\ b.pc = "raised"
    BY <1>1, <2>1a DEF Batches
  <2> HIDE DEF b
  <2>3. BatchTypes'
    BY <1>1, <2>1, <2>2 DEF BatchTypes, Requests
  <2>4. Window'
    BY <2>1, <2>2, WindowStands
  <2> QED
    BY <2>3, <2>4 DEF BatchInv
<1>12. CASE BulkFails /\ bulk.attempt < APOLLO_TRIES
  <2> DEFINE wake == tick + RETRY_DELAY
             b == [bulk EXCEPT !.pc = "waiting", !.wake = wake]
  <2>1a. wake \in Nat
    BY <1>1, <1>3
  <2>1. bulk.pc = "asking" /\ bulk' = b /\ UNCHANGED <<stamps, tick, requests>>
    BY <1>12 DEF BulkFails, SetBulk
  <2> HIDE DEF wake
  <2>2. b \in Batches /\ b.pc = "waiting" /\ b.results = bulk.results /\ b.next = bulk.next /\ b.attempt = bulk.attempt
    BY <1>1, <2>1a DEF Batches
  <2> HIDE DEF b
  <2>3. BatchTypes'
    BY <1>1, <1>12, <2>1, <2>2 DEF BatchTypes, Requests
  <2>4. Window'
    BY <2>1, <2>2, WindowStands
  <2> QED
    BY <2>3, <2>4 DEF BatchInv
<1>13. CASE BulkFails /\ ~ (bulk.attempt < APOLLO_TRIES)
  BY <1>9, <1>13 DEF BulkFails
<1>14. CASE BulkRetry
  <2> DEFINE b == [bulk EXCEPT !.pc = "asking", !.attempt = bulk.attempt + 1]
             r == [at |-> tick, retry |-> TRUE]
             made == Append(requests, r)
  <2>1. bulk.pc = "waiting" /\ bulk' = b /\ UNCHANGED <<stamps, tick>> /\ requests' = made
    BY <1>14 DEF BulkRetry, SetBulk, Request
  <2>2. r \in Requests /\ made \in Seq(Requests)
    BY <1>1 DEF Requests
  <2>3. bulk.attempt + 1 \in 1 .. APOLLO_TRIES
    BY <1>1, <1>2, <1>3, <2>1
  <2>4. b \in Batches /\ b.pc = "asking" /\ b.results = bulk.results /\ b.next = bulk.next
    BY <1>1, <2>3 DEF Batches
  <2>5. Domains > BATCH_THRESHOLD => Covered(stamps, made, tick)
    BY <1>1, <1>4, RetriedCovered
  <2>6. Domains > BATCH_THRESHOLD => AreLimited(made)
    BY <1>1, <1>4, <2>5, RequestLimited
  <2> HIDE DEF b, made
  <2>7. BatchTypes'
    BY <1>1, <2>1, <2>2, <2>4 DEF BatchTypes, Requests
  <2>8. Window'
    BY <1>4, <2>1, <2>4, <2>5, <2>6, Zenon DEF Window
  <2> QED
    BY <2>7, <2>8 DEF BatchInv
<1>15. CASE ApolloTick
  <2>1. tick' = tick + 1 /\ UNCHANGED <<bulk, stamps, requests>>
    BY <1>15 DEF ApolloTick
  <2>2. BatchTypes'
    BY <1>1, <2>1 DEF BatchTypes, Requests
  <2>3. Domains > BATCH_THRESHOLD => Covered(stamps, requests, tick + 1)
    BY <1>1, <1>4, LaterCovered
  <2>4. Window'
    BY <1>4, <2>1, <2>3, Zenon DEF Window
  <2> QED
    BY <2>2, <2>4 DEF BatchInv
<1> QED
  BY <1>7, <1>8, <1>10, <1>11, <1>12, <1>13, <1>14, <1>15, Zenon DEF BulkNext

-----------------------------------------------------------------------------
\* The theorem.

ApolloInv == LookupInv /\ BatchInv

(* Nothing has been asked yet.                                             *)
LEMMA ApolloInitially == ApolloInit => ApolloInv
<1> SUFFICES ASSUME ApolloInit PROVE ApolloInv
  OBVIOUS
<1>1. LookupInv
  BY NoLookupOK DEF ApolloInit, LookupInv
<1>2. /\ bulk = NoBulk /\ stamps = <<>> /\ tick = 0 /\ requests = <<>>
  BY DEF ApolloInit
<1>3. NoBulk \in Batches /\ NoBulk.pc = "begin" /\ Len(NoBulk.results) = NoBulk.next - 1
  BY ApolloAssumption DEF NoBulk, Batches
<1>4. BatchTypes
  BY <1>2, <1>3 DEF BatchTypes
<1>5. Covered(<<>>, <<>>, 0)
  <2>1. Covers(<<>>, <<>>, <<>>, 0)
    BY DEF Covers
  <2> QED
    BY <2>1 DEF Covered
<1>6. AreLimited(<<>>) /\ Len(<<>>) <= RATE_LIMIT
  BY ApolloAssumption DEF AreLimited
<1>7. Window
  BY <1>2, <1>3, <1>5, <1>6 DEF Window
<1> QED
  BY <1>1, <1>4, <1>7 DEF ApolloInv, BatchInv

(* The calls leave the batch alone, and the batch the calls.               *)
LEMMA ApolloStep == ApolloInv /\ [ApolloNext]_apolloVars => ApolloInv'
<1> SUFFICES ASSUME ApolloInv, [ApolloNext]_apolloVars PROVE ApolloInv'
  OBVIOUS
<1>1. ASSUME UNCHANGED <<bulk, stamps, tick, requests>> PROVE BatchInv'
  <2>1. BatchInv
    BY DEF ApolloInv
  <2> QED
    BY <1>1, <2>1 DEF BatchInv, BatchTypes, Window
<1>2. ASSUME UNCHANGED lookup PROVE LookupInv'
  <2>1. LookupInv
    BY DEF ApolloInv
  <2> QED
    BY <1>2, <2>1 DEF LookupInv
<1>3. CASE LookupNext
  <2>1. UNCHANGED <<bulk, stamps, tick, requests>>
    BY <1>3, Zenon DEF LookupNext, BeginLookup, Answers200, CallRaised, AnswerFails, RetryLookup, SetLookup
  <2> QED
    BY <1>1, <1>3, <2>1, LookupStep DEF ApolloInv
<1>4. CASE BulkNext
  <2>1. UNCHANGED lookup
    BY <1>4, Zenon DEF BulkNext, Throttle, Request1, BulkAnswer, BulkRaises, BulkFails, BulkRetry, ApolloTick, SetBulk
  <2> QED
    BY <1>2, <1>4, <2>1, BatchStep DEF ApolloInv
<1>5. CASE UNCHANGED apolloVars
  <2>1. UNCHANGED lookup /\ UNCHANGED <<bulk, stamps, tick, requests>>
    BY <1>5 DEF apolloVars
  <2> QED
    BY <1>1, <1>2, <2>1 DEF ApolloInv
<1> QED
  BY <1>3, <1>4, <1>5 DEF ApolloNext

(* What the invariant says.                                                *)
LEMMA ApolloImplies == ApolloInv => ApolloSafety
<1> SUFFICES ASSUME ApolloInv PROVE ApolloSafety
  OBVIOUS
<1>1. \A c \in ApolloCalls : lookup[c] \in Lookups /\ LookupOK(c, lookup[c])
  BY DEF ApolloInv, LookupInv
<1>2. ApolloTypeOK
  <2>1. \A c \in ApolloCalls :
          /\ lookup[c].pc \in {"idle", "asking", "waiting", "done"}
          /\ lookup[c].attempt \in 1 .. APOLLO_TRIES
          /\ lookup[c].outcome # "none" <=> lookup[c].pc = "done"
    BY <1>1 DEF Lookups, LookupOK
  <2>2. bulk \in Batches /\ (bulk.pc # "raised" => Len(bulk.results) = bulk.next - 1)
    BY DEF ApolloInv, BatchInv, BatchTypes
  <2>3. bulk.pc \in {"begin", "throttled", "asking", "waiting", "returned", "raised"}
    BY <2>2 DEF Batches
  <2> QED
    BY <2>1, <2>2, <2>3 DEF ApolloTypeOK
<1>3. BestContactsAreKept
  <2>1. \A c \in ApolloCalls : CallKind[c] = "contacts" => Best(lookup[c].found, lookup[c].pool)
    BY <1>1 DEF LookupOK
  <2> QED
    BY <2>1, Zenon DEF BestContactsAreKept, Best
<1>4. BroadenedWhenAnswered
  BY <1>1 DEF BroadenedWhenAnswered, LookupOK
<1>5. LookupsAreLimited
  BY DEF ApolloInv, BatchInv, Window, AreLimited, FirstOnes, LookupsAreLimited
<1> QED
  BY <1>2, <1>3, <1>4, <1>5 DEF ApolloSafety

(* Whatever Apollo answers, a call returns the best contacts of its last   *)
(* answer and is broadened by an answer only, every company of a batch has *)
(* its result, and a large batch begins no more lookups in a window than   *)
(* the limit allows.                                                       *)
THEOREM ApolloHolds == ApolloSpec => []ApolloSafety
<1>1. ApolloSpec => []ApolloInv
  BY ApolloInitially, ApolloStep, PTL DEF ApolloSpec
<1> QED
  BY <1>1, ApolloImplies, PTL

-----------------------------------------------------------------------------
Answered == {"complete", "not_found", "enrichment_failed"}
Returned == {Complete(data) : data \in Found} \cup {Failed(status) : status \in Failures}
Cells == {"none"} \cup UNION {{data[k] : k \in Columns} : data \in Found}
Data == [Columns -> Cells]

Runs == [pc : {"idle", "next", "saving", "returned", "raised"}, todo : Seq(Records),
         copy : [Records -> Data], answer : Returned, expired : BOOLEAN,
         refreshed : Nat, failed : 0 .. 1, skipped : Nat, committed : SUBSET Records]

(* What is still to be done is distinct and not yet committed; only what   *)
(* has committed is counted; a run with an expired session saves nothing.  *)
RunOK(run) ==
    /\ run \in Runs
    /\ IsFiniteSet(run.committed)
    /\ run.refreshed <= Cardinality(run.committed)
    /\ Cardinality(run.committed) <= run.refreshed + run.failed
    /\ \A i, j \in 1 .. Len(run.todo) : run.todo[i] = run.todo[j] => i = j
    /\ \A i \in 1 .. Len(run.todo) : run.todo[i] \notin run.committed
    /\ run.pc \in {"next", "saving"} => run.todo # <<>>
    /\ run.pc \in {"idle", "saving"} => ~ run.expired
    /\ ~ run.expired => run.failed = 0

(* A row is made of the answers stored for it, and is the last one unless  *)
(* the record is shared.                                                   *)
RowOK(row, given, last, isShared) ==
    /\ row \in [status : Answered, data : Data, stale : BOOLEAN]
    /\ last \in Returned
    /\ row.status = "complete" <=> \A answer \in given : answer.status = "complete"
    /\ \A k \in Columns : \E answer \in given : row.data[k] = answer.data[k]
    /\ ~ isShared => row.status = last.status /\ row.data = last.data

(* An execution that holds a record has a copy of it as it is, unless the  *)
(* record is shared.                                                       *)
CycleInv ==
    /\ /\ enriched = [r \in Records |-> enriched[r]]
       /\ answers = [r \in Records |-> answers[r]]
       /\ lastAnswer = [r \in Records |-> lastAnswer[r]]
       /\ cycle = [c \in Cycles |-> cycle[c]]
    /\ \A r \in Records : RowOK(enriched[r], answers[r], lastAnswer[r], r \in shared)
    /\ \A c \in Cycles : RunOK(cycle[c])
    /\ \A c \in Cycles : \A r \in Held(cycle[c]) \ shared :
          cycle[c].copy[r] = enriched[r].data /\ enriched[r].status = "complete"
    /\ \A c, d \in Cycles : c # d => Held(cycle[c]) \cap Held(cycle[d]) \subseteq shared

-----------------------------------------------------------------------------

(* An answer has a value for each column.                                  *)
LEMMA ReturnedOK ==
    /\ Complete(FirstFound) \in Returned /\ FirstFound \in Data
    /\ \A answer \in Returned : answer.data \in Data /\ answer.status \in Answered
<1>1. \A data \in Found : data = [k \in Columns |-> data[k]] /\ \A k \in Columns : data[k] \in Cells
  BY CycleAssumption DEF CycleAssumption, Cells
<1>2. \A data \in Found : data \in Data
  BY <1>1 DEF Data
<1>3. [k \in Columns |-> "none"] \in Data
  BY DEF Data, Cells
<1> QED
  BY <1>2, <1>3, CycleAssumption DEF CycleAssumption, Returned, Complete, Failed, Failures, Answered

(* A run that has not begun.                                               *)
LEMMA NoCycleOK == RunOK(NoCycle) /\ Held(NoCycle) = {}
<1>1. <<>> \in Seq(Records) /\ Len(<<>>) = 0
  OBVIOUS
<1>2. NoCycle \in Runs
  BY <1>1, ReturnedOK DEF NoCycle, Runs
<1> QED
  BY <1>1, <1>2, FS_EmptySet DEF RunOK, NoCycle, Held

(* It holds before the first cycle.                                        *)
LEMMA CycleInitially == CycleInit => CycleInv
<1> SUFFICES ASSUME CycleInit PROVE CycleInv
  OBVIOUS
<1>1. \A r \in Records : RowOK(enriched[r], answers[r], lastAnswer[r], r \in shared)
  BY ReturnedOK DEF CycleInit, RowOK, Answered, Complete
<1>2. \A c \in Cycles : cycle[c] = NoCycle
  BY DEF CycleInit
<1>3. \A c \in Cycles : RunOK(cycle[c]) /\ Held(cycle[c]) = {}
  BY <1>2, NoCycleOK
<1> QED
  BY <1>1, <1>3 DEF CycleInit, CycleInv

(* The distinct elements after the first are distinct.                     *)
LEMMA TailDistinct ==
    ASSUME NEW S, NEW seq \in Seq(S), seq # <<>>,
           \A i, j \in 1 .. Len(seq) : seq[i] = seq[j] => i = j
    PROVE  /\ Tail(seq) \in Seq(S) /\ Head(seq) \in S
           /\ Len(Tail(seq)) = Len(seq) - 1
           /\ \A i \in 1 .. Len(Tail(seq)) : /\ i + 1 \in 1 .. Len(seq) /\ Tail(seq)[i] = seq[i + 1]
                                             /\ Tail(seq)[i] # Head(seq)
           /\ \A i, j \in 1 .. Len(Tail(seq)) : Tail(seq)[i] = Tail(seq)[j] => i = j
<1>1. Len(seq) \in Nat \ {0} /\ Head(seq) = seq[1] /\ Tail(seq) \in Seq(S) /\ Len(Tail(seq)) = Len(seq) - 1
  OBVIOUS
<1>2. \A i \in 1 .. Len(Tail(seq)) : i + 1 \in 1 .. Len(seq) /\ Tail(seq)[i] = seq[i + 1]
  BY <1>1
<1>3. 1 \in 1 .. Len(seq) /\ seq[1] \in S
  BY <1>1
<1>4. ASSUME NEW i \in 1 .. Len(Tail(seq)) PROVE Tail(seq)[i] # Head(seq)
  BY <1>1, <1>2, <1>3
<1>5. ASSUME NEW i \in 1 .. Len(Tail(seq)), NEW j \in 1 .. Len(Tail(seq)), Tail(seq)[i] = Tail(seq)[j] PROVE i = j
  <2>1. i + 1 = j + 1
    BY <1>2, <1>5
  <2> QED
    BY <1>1, <2>1
<1> QED
  BY <1>1, <1>2, <1>3, <1>4, <1>5

(* A run that is done with its record, uncommitted.                        *)
LEMMA DoneOK ==
    ASSUME NEW run, RunOK(run), run.todo # <<>>
    PROVE  /\ Done(run) \in Runs
           /\ Done(run).refreshed = run.refreshed /\ Done(run).failed = run.failed
           /\ Done(run).skipped = run.skipped /\ Done(run).committed = run.committed
           /\ Done(run).expired = run.expired /\ Done(run).copy = run.copy
           /\ Done(run).answer = run.answer
           /\ Done(run).pc \in {"next", "returned"}
           /\ Done(run).pc = "next" => Done(run).todo # <<>>
           /\ \A i, j \in 1 .. Len(Done(run).todo) : Done(run).todo[i] = Done(run).todo[j] => i = j
           /\ \A i \in 1 .. Len(Done(run).todo) :
                  /\ Done(run).todo[i] # Head(run.todo)
                  /\ Done(run).todo[i] \notin run.committed
                  /\ Done(run).todo[i] \in Range(run.todo)
           /\ Head(run.todo) \in Records \ run.committed
           /\ Head(run.todo) \in Range(run.todo)
           /\ Range(Done(run).todo) \subseteq Range(run.todo) \ {Head(run.todo)}
<1>1. run \in Runs /\ run.todo \in Seq(Records)
  BY DEF RunOK, Runs
<1>2. Ends(Tail(run.todo)) \in {"next", "returned"} /\ (Ends(Tail(run.todo)) = "next" => Tail(run.todo) # <<>>)
  BY DEF Ends
<1> DEFINE d == Done(run)
<1>0. \A i, j \in 1 .. Len(run.todo) : run.todo[i] = run.todo[j] => i = j
  BY DEF RunOK
<1>3. /\ d \in Runs /\ d.todo = Tail(run.todo) /\ d.pc = Ends(Tail(run.todo)) /\ d.answer = run.answer
      /\ d.refreshed = run.refreshed /\ d.failed = run.failed /\ d.skipped = run.skipped
      /\ d.committed = run.committed /\ d.expired = run.expired /\ d.copy = run.copy
  <2>1. Tail(run.todo) \in Seq(Records)
    BY <1>1, <1>0, TailDistinct
  <2> QED
    BY <1>1, <1>2, <2>1 DEF Done, Runs
<1> HIDE DEF d
<1>4. \A i \in 1 .. Len(d.todo) : i + 1 \in 1 .. Len(run.todo) /\ d.todo[i] = run.todo[i + 1] /\ d.todo[i] # Head(run.todo)
  BY <1>0, <1>1, <1>3, TailDistinct
<1>5. \A i, j \in 1 .. Len(d.todo) : d.todo[i] = d.todo[j] => i = j
  <2>1. \A i, j \in 1 .. Len(Tail(run.todo)) : Tail(run.todo)[i] = Tail(run.todo)[j] => i = j
    BY <1>0, <1>1, TailDistinct
  <2> QED
    BY <1>3, <2>1
<1>6. Head(run.todo) = run.todo[1] /\ 1 \in 1 .. Len(run.todo) /\ DOMAIN run.todo = 1 .. Len(run.todo)
  BY <1>1
<1>7. \A i \in 1 .. Len(run.todo) : run.todo[i] \in Range(run.todo) /\ run.todo[i] \notin run.committed /\ run.todo[i] \in Records
  BY <1>1, <1>6 DEF Range, RunOK
<1>8. Range(d.todo) = {d.todo[i] : i \in 1 .. Len(d.todo)}
  <2>1. d.todo \in Seq(Records)
    BY <1>3 DEF Runs
  <2>2. DOMAIN d.todo = 1 .. Len(d.todo)
    BY <2>1
  <2> QED
    BY <2>2 DEF Range
<1>9. Range(d.todo) \subseteq Range(run.todo) \ {Head(run.todo)}
  BY <1>4, <1>7, <1>8
<1>10. \A i \in 1 .. Len(d.todo) : d.todo[i] \in Range(run.todo) /\ d.todo[i] \notin run.committed
  BY <1>4, <1>7
<1>11. Head(run.todo) \in Records \ run.committed /\ Head(run.todo) \in Range(run.todo)
  BY <1>6, <1>7
<1>12. d.pc \in {"next", "returned"} /\ (d.pc = "next" => d.todo # <<>>)
  BY <1>2, <1>3
<1> QED
  BY <1>3, <1>4, <1>5, <1>9, <1>10, <1>11, <1>12 DEF d

(* A step of one run that leaves the rows alone and holds no more.         *)
LEMMA OneRun ==
    ASSUME CycleInv, NEW c \in Cycles, NEW run, RunOK(run), SetCycle(c, run),
           Held(run) \subseteq Held(cycle[c]), run.copy = cycle[c].copy,
           UNCHANGED <<enriched, answers, lastAnswer, shared>>
    PROVE  CycleInv'
<1>1. cycle'[c] = run /\ \A d \in Cycles \ {c} : cycle'[d] = cycle[d]
  BY DEF CycleInv, SetCycle
<1>2. \A d \in Cycles : /\ Held(cycle'[d]) \subseteq Held(cycle[d]) /\ RunOK(cycle'[d])
                        /\ cycle'[d].copy = cycle[d].copy
  BY <1>1 DEF CycleInv
<1>3. cycle' = [d \in Cycles |-> cycle'[d]]
  BY DEF CycleInv, SetCycle
<1>4. \A d \in Cycles : \A r \in Held(cycle'[d]) \ shared :
         cycle'[d].copy[r] = enriched[r].data /\ enriched[r].status = "complete"
  <2>1. \A d \in Cycles : \A r \in Held(cycle[d]) \ shared :
           cycle[d].copy[r] = enriched[r].data /\ enriched[r].status = "complete"
    BY Zenon DEF CycleInv
  <2>2. \A d \in Cycles : Held(cycle'[d]) \ shared \subseteq Held(cycle[d]) \ shared
    BY <1>2, Zenon
  <2> QED
    BY <1>2, <2>1, <2>2, Zenon
<1>5. \A b, d \in Cycles : b # d => Held(cycle'[b]) \cap Held(cycle'[d]) \subseteq shared
  <2>1. \A b, d \in Cycles : b # d => Held(cycle[b]) \cap Held(cycle[d]) \subseteq shared
    BY Zenon DEF CycleInv
  <2> QED
    BY <1>2, <2>1, Zenon
<1>6. \A r \in Records : RowOK(enriched[r], answers[r], lastAnswer[r], r \in shared)
  BY DEF CycleInv
<1>7. /\ enriched' = enriched /\ answers' = answers /\ lastAnswer' = lastAnswer /\ shared' = shared
      /\ enriched = [r \in Records |-> enriched[r]] /\ answers = [r \in Records |-> answers[r]]
      /\ lastAnswer = [r \in Records |-> lastAnswer[r]]
  BY Zenon DEF CycleInv
<1>8. \A d \in Cycles : RunOK(cycle'[d])
  BY <1>2
<1> QED
  BY <1>3, <1>4, <1>5, <1>6, <1>7, <1>8, Zenon DEF CycleInv

(* What is written over a row is one again.                                *)
LEMMA WrittenOK ==
    ASSUME NEW row, NEW given, NEW last, NEW isShared, RowOK(row, given, last, isShared),
           NEW copy \in Data, NEW answer \in Returned,
           ~ isShared => copy = row.data /\ row.status = "complete"
    PROVE  RowOK(Written(row, copy, answer), given \cup {answer}, answer, isShared)
<1> DEFINE new == Written(row, copy, answer)
<1>1. answer.data \in Data /\ answer.status \in Answered
  BY ReturnedOK
<1>2. /\ new.status = IF answer.status = "complete" THEN row.status ELSE answer.status
      /\ new.data = [k \in Columns |-> IF answer.data[k] = copy[k] THEN row.data[k] ELSE answer.data[k]]
      /\ new \in [status : Answered, data : Data, stale : BOOLEAN]
  BY <1>1 DEF Written, RowOK, Data
<1> HIDE DEF new
<1>3. \A k \in Columns : new.data[k] \in {row.data[k], answer.data[k]}
  BY <1>2
<1>4. \A k \in Columns : \E a \in given \cup {answer} : new.data[k] = a.data[k]
  BY <1>3 DEF RowOK
<1>5. new.status = "complete" <=> \A a \in given \cup {answer} : a.status = "complete"
  BY <1>2 DEF RowOK
<1>6. ASSUME ~ isShared PROVE new.status = answer.status /\ new.data = answer.data
  <2>1. \A k \in Columns : new.data[k] = answer.data[k]
    BY <1>2, <1>6
  <2>2. new.data \in Data
    BY <1>2
  <2> QED
    BY <1>1, <1>2, <1>6, <2>1, <2>2 DEF Data
<1> QED
  BY <1>2, <1>4, <1>5, <1>6 DEF RowOK, new

(* A run that stores its answer and lets go of the record.                 *)
LEMMA StoreOK ==
    ASSUME CycleInv, NEW c \in Cycles, cycle[c].pc = "saving", StoreAnswer(c),
           NEW run, RunOK(run), SetCycle(c, run), run.copy = cycle[c].copy,
           Held(run) \subseteq Held(cycle[c]) \ {Record(c)},
           Record(c) \in Held(cycle[c]), Record(c) \in Records
    PROVE  CycleInv'
<1> DEFINE r == Record(c)
           answer == cycle[c].answer
           written == Written(enriched[r], cycle[c].copy[r], answer)
<1>0. cycle[c] \in Runs
  BY DEF CycleInv, RunOK
<1>1. /\ enriched' = [enriched EXCEPT ![r] = written]
      /\ answers' = [answers EXCEPT ![r] = @ \cup {answer}]
      /\ lastAnswer' = [lastAnswer EXCEPT ![r] = answer] /\ shared' = shared
      /\ r \in Records /\ answer \in Returned /\ cycle[c].copy[r] \in Data /\ r \in Held(cycle[c])
  BY <1>0 DEF StoreAnswer, Runs
<1>2. RowOK(written, answers[r] \cup {answer}, answer, r \in shared)
  <2>1. RowOK(enriched[r], answers[r], lastAnswer[r], r \in shared)
    BY <1>1 DEF CycleInv
  <2>2. r \notin shared => cycle[c].copy[r] = enriched[r].data /\ enriched[r].status = "complete"
    BY <1>1 DEF CycleInv
  <2> HIDE DEF r, answer
  <2> QED
    BY <1>1, <2>1, <2>2, WrittenOK
<1> HIDE DEF written
<1>3. /\ enriched'[r] = written /\ answers'[r] = answers[r] \cup {answer} /\ lastAnswer'[r] = answer
      /\ \A q \in Records \ {r} : enriched'[q] = enriched[q] /\ answers'[q] = answers[q] /\ lastAnswer'[q] = lastAnswer[q]
      /\ enriched' = [q \in Records |-> enriched'[q]] /\ answers' = [q \in Records |-> answers'[q]]
      /\ lastAnswer' = [q \in Records |-> lastAnswer'[q]]
  BY <1>1 DEF CycleInv
<1>4. cycle'[c] = run /\ (\A d \in Cycles \ {c} : cycle'[d] = cycle[d]) /\ cycle' = [d \in Cycles |-> cycle'[d]]
  BY DEF CycleInv, SetCycle
<1>5. \A d \in Cycles : /\ Held(cycle'[d]) \subseteq Held(cycle[d]) /\ RunOK(cycle'[d])
                        /\ cycle'[d].copy = cycle[d].copy
                        /\ Held(cycle'[d]) \ shared \subseteq Held(cycle[d]) \ {r}
  BY <1>1, <1>4 DEF CycleInv
<1>6. \A d \in Cycles : \A q \in Held(cycle'[d]) \ shared :
         cycle'[d].copy[q] = enriched'[q].data /\ enriched'[q].status = "complete"
  <2> SUFFICES ASSUME NEW d \in Cycles, NEW q \in Held(cycle'[d]) \ shared
               PROVE  cycle'[d].copy[q] = enriched'[q].data /\ enriched'[q].status = "complete"
    OBVIOUS
  <2>1. q # r /\ q \in Held(cycle[d]) \ shared
    BY <1>5
  <2>2. q \in Records
    <3>1. cycle[d].todo \in Seq(Records)
      BY DEF CycleInv, RunOK, Runs
    <3> QED
      BY <2>1, <3>1 DEF Held, Range
  <2>3. enriched'[q] = enriched[q]
    BY <1>3, <2>1, <2>2
  <2>4. cycle[d].copy[q] = enriched[q].data /\ enriched[q].status = "complete"
    BY <2>1 DEF CycleInv
  <2> QED
    BY <1>5, <2>3, <2>4
<1>7. \A q \in Records : RowOK(enriched'[q], answers'[q], lastAnswer'[q], q \in shared)
  BY <1>2, <1>3 DEF CycleInv
<1> QED
  BY <1>1, <1>3, <1>4, <1>5, <1>6, <1>7 DEF CycleInv

(* The first n elements.                                                   *)
LEMMA FirstN ==
    ASSUME NEW S, NEW seq \in Seq(S), NEW n \in 0 .. Len(seq)
    PROVE  /\ SubSeq(seq, 1, n) \in Seq(S) /\ Len(SubSeq(seq, 1, n)) = n
           /\ \A i \in 1 .. n : SubSeq(seq, 1, n)[i] = seq[i]
  OBVIOUS

Fetched(stale) == SubSeq(stale, 1, IF Len(stale) < CYCLE_LIMIT THEN Len(stale) ELSE CYCLE_LIMIT)

(* What a fetch returns: stale records, each once, up to the limit.        *)
LEMMA FetchOK ==
    ASSUME NEW keep
    PROVE  /\ Fetched(Kept(Oldest, keep)) \in Seq(Records)
           /\ \A i, j \in 1 .. Len(Fetched(Kept(Oldest, keep))) :
                  Fetched(Kept(Oldest, keep))[i] = Fetched(Kept(Oldest, keep))[j] => i = j
           /\ Range(Fetched(Kept(Oldest, keep))) \subseteq keep
<1> DEFINE stale == Kept(Oldest, keep)
           n == IF Len(stale) < CYCLE_LIMIT THEN Len(stale) ELSE CYCLE_LIMIT
<1>1. Oldest \in Seq(Records) /\ \A i, j \in 1 .. Len(Oldest) : Oldest[i] = Oldest[j] => i = j
  BY CycleAssumption DEF Records, IsInjective
<1>2. stale \in Seq(Records)
  BY <1>1, KeptProperties
<1>3. \A i, j \in 1 .. Len(stale) : stale[i] = stale[j] => i = j
  BY <1>1, KeptDistinct
<1>8. \A i \in 1 .. Len(stale) : stale[i] \in keep
  BY <1>1, KeptElements
<1> HIDE DEF stale
<1>4. n \in 0 .. Len(stale) /\ n \in Nat
  BY <1>2, CycleAssumption
<1>5. Fetched(stale) = SubSeq(stale, 1, n)
  BY DEF Fetched
<1> HIDE DEF n
<1>6. Fetched(stale) \in Seq(Records) /\ Len(Fetched(stale)) = n /\ \A i \in 1 .. n : Fetched(stale)[i] = stale[i]
  BY <1>2, <1>4, <1>5, FirstN
<1>7. \A i, j \in 1 .. Len(Fetched(stale)) : Fetched(stale)[i] = Fetched(stale)[j] => i = j
  BY <1>2, <1>3, <1>4, <1>6
<1>9. Range(Fetched(stale)) \subseteq keep
  BY <1>2, <1>4, <1>6, <1>8 DEF Range
<1> QED
  BY <1>6, <1>7, <1>9 DEF stale

(* A fetch shares what another execution holds.                            *)
LEMMA FetchStep == ASSUME CycleInv, NEW c \in Cycles, FetchStale(c) PROVE CycleInv'
<1> DEFINE keep == {r \in Records : enriched[r].status = "complete" /\ enriched[r].stale}
           todo == Fetched(Kept(Oldest, keep))
           p == Ends(todo)
           copy == [r \in Records |-> enriched[r].data]
           run == [NoCycle EXCEPT !.todo = todo, !.pc = p, !.copy = copy]
<1>1. /\ SetCycle(c, run) /\ UNCHANGED <<enriched, answers, lastAnswer>>
      /\ shared' = shared \cup {r \in Range(todo) : \E d \in Cycles : r \in Held(cycle[d])}
      /\ cycle[c].pc = "idle"
  BY Zenon DEF FetchStale, Fetched
<1>2. /\ todo \in Seq(Records) /\ \A i, j \in 1 .. Len(todo) : todo[i] = todo[j] => i = j
      /\ Range(todo) \subseteq keep
  BY FetchOK
<1> HIDE DEF todo
<1>3. p \in {"next", "returned"} /\ (p = "next" => todo # <<>>)
  BY DEF Ends
<1>c. copy \in [Records -> Data] /\ \A r \in Records : copy[r] = enriched[r].data
  BY DEF CycleInv, RowOK
<1> HIDE DEF p, copy
<1>4. /\ run \in Runs /\ run.pc = p /\ run.todo = todo /\ run.copy = copy
      /\ run.expired = FALSE /\ run.refreshed = 0 /\ run.failed = 0 /\ run.committed = {}
  <2>1. NoCycle \in Runs
    BY NoCycleOK DEF RunOK
  <2>2. run \in Runs
    BY <1>2, <1>3, <1>c, <2>1 DEF Runs
  <2> QED
    BY <1>2, <1>3, <2>1, <2>2 DEF NoCycle, Runs
<1> HIDE DEF run
<1>5. RunOK(run)
  BY <1>2, <1>3, <1>4, FS_EmptySet DEF RunOK
<1>6. Held(run) \subseteq Range(todo) /\ Range(todo) \subseteq keep /\ keep \subseteq Records
  BY <1>2, <1>4 DEF Held
<1>7. cycle'[c] = run /\ (\A d \in Cycles \ {c} : cycle'[d] = cycle[d]) /\ cycle' = [d \in Cycles |-> cycle'[d]]
  BY <1>1 DEF CycleInv, SetCycle
<1>8. \A d \in Cycles : RunOK(cycle'[d])
  BY <1>5, <1>7 DEF CycleInv
<1>9. ASSUME NEW d \in Cycles, NEW r \in Held(cycle'[d]) \ shared'
      PROVE  cycle'[d].copy[r] = enriched[r].data /\ enriched[r].status = "complete"
  <2>1. CASE d = c
    <3>1. r \in keep /\ r \in Records
      BY <1>6, <1>7, <1>9, <2>1
    <3> QED
      BY <1>4, <1>7, <1>c, <2>1, <3>1
  <2>2. CASE d # c
    <3>1. r \in Held(cycle[d]) \ shared
      BY <1>1, <1>7, <1>9, <2>2
    <3> QED
      BY <1>7, <2>2, <3>1 DEF CycleInv
  <2> QED
    BY <2>1, <2>2
<1>10. ASSUME NEW b \in Cycles, NEW d \in Cycles, b # d
       PROVE  Held(cycle'[b]) \cap Held(cycle'[d]) \subseteq shared'
  <2>1. \A q \in Cycles \ {c} : Held(run) \cap Held(cycle[q]) \subseteq shared'
    BY <1>1, <1>6
  <2>2. shared \subseteq shared'
    BY <1>1
  <2> QED
    BY <1>7, <1>10, <2>1, <2>2 DEF CycleInv
<1>11. \A r \in Records : RowOK(enriched[r], answers[r], lastAnswer[r], r \in shared')
  BY <1>1 DEF CycleInv, RowOK
<1> QED
  BY <1>1, <1>7, <1>8, <1>9, <1>10, <1>11 DEF CycleInv

(* An execution that is done with a record, stored or not, counts it as    *)
(* refreshed or as failed.                                                 *)
LEMMA LeaveOK ==
    ASSUME CycleInv, NEW c \in Cycles, cycle[c].pc \in {"next", "saving"}, ~ cycle[c].expired,
           NEW keeps \in BOOLEAN, NEW run \in Runs, SetCycle(c, run), run.pc = Done(cycle[c]).pc,
           run.todo = Done(cycle[c]).todo, run.copy = Done(cycle[c]).copy,
           run.committed = IF keeps THEN cycle[c].committed \cup {Record(c)} ELSE cycle[c].committed,
           run.refreshed + run.failed = cycle[c].refreshed + 1,
           keeps \/ run.refreshed = cycle[c].refreshed,
           ~ run.expired => run.failed = 0,
           keeps => cycle[c].pc = "saving" /\ StoreAnswer(c),
           ~ keeps => UNCHANGED <<enriched, answers, lastAnswer, shared>>
    PROVE  CycleInv'
<1> DEFINE old == cycle[c]
           r == Head(old.todo)
           d == Done(old)
<1>0. old.todo # <<>> /\ RunOK(old) /\ old.failed = 0 /\ old.pc \in {"next", "saving"} /\ ~ old.expired
  BY DEF CycleInv, RunOK
<1>c. run.committed = IF keeps THEN old.committed \cup {r} ELSE old.committed
  BY DEF Record
<1>n. /\ run.pc = d.pc /\ run.todo = d.todo /\ run.copy = d.copy
      /\ run.refreshed + run.failed = old.refreshed + 1 /\ (keeps \/ run.refreshed = old.refreshed)
  OBVIOUS
<1> HIDE DEF old
<1>1. /\ d \in Runs /\ d.copy = old.copy /\ d.pc \in {"next", "returned"}
      /\ d.pc = "next" => d.todo # <<>>
      /\ \A i, j \in 1 .. Len(d.todo) : d.todo[i] = d.todo[j] => i = j
      /\ \A i \in 1 .. Len(d.todo) : d.todo[i] # r /\ d.todo[i] \notin old.committed
      /\ r \in Records \ old.committed /\ r \in Range(old.todo)
      /\ Range(d.todo) \subseteq Range(old.todo) \ {r}
  BY <1>0, DoneOK
<1> HIDE DEF d, r
<1>3. /\ IsFiniteSet(run.committed)
      /\ run.refreshed <= Cardinality(run.committed) /\ Cardinality(run.committed) <= run.refreshed + run.failed
  <2>1. IsFiniteSet(old.committed) /\ old.refreshed = Cardinality(old.committed) /\ old.refreshed \in Nat
    <3>1. /\ IsFiniteSet(old.committed) /\ old.refreshed \in Nat
          /\ old.refreshed <= Cardinality(old.committed) /\ Cardinality(old.committed) <= old.refreshed + old.failed
      BY <1>0 DEF RunOK, Runs
    <3> QED
      BY <3>1, <1>0, FS_CardinalityType
  <2>2. IsFiniteSet(old.committed \cup {r}) /\ Cardinality(old.committed \cup {r}) = Cardinality(old.committed) + 1
    BY <1>1, <2>1, FS_AddElement
  <2>3. run.refreshed \in Nat /\ run.failed \in 0 .. 1
    BY DEF Runs
  <2>4. CASE keeps
    <3>1. IsFiniteSet(run.committed) /\ Cardinality(run.committed) = old.refreshed + 1
      BY <1>c, <2>1, <2>2, <2>4
    <3> QED
      BY <1>n, <2>1, <2>3, <3>1
  <2>5. CASE ~ keeps
    <3>1. IsFiniteSet(run.committed) /\ Cardinality(run.committed) = old.refreshed /\ run.refreshed = old.refreshed
      BY <1>c, <1>n, <2>1, <2>5
    <3> QED
      BY <1>n, <2>1, <2>3, <3>1
  <2> QED
    BY <2>4, <2>5
<1>4. \A i \in 1 .. Len(run.todo) : run.todo[i] \notin run.committed
  BY <1>1, <1>c, <1>n
<1>5. RunOK(run)
  BY <1>1, <1>3, <1>4, <1>n DEF RunOK
<1>7. Held(run) \subseteq Held(old) \ {r} /\ r \in Held(old) /\ r \in Records
  BY <1>0, <1>1, <1>n DEF Held
<1>8. CASE keeps
  BY <1>1, <1>5, <1>7, <1>8, <1>n, StoreOK DEF old, r, Record
<1>9. CASE ~ keeps
  BY <1>1, <1>5, <1>7, <1>9, <1>n, OneRun DEF old
<1> QED
  BY <1>8, <1>9

(* Each step of a cycle keeps it.                                          *)
LEMMA CycleStep == CycleInv /\ [CycleNext]_cycleVars => CycleInv'
<1> SUFFICES ASSUME CycleInv, [CycleNext]_cycleVars PROVE CycleInv'
  OBVIOUS
<1>r. ASSUME NEW c \in Cycles
      PROVE  RunOK(cycle[c]) /\ cycle[c] \in Runs /\ cycle[c].todo \in Seq(Records)
  BY DEF CycleInv, RunOK, Runs
<1>1. ASSUME NEW c \in Cycles, FetchStale(c) PROVE CycleInv'
  BY <1>1, FetchStep
<1>2. ASSUME NEW c \in Cycles, Skip(c) PROVE CycleInv'
  <2> DEFINE old == cycle[c]
             d == Done(old)
             n == d.skipped + 1
             run == [d EXCEPT !.skipped = n]
  <2>0. old.pc = "next" /\ ~ old.expired /\ RunOK(old) /\ old.todo # <<>>
    BY <1>2, <1>r DEF RunOK, Skip
  <2>s. SetCycle(c, run) /\ UNCHANGED <<enriched, answers, lastAnswer, shared>>
    BY <1>2 DEF Skip
  <2> HIDE DEF old
  <2>1. /\ d \in Runs /\ d.committed = old.committed /\ d.copy = old.copy /\ d.expired = old.expired
        /\ d.refreshed = old.refreshed /\ d.failed = old.failed /\ d.pc \in {"next", "returned"}
        /\ d.pc = "next" => d.todo # <<>>
        /\ \A i, j \in 1 .. Len(d.todo) : d.todo[i] = d.todo[j] => i = j
        /\ \A i \in 1 .. Len(d.todo) : d.todo[i] \notin old.committed
        /\ Range(d.todo) \subseteq Range(old.todo)
    BY <2>0, DoneOK
  <2> HIDE DEF d
  <2>2. n \in Nat
    BY <2>1 DEF Runs
  <2> HIDE DEF n
  <2>3. /\ run \in Runs /\ run.pc = d.pc /\ run.todo = d.todo /\ run.copy = d.copy
        /\ run.expired = d.expired /\ run.refreshed = d.refreshed /\ run.failed = d.failed
        /\ run.committed = d.committed
    BY <2>1, <2>2 DEF Runs
  <2> HIDE DEF run
  <2>4. RunOK(run)
    BY <2>0, <2>1, <2>3 DEF RunOK
  <2>5. Held(run) \subseteq Held(old)
    BY <2>0, <2>1, <2>3 DEF Held
  <2> QED
    BY <2>s, <2>1, <2>3, <2>4, <2>5, OneRun DEF old
<1>3. ASSUME NEW c \in Cycles, CallApollo(c) PROVE CycleInv'
  <2>1. PICK answer \in Returned : SetCycle(c, [cycle[c] EXCEPT !.pc = "saving", !.answer = answer])
    BY <1>3 DEF CallApollo, Returned
  <2> DEFINE run == [cycle[c] EXCEPT !.pc = "saving", !.answer = answer]
             old == cycle[c]
  <2>2. /\ run \in Runs /\ run.pc = "saving" /\ run.todo = old.todo /\ run.copy = old.copy
        /\ run.expired = old.expired /\ run.refreshed = old.refreshed /\ run.failed = old.failed
        /\ run.committed = old.committed
    BY <1>r, <2>1 DEF Runs
  <2>3. old.pc = "next" /\ ~ old.expired /\ RunOK(old)
    BY <1>3, <1>r DEF CallApollo
  <2> HIDE DEF run, old
  <2>4. RunOK(run) /\ Held(run) \subseteq Held(old)
    BY <2>2, <2>3 DEF RunOK, Held
  <2> QED
    BY <1>3, <2>1, <2>2, <2>4, OneRun DEF CallApollo, run, old
<1>e. ASSUME NEW c \in Cycles, cycle[c].pc \in {"next", "saving"}, ~ cycle[c].expired
      PROVE  LET d == Done(cycle[c])
             IN  /\ d \in Runs /\ d.expired = FALSE /\ d.failed = 0 /\ d.committed = cycle[c].committed
                 /\ d.refreshed = cycle[c].refreshed /\ d.committed \cup {Record(c)} \in SUBSET Records
                 /\ d.committed \in SUBSET Records
  <2>1. cycle[c].todo # <<>> /\ cycle[c].failed = 0
    BY <1>e, <1>r DEF RunOK
  <2>2. Head(cycle[c].todo) \in Records
    BY <1>r, <2>1, DoneOK
  <2>3. /\ Done(cycle[c]) \in Runs /\ Done(cycle[c]).expired = cycle[c].expired
        /\ Done(cycle[c]).failed = cycle[c].failed /\ Done(cycle[c]).committed = cycle[c].committed
        /\ Done(cycle[c]).refreshed = cycle[c].refreshed
    BY <1>r, <2>1, DoneOK
  <2> QED
    BY <1>e, <2>1, <2>2, <2>3 DEF Record, Runs
<1>4. ASSUME NEW c \in Cycles, Save(c) PROVE CycleInv'
  <2>1. cycle[c].pc = "saving" /\ ~ cycle[c].expired
    BY <1>4, <1>r DEF Save, RunOK
  <2> DEFINE d == Done(cycle[c])
             n == d.refreshed + 1
             stored == d.committed \cup {Record(c)}
             run == [d EXCEPT !.refreshed = n, !.committed = stored]
  <2>2. /\ d \in Runs /\ d.expired = FALSE /\ d.failed = 0 /\ d.committed = cycle[c].committed
        /\ d.refreshed = cycle[c].refreshed /\ stored \in SUBSET Records
    BY <1>e, <2>1
  <2>3. SetCycle(c, run) /\ StoreAnswer(c)
    BY <1>4 DEF Save
  <2> HIDE DEF d
  <2>4. n \in Nat
    BY <2>2 DEF Runs
  <2>5. n = cycle[c].refreshed + 1 /\ stored = cycle[c].committed \cup {Record(c)}
    BY <2>2
  <2> HIDE DEF n, stored
  <2>6. /\ run \in Runs /\ run.pc = d.pc /\ run.todo = d.todo /\ run.copy = d.copy
        /\ run.refreshed = n /\ run.failed = 0 /\ run.committed = stored
    BY <2>2, <2>4 DEF Runs
  <2>7. cycle[c].refreshed \in Nat
    BY <1>r DEF Runs
  <2> HIDE DEF run
  <2>8. run.refreshed + run.failed = cycle[c].refreshed + 1
    BY <2>5, <2>6, <2>7
  <2> QED
    BY <2>1, <2>3, <2>5, <2>6, <2>8, LeaveOK DEF d
<1>f. ASSUME NEW c \in Cycles, cycle[c].pc \in {"next", "saving"}, ~ cycle[c].expired, NEW keeps \in BOOLEAN,
             NEW stored, stored = IF keeps THEN Done(cycle[c]).committed \cup {Record(c)}
                                  ELSE Done(cycle[c]).committed,
             SetCycle(c, [Done(cycle[c]) EXCEPT !.failed = @ + 1, !.expired = TRUE, !.committed = stored]),
             keeps => cycle[c].pc = "saving" /\ StoreAnswer(c),
             ~ keeps => UNCHANGED <<enriched, answers, lastAnswer, shared>>
      PROVE  CycleInv'
  <2> DEFINE d == Done(cycle[c])
             f == d.failed + 1
             run == [d EXCEPT !.failed = f, !.expired = TRUE, !.committed = stored]
  <2>2. /\ d \in Runs /\ d.expired = FALSE /\ d.failed = 0 /\ d.committed = cycle[c].committed
        /\ d.refreshed = cycle[c].refreshed /\ stored \in SUBSET Records
        /\ stored = IF keeps THEN cycle[c].committed \cup {Record(c)} ELSE cycle[c].committed
    BY <1>e, <1>f
  <2>3. SetCycle(c, run)
    BY <1>f
  <2> HIDE DEF d
  <2>4. f \in 0 .. 1 /\ f = 1
    BY <2>2
  <2> HIDE DEF f
  <2>6. /\ run \in Runs /\ run.pc = d.pc /\ run.todo = d.todo /\ run.copy = d.copy /\ run.expired
        /\ run.refreshed = d.refreshed /\ run.failed = f /\ run.committed = stored
    BY <2>2, <2>4 DEF Runs
  <2>7. cycle[c].refreshed \in Nat
    BY <1>r DEF Runs
  <2> HIDE DEF run
  <2>8. run.refreshed + run.failed = cycle[c].refreshed + 1 /\ run.refreshed = cycle[c].refreshed
    BY <2>2, <2>4, <2>6, <2>7
  <2> QED
    BY <1>f, <2>2, <2>3, <2>6, <2>8, LeaveOK DEF d
<1>g. ASSUME NEW c \in Cycles, cycle[c].pc \in {"next", "saving"}, ~ cycle[c].expired,
             SetCycle(c, [Done(cycle[c]) EXCEPT !.failed = @ + 1, !.expired = TRUE]),
             UNCHANGED <<enriched, answers, lastAnswer, shared>>
      PROVE  CycleInv'
  <2> DEFINE d == Done(cycle[c])
             f == d.failed + 1
  <2>1. d \in Runs
    BY <1>e, <1>g
  <2>2. SetCycle(c, [d EXCEPT !.failed = f, !.expired = TRUE])
    BY <1>g
  <2> HIDE DEF d, f
  <2>3. [d EXCEPT !.failed = f, !.expired = TRUE] = [d EXCEPT !.failed = f, !.expired = TRUE, !.committed = d.committed]
    BY <2>1 DEF Runs
  <2> QED
    BY <1>f, <1>g, <2>2, <2>3 DEF d, f
<1>5. ASSUME NEW c \in Cycles, RefreshFails(c) PROVE CycleInv'
  BY <1>5, <1>g DEF RefreshFails
<1>6. ASSUME NEW c \in Cycles, CommitFails(c) PROVE CycleInv'
  <2>1. cycle[c].pc = "saving" /\ ~ cycle[c].expired
    BY <1>6, <1>r DEF CommitFails, RunOK
  <2>2. CASE /\ SetCycle(c, [Done(cycle[c]) EXCEPT !.failed = @ + 1, !.expired = TRUE])
             /\ UNCHANGED <<enriched, answers, lastAnswer, shared>>
    BY <1>g, <2>1, <2>2
  <2>3. CASE /\ SetCycle(c, [Done(cycle[c]) EXCEPT !.failed = @ + 1, !.expired = TRUE,
                                                    !.committed = @ \cup {Record(c)}])
             /\ StoreAnswer(c)
    BY <1>f, <2>1, <2>3
  <2> QED
    BY <1>6, <2>2, <2>3 DEF CommitFails
<1>7. ASSUME NEW c \in Cycles, NEW e \in BOOLEAN, cycle[c].pc \in {"next", "saving"}, cycle[c].expired => e,
             SetCycle(c, [cycle[c] EXCEPT !.pc = "raised", !.expired = e]),
             UNCHANGED <<enriched, answers, lastAnswer, shared>>
      PROVE  CycleInv'
  <2> DEFINE old == cycle[c]
             run == [old EXCEPT !.pc = "raised", !.expired = e]
  <2>1. RunOK(old) /\ old \in Runs /\ (old.expired => e)
    BY <1>7, <1>r
  <2>2. SetCycle(c, run)
    BY <1>7
  <2> HIDE DEF old
  <2>3. /\ run \in Runs /\ run.pc = "raised" /\ run.todo = old.todo /\ run.copy = old.copy
        /\ run.expired = e /\ run.refreshed = old.refreshed /\ run.failed = old.failed
        /\ run.committed = old.committed
    BY <2>1 DEF Runs
  <2> HIDE DEF run
  <2>4. RunOK(run) /\ Held(run) = {}
    BY <2>1, <2>3 DEF RunOK, Held
  <2> QED
    BY <1>7, <2>2, <2>3, <2>4, OneRun DEF old
<1>8. ASSUME NEW c \in Cycles, FlushFails(c) PROVE CycleInv'
  BY <1>7, <1>8 DEF FlushFails
<1>9. ASSUME NEW c \in Cycles, ReadExpired(c) PROVE CycleInv'
  <2>1. [cycle[c] EXCEPT !.pc = "raised"] = [cycle[c] EXCEPT !.pc = "raised", !.expired = TRUE]
    BY <1>9, <1>r DEF ReadExpired, Runs
  <2> QED
    BY <1>7, <1>9, <2>1 DEF ReadExpired
<1>10. CASE GoStale
  <2>1. PICK r \in Records : enriched' = [enriched EXCEPT ![r] = [@ EXCEPT !.stale = TRUE]]
    BY <1>10 DEF GoStale
  <2>2. UNCHANGED <<cycle, answers, lastAnswer, shared>>
    BY <1>10 DEF GoStale
  <2>3. /\ \A q \in Records : enriched'[q].status = enriched[q].status /\ enriched'[q].data = enriched[q].data
        /\ \A q \in Records : enriched'[q] \in [status : Answered, data : Data, stale : BOOLEAN]
        /\ enriched' = [q \in Records |-> enriched'[q]]
    BY <2>1 DEF CycleInv, RowOK
  <2>4. \A q \in Records : RowOK(enriched'[q], answers[q], lastAnswer[q], q \in shared)
    BY <2>3 DEF CycleInv, RowOK
  <2>5. \A c \in Cycles : Held(cycle[c]) \subseteq Records
    BY <1>r DEF Held, Range
  <2>6. \A c \in Cycles : \A q \in Held(cycle[c]) \ shared :
            cycle[c].copy[q] = enriched'[q].data /\ enriched'[q].status = "complete"
    BY <2>3, <2>5 DEF CycleInv
  <2> QED
    BY <2>2, <2>3, <2>4, <2>6 DEF CycleInv
<1>11. CASE UNCHANGED cycleVars
  BY <1>11 DEF CycleInv, cycleVars
<1> QED
  BY <1>1, <1>2, <1>3, <1>4, <1>5, <1>6, <1>8, <1>9, <1>10, <1>11 DEF CycleNext

(* A run that has failed saves nothing more: its session is expired.       *)
LEMMA CycleActions == CycleInv /\ [CycleNext]_cycleVars => [NothingAfterAFailure]_cycleVars
<1> SUFFICES ASSUME CycleInv, CycleNext, NEW c \in Cycles, cycle[c].expired
             PROVE  cycle'[c].committed = cycle[c].committed
  BY DEF NothingAfterAFailure
<1>1. /\ cycle[c].pc # "idle" /\ cycle[c].pc # "saving" /\ cycle[c] \in Runs
      /\ cycle = [d \in Cycles |-> cycle[d]]
  BY DEF CycleInv, RunOK
<1>2. cycle'[c] = cycle[c] \/ cycle'[c] = [cycle[c] EXCEPT !.pc = "raised"]
  BY <1>1 DEF CycleNext, FetchStale, Skip, CallApollo, RefreshFails, CommitFails, FlushFails, Save, ReadExpired,
              GoStale, SetCycle
<1> QED
  BY <1>1, <1>2 DEF Runs

(* A record is what was answered for it and the counts of a cycle are what *)
(* it committed, for any records, answers and overlapping cycles.          *)
THEOREM CycleHolds == CycleSpec => CycleSafety
<1>1. CycleSpec => []CycleInv
  BY CycleInitially, CycleStep, PTL DEF CycleSpec
<1>2. CycleInv => UnsharedHoldsAnswer
  BY DEF CycleInv, UnsharedHoldsAnswer, RowOK
<1>3. CycleInv => CompleteNeverFailed
  BY DEF CycleInv, CompleteNeverFailed, RowOK
<1>4. CycleInv => RefreshedIsCommitted
  <2> SUFFICES ASSUME CycleInv, NEW c \in Cycles
               PROVE  /\ cycle[c].refreshed <= Cardinality(cycle[c].committed)
                      /\ Cardinality(cycle[c].committed) <= cycle[c].refreshed + cycle[c].failed
                      /\ cycle[c].failed <= 1
    BY DEF RefreshedIsCommitted
  <2>1. RunOK(cycle[c])
    BY DEF CycleInv
  <2> QED
    BY <2>1 DEF RunOK, Runs
<1> QED
  BY <1>1, <1>2, <1>3, <1>4, CycleActions, PTL DEF CycleSpec, CycleSafety
=============================================================================

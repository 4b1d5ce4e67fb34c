----------------------- MODULE ProfileEnrichment_proofs -----------------------
(***************************************************************************)
(* Proofs about ProfileEnrichment, for any sources, pages, proposals and   *)
(* bounds, and any number of scan tasks and requests at once.  What two    *)
(* writers can spoil is excepted by name: the proposals that two requests  *)
(* decided, the scans that overlapped, the sources that two scans held.    *)
(***************************************************************************)
EXTENDS ProfileEnrichment, FiniteSetTheorems, TLAPS

-----------------------------------------------------------------------------
\* The types.  A request names proposals that exist; a scan that works on a
\* source works on one of its consultant.

Reading(w) == scan[w].pc \in {"extract", "accepted", "rejected", "pending"}

OwnSource(w) == Reading(w) => scan[w].at \in Sources /\ Owner[scan[w].at] = scan[w].who

OwnFound(w) == \A f \in scan[w].found : Owner[f.source] = scan[w].who

NamesRows(q) ==
    /\ req[q].pc = "insert" => req[q].source \in Sources
    /\ \A i \in DOMAIN req[q].todo : req[q].todo[i] \in DOMAIN proposals
    /\ req[q].done \subseteq DOMAIN proposals

(* A scan that has missed a source remembers that it failed.               *)
Missed(w) == scan[w].missed # {} => scan[w].failed

(* A scan was numbered when it began.                                      *)
Numbered(w) == scan[w].cycle <= cycles

TInv ==
    /\ TypeOK
    /\ \A w \in Scans : OwnSource(w) /\ OwnFound(w) /\ Missed(w) /\ Numbered(w)
    /\ \A q \in Requests : NamesRows(q)
    /\ CompletedMissedNothing

(* There is a consultant, and the empty locals are locals.                 *)
LEMMA Empty ==
    /\ Nobody \in Consultants
    /\ NoScan \in Scan
    /\ NoRequest \in Request
<1>1. Nobody \in Consultants
  BY EnrichmentAssumption DEF EnrichmentAssumption, Nobody, Consultants
<1>2. [s \in Sources |-> 0] \in [Sources -> Nat]
  OBVIOUS
<1>3. NoScan \in Scan
  BY <1>1, <1>2 DEF NoScan, Scan
<1>4. NoRequest \in Request
  BY <1>1 DEF NoRequest, Request, AllOps
<1>5. QED
  BY <1>1, <1>3, <1>4

(* A scan finds finitely many candidates.                                  *)
LEMMA FoundIsFinite == ASSUME NEW S \in SUBSET Found PROVE IsFiniteSet(S)
<1>1. IsFiniteSet(Sources \X Candidates)
  BY EnrichmentAssumption, FS_Product DEF EnrichmentAssumption
<1> DEFINE F == {[source |-> x[1], cand |-> x[2]] : x \in Sources \X Candidates}
<1>2. IsFiniteSet(F)
  <2> DEFINE f == [x \in Sources \X Candidates |-> [source |-> x[1], cand |-> x[2]]]
  <2>1. f \in Surjection(Sources \X Candidates, F)
    BY DEF Surjection
  <2> HIDE DEF f, F
  <2>2. QED
    BY <1>1, <2>1, FS_Surjection
<1>3. S \subseteq F
  <2>1. ASSUME NEW r \in Found PROVE r \in F
    <3>1. <<r.source, r.cand>> \in Sources \X Candidates /\ r = [source |-> r.source, cand |-> r.cand]
      BY DEF Found
    <3>2. QED
      BY <3>1
  <2>2. QED
    BY <2>1
<1>4. QED
  BY <1>2, <1>3, FS_Subset

(* The rows that a commit appends.                                         *)
LEMMA RowsOfFound ==
    ASSUME NEW S \in SUBSET Found, NEW rows \in SetToSeqs(S)
    PROVE  rows \in Seq(S)
<1>1. Cardinality(S) \in Nat
  BY FoundIsFinite, FS_CardinalityType
<1>2. rows \in [1 .. Cardinality(S) -> S]
  BY DEF SetToSeqs
<1>3. QED
  BY <1>1, <1>2

(* The tables and the idle tasks have their types.                         *)
LEMMA InitTypes == Init => TInv
<1> SUFFICES ASSUME Init PROVE TInv
  OBVIOUS
<1>1. TypeOK
  <2>1. sources \in [Sources -> Source] /\ misses \in [Sources -> Nat]
    BY EnrichmentAssumption DEF EnrichmentAssumption, Init, Source
  <2>2. scan \in [Scans -> Scan] /\ req \in [Requests -> Request]
    BY Empty DEF Init
  <2>3. /\ proposals \in Seq(Proposal) /\ audit = {} /\ notices \in [Sources -> Nat]
        /\ scanned \in History \cup {NoHistory}
    BY DEF Init
  <2>4. cycles \in 0 .. MaxCycles /\ requests \in 0 .. MaxRequests
    BY EnrichmentAssumption DEF EnrichmentAssumption, Init
  <2>5. contested = {} /\ beside = {} /\ crossed = {}
    BY DEF Init
  <2>6. QED
    BY <2>1, <2>2, <2>3, <2>4, <2>5 DEF TypeOK
<1>2. ASSUME NEW w \in Scans PROVE OwnSource(w) /\ OwnFound(w) /\ Missed(w) /\ Numbered(w)
  BY DEF Init, OwnSource, OwnFound, Missed, Numbered, Reading, NoScan
<1>3. ASSUME NEW q \in Requests PROVE NamesRows(q)
  BY DEF Init, NamesRows, NoRequest
<1>4. CompletedMissedNothing
  BY DEF Init, CompletedMissedNothing, NoHistory
<1>5. QED
  BY <1>1, <1>2, <1>3, <1>4 DEF TInv

-----------------------------------------------------------------------------
\* Steps of a scan on its own locals.

(* With is about rows that exist: their keys are keys.                     *)
LEMMA WithIsKeys ==
    ASSUME TypeOK, NEW c, NEW status
    PROVE  With(c, status) \subseteq Keys
<1>1. \A n \in DOMAIN proposals : proposals[n] \in Proposal
  BY DEF TypeOK
<1>2. \A n \in DOMAIN proposals : proposals[n].key \in Keys
  BY <1>1 DEF Proposal
<1>3. QED
  BY <1>2 DEF With

(* A scan that leaves a source out remembers that it missed it, and        *)
(* nothing else changes.                                                   *)
LEMMA SkippedIsScan ==
    ASSUME TypeOK, NEW w \in Scans, NEW s \in Sources
    PROVE  /\ Skipped(w, s) \in Scan
           /\ Skipped(w, s).pc = "fetch" /\ Skipped(w, s).who = scan[w].who
           /\ Skipped(w, s).found = scan[w].found /\ Skipped(w, s).failed
           /\ Skipped(w, s).settled = scan[w].settled
           /\ Skipped(w, s).copy = scan[w].copy /\ Skipped(w, s).loaded = scan[w].loaded
           /\ Skipped(w, s).ok = scan[w].ok /\ Skipped(w, s).missed = scan[w].missed \cup {s}
           /\ Skipped(w, s).todo = scan[w].todo \ {s} /\ Skipped(w, s).cycle = scan[w].cycle
<1>1. scan[w] \in Scan
  BY DEF TypeOK
<1>2. QED
  BY <1>1 DEF Skipped, Scan

(* A scan that has read a source has found its new candidates, and         *)
(* nothing else changes.                                                   *)
LEMMA ReadIsScan ==
    ASSUME TypeOK, NEW w \in Scans, scan[w].at \in Sources, NEW new \in SUBSET Candidates
    PROVE  LET s == scan[w].at IN
           /\ Read(w, new) \in Scan
           /\ Read(w, new).pc = "fetch" /\ Read(w, new).who = scan[w].who
           /\ Read(w, new).found = scan[w].found \cup [source : {s}, cand : new]
           /\ Read(w, new).failed = scan[w].failed /\ Read(w, new).missed = scan[w].missed
           /\ Read(w, new).settled = scan[w].settled
           /\ Read(w, new).copy = [scan[w].copy EXCEPT ![s] = 0]
           /\ Read(w, new).loaded = scan[w].loaded
           /\ Read(w, new).ok = scan[w].ok \cup {s}
           /\ Read(w, new).todo = scan[w].todo \ {s} /\ Read(w, new).cycle = scan[w].cycle
<1>1. scan[w] \in Scan
  BY DEF TypeOK
<1>2. [source : {scan[w].at}, cand : new] \subseteq Found
  BY DEF Found
<1>3. [scan[w].copy EXCEPT ![scan[w].at] = 0] \in [Sources -> Nat]
  BY <1>1 DEF Scan
<1> DEFINE r == Read(w, new)
           found == scan[w].found \cup [source : {scan[w].at}, cand : new]
<1>4. found \in SUBSET Found
  BY <1>1, <1>2 DEF Scan
<1>5. r = [scan[w] EXCEPT !.pc = "fetch", !.at = NoSource, !.page = {}, !.names = {}, !.rejected = {},
                          !.todo = @ \ {scan[w].at}, !.ok = @ \cup {scan[w].at},
                          !.copy = [@ EXCEPT ![scan[w].at] = 0], !.found = found]
  BY <1>1 DEF Read, Scan
<1> HIDE DEF r, found
<1>6. r \in Scan
  BY <1>1, <1>3, <1>4, <1>5 DEF Scan
<1>7. r.pc = "fetch" /\ r.who = scan[w].who /\ r.found = found /\ r.failed = scan[w].failed
  BY <1>1, <1>5 DEF Scan
<1>8. r.missed = scan[w].missed /\ r.settled = scan[w].settled /\ r.loaded = scan[w].loaded
  BY <1>1, <1>5 DEF Scan
<1>9. r.copy = [scan[w].copy EXCEPT ![scan[w].at] = 0] /\ r.ok = scan[w].ok \cup {scan[w].at}
  BY <1>1, <1>5 DEF Scan
<1>10. r.todo = scan[w].todo \ {scan[w].at} /\ r.cycle = scan[w].cycle
  BY <1>1, <1>5 DEF Scan
<1>11. QED
  BY <1>6, <1>7, <1>8, <1>9, <1>10 DEF r, found

(* A scan step on its locals leaves the types of everything else.          *)
LEMMA OneScan ==
    ASSUME TInv, NEW w \in Scans, NEW r \in Scan, scan' = [scan EXCEPT ![w] = r],
           r.pc \in {"extract", "accepted", "rejected", "pending"} =>
               r.at \in Sources /\ Owner[r.at] = r.who,
           \A f \in r.found : Owner[f.source] = r.who,
           r.missed # {} => r.failed,
           r.cycle <= cycles', cycles <= cycles',
           beside' \subseteq Ordered, crossed' \subseteq Sources,
           notices' \in [Sources -> Nat], misses' \in [Sources -> Nat], cycles' \in 0 .. MaxCycles,
           UNCHANGED <<sources, proposals, audit, scanned, contested, req, requests>>
    PROVE  TInv'
<1>1. TypeOK'
  BY DEF TInv, TypeOK
<1>2. ASSUME NEW v \in Scans PROVE (OwnSource(v) /\ OwnFound(v) /\ Missed(v) /\ Numbered(v))'
  <2>1. (OwnSource(v) /\ OwnFound(v) /\ Missed(v))'
    BY DEF TInv, TypeOK, OwnSource, OwnFound, Missed, Reading
  <2>2. scan[v].cycle \in Nat /\ scan[v].cycle <= cycles /\ cycles \in Nat /\ cycles' \in Nat
    BY DEF TInv, TypeOK, Numbered, Scan
  <2>3. scan'[v] = IF v = w THEN r ELSE scan[v]
    BY DEF TInv, TypeOK
  <2>4. Numbered(v)'
    BY <2>2, <2>3 DEF Numbered
  <2>5. QED
    BY <2>1, <2>4
<1>3. ASSUME NEW q \in Requests PROVE NamesRows(q)'
  BY DEF TInv, NamesRows
<1>4. CompletedMissedNothing'
  BY DEF TInv, CompletedMissedNothing
<1>5. QED
  BY <1>1, <1>2, <1>3, <1>4 DEF TInv

(* The steps that change the locals of a scan only.                        *)
LEMMA LocalTypes ==
    ASSUME TInv, NEW w \in Scans,
           \/ BeginScan(w) \/ Fetch(w) \/ Extract(w) \/ ReadAccepted(w) \/ ReadRejected(w)
           \/ ReadPending(w) \/ AbortScan(w)
    PROVE  TInv'
<1>0. /\ TypeOK /\ scan[w] \in Scan /\ OwnSource(w) /\ OwnFound(w) /\ Missed(w) /\ scan[w].cycle <= cycles
      /\ beside \subseteq Ordered /\ crossed \subseteq Sources
      /\ notices \in [Sources -> Nat] /\ misses \in [Sources -> Nat]
      /\ cycles \in 0 .. MaxCycles /\ MaxCycles \in Nat
  BY EnrichmentAssumption DEF EnrichmentAssumption, TInv, TypeOK, Numbered
<1>s. ASSUME NEW s \in Sources
      PROVE  /\ Skipped(w, s) \in Scan /\ Skipped(w, s).pc = "fetch" /\ Skipped(w, s).failed
             /\ Skipped(w, s).cycle = scan[w].cycle
             /\ \A f \in Skipped(w, s).found : Owner[f.source] = Skipped(w, s).who
  BY <1>0, SkippedIsScan DEF OwnFound
<1>r. ASSUME scan[w].at \in Sources, NEW new \in SUBSET Candidates, Owner[scan[w].at] = scan[w].who
      PROVE  /\ Read(w, new) \in Scan /\ Read(w, new).pc = "fetch" /\ Read(w, new).cycle = scan[w].cycle
             /\ Read(w, new).missed # {} => Read(w, new).failed
             /\ \A f \in Read(w, new).found : Owner[f.source] = Read(w, new).who
  <2>1. /\ Read(w, new).found = scan[w].found \cup [source : {scan[w].at}, cand : new]
        /\ Read(w, new) \in Scan /\ Read(w, new).pc = "fetch" /\ Read(w, new).who = scan[w].who
        /\ Read(w, new).failed = scan[w].failed /\ Read(w, new).missed = scan[w].missed
        /\ Read(w, new).cycle = scan[w].cycle
    BY <1>0, <1>r, ReadIsScan
  <2>2. \A f \in [source : {scan[w].at}, cand : new] : Owner[f.source] = scan[w].who
    BY <1>r
  <2>3. QED
    BY <1>0, <2>1, <2>2 DEF OwnFound, Missed
<1>l. ASSUME NEW r \in Scan, scan' = [scan EXCEPT ![w] = r],
             r.pc \in {"extract", "accepted", "rejected", "pending"} =>
                 r.at \in Sources /\ Owner[r.at] = r.who,
             \A f \in r.found : Owner[f.source] = r.who,
             r.missed # {} => r.failed,
             r.cycle <= cycles,
             notices' \in [Sources -> Nat], misses' \in [Sources -> Nat],
             UNCHANGED <<sources, proposals, audit, scanned, overlaps, req, cycles, requests>>
      PROVE  TInv'
  <2>1. UNCHANGED <<contested, beside, crossed>>
    BY <1>l DEF overlaps
  <2>2. cycles' \in 0 .. MaxCycles /\ cycles <= cycles' /\ r.cycle <= cycles'
        /\ beside' \subseteq Ordered /\ crossed' \subseteq Sources
    BY <1>0, <1>l, <2>1
  <2>3. QED
    BY <1>l, <2>1, <2>2, OneScan
<1>1. CASE BeginScan(w)
  <2>0. PICK todo \in Targets \ {{}} : \E s \in todo :
            scan' = [scan EXCEPT ![w] =
                     [NoScan EXCEPT
                        !.pc = "fetch", !.cycle = cycles + 1, !.todo = todo,
                        !.who = Owner[s],
                        !.loaded = [u \in Sources |->
                                      IF u \in todo THEN sources[u].failures ELSE 0],
                        !.copy = [u \in Sources |->
                                    IF u \in todo THEN sources[u].failures ELSE 0],
                        !.settled = UNION {{c} \X With(c, "rejected") : c \in Consultants}]]
    BY <1>1, Zenon DEF BeginScan
  <2>1. PICK s \in todo :
            scan' = [scan EXCEPT ![w] =
                     [NoScan EXCEPT
                        !.pc = "fetch", !.cycle = cycles + 1, !.todo = todo,
                        !.who = Owner[s],
                        !.loaded = [u \in Sources |->
                                      IF u \in todo THEN sources[u].failures ELSE 0],
                        !.copy = [u \in Sources |->
                                    IF u \in todo THEN sources[u].failures ELSE 0],
                        !.settled = UNION {{c} \X With(c, "rejected") : c \in Consultants}]]
    BY <2>0
  <2> DEFINE counts == [u \in Sources |-> IF u \in todo THEN sources[u].failures ELSE 0]
             settled == UNION {{c} \X With(c, "rejected") : c \in Consultants}
             r == [NoScan EXCEPT !.pc = "fetch", !.cycle = cycles + 1, !.todo = todo, !.who = Owner[s],
                                 !.loaded = counts, !.copy = counts, !.settled = settled]
  <2>2. todo \in SUBSET Sources /\ Owner[s] \in Consultants
    BY DEF Targets, Consultants
  <2>3. counts \in [Sources -> Nat]
    BY <1>0 DEF TypeOK, Source
  <2>4. settled \in SUBSET (Consultants \X Keys)
    BY <1>0, WithIsKeys
  <2>5. cycles + 1 \in Nat /\ NoScan \in Scan
    BY <1>0, Empty
  <2> HIDE DEF counts, settled
  <2>6. r \in Scan
    BY <2>2, <2>3, <2>4, <2>5 DEF Scan
  <2>7. r.pc = "fetch" /\ r.missed = {} /\ r.found = {} /\ r.cycle = cycles + 1
    BY <2>5 DEF NoScan
  <2>8. scan' = [scan EXCEPT ![w] = r]
    BY <2>1 DEF counts, settled
  <2>9. cycles' \in 0 .. MaxCycles
    <3>1. cycles < MaxCycles /\ cycles' = cycles + 1
      BY <1>1 DEF BeginScan
    <3>2. QED
      BY <1>0, <3>1
  <2>10. beside' \subseteq Ordered /\ crossed' \subseteq Sources
    <3>1. \A v \in Scans : scan[v].cycle \in Nat /\ scan[v].cycle <= cycles /\ cycles \in Nat
      BY DEF TInv, TypeOK, Scan, Numbered
    <3>2. beside' = beside \cup {<<scan[v].cycle, cycles + 1>> : v \in {u \in Scans : scan[u].pc # "idle"}}
      BY <1>1 DEF BeginScan
    <3>3. crossed' \subseteq crossed \cup Sources
      BY <1>1 DEF BeginScan, Targets
    <3>4. ASSUME NEW v \in Scans PROVE <<scan[v].cycle, cycles + 1>> \in Ordered
      BY <3>1 DEF Ordered
    <3>5. beside' \subseteq Ordered
      BY <1>0, <3>2, <3>4
    <3>6. QED
      BY <1>0, <3>3, <3>5
  <2>11. r.cycle <= cycles' /\ cycles <= cycles'
    <3>1. cycles' = cycles + 1
      BY <1>1 DEF BeginScan
    <3> HIDE DEF r
    <3>2. QED
      BY <1>0, <2>7, <3>1
  <2> HIDE DEF r
  <2>12. QED
    BY <1>0, <1>1, <2>6, <2>7, <2>8, <2>9, <2>10, <2>11, OneScan DEF BeginScan
<1>2. CASE Fetch(w)
  <2>1. PICK s \in Left(w) :
          \/ /\ scan' = [scan EXCEPT ![w] = [@ EXCEPT !.pc = "extract", !.at = s]]
             /\ UNCHANGED <<notices, misses>>
          \/ LET count == scan[w].copy[s] + 1
             IN /\ scan' = [scan EXCEPT ![w] = [Skipped(w, s) EXCEPT !.copy[s] = count]]
                /\ misses' = [misses EXCEPT ![s] = @ + 1]
                /\ notices' = [notices EXCEPT ![s] = IF count = THRESHOLD THEN @ + 1 ELSE @]
          \/ /\ scan' = [scan EXCEPT ![w] = Skipped(w, s)]
             /\ UNCHANGED <<notices, misses>>
    BY <1>2, Zenon DEF Fetch
  <2>2. s \in Sources /\ Owner[s] = scan[w].who
    BY <1>0 DEF Left, Scan
  <2>3. CASE scan' = [scan EXCEPT ![w] = [@ EXCEPT !.pc = "extract", !.at = s]] /\ UNCHANGED <<notices, misses>>
    <3> DEFINE r == [scan[w] EXCEPT !.pc = "extract", !.at = s]
    <3>1. r \in Scan /\ r.at = s /\ r.who = scan[w].who /\ r.found = scan[w].found
      BY <1>0, <2>2 DEF Scan
    <3>2. r.missed = scan[w].missed /\ r.failed = scan[w].failed /\ r.cycle = scan[w].cycle
      BY <1>0 DEF Scan
    <3>3. scan' = [scan EXCEPT ![w] = r]
      BY <2>3
    <3> HIDE DEF r
    <3>4. /\ r.at \in Sources /\ Owner[r.at] = r.who
          /\ \A f \in r.found : Owner[f.source] = r.who
          /\ r.missed # {} => r.failed
          /\ r.cycle <= cycles
      BY <1>0, <2>2, <3>1, <3>2 DEF OwnFound, Missed
    <3>5. QED
      BY <1>0, <1>2, <2>3, <3>1, <3>3, <3>4, <1>l DEF Fetch
  <2>4. CASE LET count == scan[w].copy[s] + 1
             IN /\ scan' = [scan EXCEPT ![w] = [Skipped(w, s) EXCEPT !.copy[s] = count]]
                /\ misses' = [misses EXCEPT ![s] = @ + 1]
                /\ notices' = [notices EXCEPT ![s] = IF count = THRESHOLD THEN @ + 1 ELSE @]
    <3> DEFINE count == scan[w].copy[s] + 1
               copy == [scan[w].copy EXCEPT ![s] = count]
               r == [Skipped(w, s) EXCEPT !.copy = copy]
    <3>1. Skipped(w, s).copy = scan[w].copy /\ scan[w].copy \in [Sources -> Nat]
      BY <1>0, <2>2, SkippedIsScan DEF Scan
    <3>2. copy \in [Sources -> Nat]
      BY <2>2, <3>1
    <3>3. scan' = [scan EXCEPT ![w] = r]
      BY <2>4, <3>1
    <3> HIDE DEF copy
    <3>4. /\ r \in Scan /\ r.pc = "fetch" /\ r.failed /\ r.cycle = scan[w].cycle
          /\ \A f \in r.found : Owner[f.source] = r.who
      BY <1>s, <2>2, <3>2 DEF Scan
    <3>5. notices' \in [Sources -> Nat] /\ misses' \in [Sources -> Nat]
      <4>1. /\ misses' = [misses EXCEPT ![s] = @ + 1]
            /\ notices' = notices \/ notices' = [notices EXCEPT ![s] = @ + 1]
        BY <1>0, <2>4
      <4>2. QED
        BY <1>0, <2>2, <4>1
    <3> HIDE DEF r
    <3>6. QED
      BY <1>0, <1>2, <3>3, <3>4, <3>5, <1>l DEF Fetch
  <2>5. CASE scan' = [scan EXCEPT ![w] = Skipped(w, s)] /\ UNCHANGED <<notices, misses>>
    BY <1>0, <1>2, <1>s, <2>2, <2>5, <1>l DEF Fetch
  <2>6. QED
    BY <2>1, <2>3, <2>4, <2>5
<1>3. CASE Extract(w)
  <2>0. scan[w].at \in Sources /\ Owner[scan[w].at] = scan[w].who /\ {} \in SUBSET Candidates
    BY <1>0, <1>3 DEF Extract, OwnSource, Reading
  <2>1. CASE scan' = [scan EXCEPT ![w] = Skipped(w, scan[w].at)]
    BY <1>0, <1>3, <1>s, <2>0, <2>1, <1>l DEF Extract
  <2>2. CASE scan' = [scan EXCEPT ![w] = Read(w, {})]
    <3>1. /\ Read(w, {}) \in Scan /\ Read(w, {}).pc = "fetch"
          /\ Read(w, {}).missed # {} => Read(w, {}).failed
          /\ Read(w, {}).cycle = scan[w].cycle
          /\ \A f \in Read(w, {}).found : Owner[f.source] = Read(w, {}).who
      BY <1>r, <2>0
    <3>2. QED
      BY <1>0, <1>3, <2>2, <3>1, <1>l DEF Extract
  <2>3. ASSUME NEW page \in SUBSET Candidates,
               scan' = [scan EXCEPT ![w] = [@ EXCEPT !.pc = "accepted", !.page = page]]
        PROVE  TInv'
    <3> DEFINE r == [scan[w] EXCEPT !.pc = "accepted", !.page = page]
    <3>1. r \in Scan /\ r.at = scan[w].at /\ r.who = scan[w].who /\ r.found = scan[w].found
      BY <1>0, <2>0 DEF Scan
    <3>2. r.missed = scan[w].missed /\ r.failed = scan[w].failed /\ r.cycle = scan[w].cycle
      BY <1>0 DEF Scan
    <3>3. scan' = [scan EXCEPT ![w] = r]
      BY <2>3
    <3> HIDE DEF r
    <3>4. /\ r.at \in Sources /\ Owner[r.at] = r.who
          /\ \A f \in r.found : Owner[f.source] = r.who
          /\ r.missed # {} => r.failed
          /\ r.cycle <= cycles
      BY <1>0, <2>0, <3>1, <3>2 DEF OwnFound, Missed
    <3>5. QED
      BY <1>0, <1>3, <3>1, <3>3, <3>4, <1>l DEF Extract
  <2>4. QED
    BY <1>3, <2>1, <2>2, <2>3 DEF Extract
<1>4. CASE ReadAccepted(w)
  <2> DEFINE names == With(scan[w].who, "accepted")
             r == [scan[w] EXCEPT !.pc = "rejected", !.names = names]
  <2>0. names \in SUBSET Keys /\ scan[w].at \in Sources /\ Owner[scan[w].at] = scan[w].who
    BY <1>0, <1>4, WithIsKeys DEF ReadAccepted, OwnSource, Reading
  <2>1. scan' = [scan EXCEPT ![w] = r]
    BY <1>4 DEF ReadAccepted
  <2> HIDE DEF names
  <2>2. r \in Scan /\ r.at = scan[w].at /\ r.who = scan[w].who /\ r.found = scan[w].found
    BY <1>0, <2>0 DEF Scan
  <2>3. r.missed = scan[w].missed /\ r.failed = scan[w].failed /\ r.cycle = scan[w].cycle
    BY <1>0 DEF Scan
  <2> HIDE DEF r
  <2>4. /\ r.at \in Sources /\ Owner[r.at] = r.who
        /\ \A f \in r.found : Owner[f.source] = r.who
        /\ r.missed # {} => r.failed
        /\ r.cycle <= cycles
    BY <1>0, <2>0, <2>2, <2>3 DEF OwnFound, Missed
  <2>5. QED
    BY <1>0, <1>4, <2>1, <2>2, <2>4, <1>l DEF ReadAccepted
<1>5. CASE ReadRejected(w)
  <2> DEFINE rejected == With(scan[w].who, "rejected")
             r == [scan[w] EXCEPT !.pc = "pending", !.rejected = rejected]
  <2>0. rejected \in SUBSET Keys /\ scan[w].at \in Sources /\ Owner[scan[w].at] = scan[w].who
    BY <1>0, <1>5, WithIsKeys DEF ReadRejected, OwnSource, Reading
  <2>1. scan' = [scan EXCEPT ![w] = r]
    BY <1>5 DEF ReadRejected
  <2> HIDE DEF rejected
  <2>2. r \in Scan /\ r.at = scan[w].at /\ r.who = scan[w].who /\ r.found = scan[w].found
    BY <1>0, <2>0 DEF Scan
  <2>3. r.missed = scan[w].missed /\ r.failed = scan[w].failed /\ r.cycle = scan[w].cycle
    BY <1>0 DEF Scan
  <2> HIDE DEF r
  <2>4. /\ r.at \in Sources /\ Owner[r.at] = r.who
        /\ \A f \in r.found : Owner[f.source] = r.who
        /\ r.missed # {} => r.failed
        /\ r.cycle <= cycles
    BY <1>0, <2>0, <2>2, <2>3 DEF OwnFound, Missed
  <2>5. QED
    BY <1>0, <1>5, <2>1, <2>2, <2>4, <1>l DEF ReadRejected
<1>6. CASE ReadPending(w)
  <2> DEFINE pending == With(scan[w].who, "pending") \cup {KeyOf[f.cand] : f \in scan[w].found}
             new == {c \in scan[w].page : ~Known(w, pending, KeyOf[c])}
  <2>1. scan' = [scan EXCEPT ![w] = Read(w, new)]
    BY <1>6 DEF ReadPending
  <2>2. new \in SUBSET Candidates
    BY <1>0 DEF Scan
  <2>3. scan[w].at \in Sources /\ Owner[scan[w].at] = scan[w].who
    BY <1>0, <1>6 DEF ReadPending, OwnSource, Reading
  <2> HIDE DEF new
  <2>4. /\ Read(w, new) \in Scan /\ Read(w, new).pc = "fetch"
        /\ Read(w, new).missed # {} => Read(w, new).failed
        /\ Read(w, new).cycle = scan[w].cycle
        /\ \A f \in Read(w, new).found : Owner[f.source] = Read(w, new).who
    BY <1>r, <2>2, <2>3
  <2>5. QED
    BY <1>0, <1>6, <2>1, <2>4, <1>l DEF ReadPending
<1>7. CASE AbortScan(w)
  <2>1. NoScan \in Scan /\ NoScan.pc = "idle" /\ NoScan.found = {} /\ NoScan.missed = {}
        /\ NoScan.cycle <= cycles
    BY <1>0, Empty DEF NoScan
  <2>2. QED
    BY <1>0, <1>7, <2>1, <1>l DEF AbortScan
<1>8. QED
  BY <1>1, <1>2, <1>3, <1>4, <1>5, <1>6, <1>7

-----------------------------------------------------------------------------
\* Commits and requests.

(* The places of what was appended come after those of what was there.     *)
LEMMA Joined ==
    ASSUME NEW S, NEW a \in Seq(S), NEW b \in Seq(S)
    PROVE  /\ Len(a \o b) = Len(a) + Len(b) /\ Len(a) \in Nat /\ Len(b) \in Nat
           /\ \A i \in 1 .. Len(a) : (a \o b)[i] = a[i]
           /\ \A i \in 1 .. Len(b) : (a \o b)[Len(a) + i] = b[i]
  OBVIOUS

(* What the commits of a scan leave of the tables.                         *)
LEMMA Appended ==
    ASSUME TInv, NEW w \in Scans, CommitScan(w)
    PROVE  \E rows \in Seq(scan[w].found) :
              LET new == [i \in DOMAIN rows |-> Pending(rows[i], scan[w].cycle)] IN
              /\ proposals' = proposals \o new
              /\ new \in Seq(Proposal)
              /\ proposals' \in Seq(Proposal)
              /\ Len(proposals') = Len(proposals) + Len(rows)
              /\ \A n \in DOMAIN proposals : n \in DOMAIN proposals' /\ proposals'[n] = proposals[n]
              /\ \A n \in DOMAIN proposals' \ DOMAIN proposals :
                    \E f \in scan[w].found : proposals'[n] = Pending(f, scan[w].cycle)
<1>0. scan[w] \in Scan /\ proposals \in Seq(Proposal)
  BY DEF TInv, TypeOK
<1>1. PICK rows \in SetToSeqs(scan[w].found) :
          proposals' = proposals \o [i \in DOMAIN rows |-> Pending(rows[i], scan[w].cycle)]
  BY DEF CommitScan
<1>2. rows \in Seq(scan[w].found) /\ scan[w].found \subseteq Found /\ scan[w].cycle \in Nat
  BY <1>0, RowsOfFound DEF Scan
<1> DEFINE new == [i \in DOMAIN rows |-> Pending(rows[i], scan[w].cycle)]
<1>3. ASSUME NEW f \in Found PROVE Pending(f, scan[w].cycle) \in Proposal
  <2>1. f.source \in Sources /\ KeyOf[f.cand] \in Keys
    BY DEF Found, Keys
  <2>2. QED
    BY <1>2, <2>1 DEF Pending, Proposal
<1>4. DOMAIN rows = 1 .. Len(rows) /\ Len(rows) \in Nat /\ \A i \in DOMAIN rows : rows[i] \in scan[w].found
  BY <1>2
<1>5. \A i \in 1 .. Len(rows) : new[i] \in Proposal
  BY <1>2, <1>3, <1>4
<1>6. new \in Seq(Proposal) /\ Len(new) = Len(rows)
  BY <1>4, <1>5
<1>7. proposals' = proposals \o new
  BY <1>1
<1>8. \A i \in 1 .. Len(rows) : \E f \in scan[w].found : new[i] = Pending(f, scan[w].cycle)
  BY <1>4
<1> HIDE DEF new
<1>9. /\ proposals' \in Seq(Proposal)
      /\ Len(proposals') = Len(proposals) + Len(rows)
      /\ \A n \in DOMAIN proposals : n \in DOMAIN proposals' /\ proposals'[n] = proposals[n]
  <2>1. proposals' \in Seq(Proposal)
    BY <1>0, <1>6, <1>7
  <2>2. Len(proposals') = Len(proposals) + Len(rows) /\ Len(proposals) \in Nat
    BY <1>0, <1>6, <1>7, Joined
  <2>3. DOMAIN proposals = 1 .. Len(proposals) /\ DOMAIN proposals' = 1 .. Len(proposals')
    BY <1>0, <2>1
  <2>4. ASSUME NEW n \in 1 .. Len(proposals) PROVE proposals'[n] = proposals[n]
    BY <1>0, <1>6, <1>7, Joined
  <2>5. QED
    BY <1>4, <2>1, <2>2, <2>3, <2>4
<1>10. ASSUME NEW n \in DOMAIN proposals' \ DOMAIN proposals
       PROVE  \E f \in scan[w].found : proposals'[n] = Pending(f, scan[w].cycle)
  <2>1. n \in Nat /\ n > Len(proposals) /\ n <= Len(proposals) + Len(rows) /\ Len(proposals) \in Nat
    BY <1>0, <1>9, <1>4
  <2>2. n - Len(proposals) \in 1 .. Len(rows)
    BY <1>4, <2>1
  <2>3. proposals'[n] = new[n - Len(proposals)]
    <3>1. n - Len(proposals) \in 1 .. Len(new) /\ Len(proposals) + (n - Len(proposals)) = n
      BY <1>6, <2>1, <2>2
    <3>2. QED
      BY <1>0, <1>6, <1>7, <3>1, Joined
  <2>4. QED
    BY <1>8, <2>2, <2>3
<1>11. QED
  BY <1>2, <1>6, <1>7, <1>9, <1>10 DEF new

(* The locals after a commit.                                              *)
LEMMA Committed ==
    ASSUME TInv, NEW w \in Scans, CommitScan(w)
    PROVE  \/ scan' = [scan EXCEPT ![w] = NoScan] /\ scan[w].todo = {}
           \/ \E s \in scan[w].todo, r \in Scan :
                 /\ scan' = [scan EXCEPT ![w] = r]
                 /\ r.pc = "fetch" /\ r.who = Owner[s] /\ r.ok = {} /\ r.missed = {} /\ r.found = {}
                 /\ r.todo = scan[w].todo /\ r.settled = scan[w].settled
                 /\ r.copy = scan[w].copy /\ r.loaded = scan[w].loaded /\ r.cycle = scan[w].cycle
<1>0. scan[w] \in Scan
  BY DEF TInv, TypeOK
<1>1. CASE scan[w].todo = {}
  BY <1>1 DEF CommitScan
<1>2. CASE scan[w].todo # {}
  <2>1. PICK s \in scan[w].todo :
            scan' = [scan EXCEPT ![w] = [@ EXCEPT !.who = Owner[s], !.ok = {}, !.missed = {}, !.found = {}]]
    BY <1>2 DEF CommitScan
  <2> DEFINE r == [scan[w] EXCEPT !.who = Owner[s], !.ok = {}, !.missed = {}, !.found = {}]
  <2>2. Owner[s] \in Consultants
    BY <1>0 DEF Scan, Consultants
  <2>3. r \in Scan
    BY <1>0, <2>2 DEF Scan
  <2>4. r.pc = scan[w].pc /\ r.who = Owner[s] /\ r.ok = {} /\ r.missed = {} /\ r.found = {}
    BY <1>0 DEF Scan
  <2>5. r.todo = scan[w].todo /\ r.settled = scan[w].settled /\ r.copy = scan[w].copy
        /\ r.loaded = scan[w].loaded /\ r.cycle = scan[w].cycle
    BY <1>0 DEF Scan
  <2>6. scan[w].pc = "fetch" /\ scan' = [scan EXCEPT ![w] = r]
    BY <2>1 DEF CommitScan
  <2> HIDE DEF r
  <2>7. QED
    BY <2>3, <2>4, <2>5, <2>6
<1>3. QED
  BY <1>1, <1>2

(* The commit of a scan keeps the types: what it appends are proposals of  *)
(* its own sources.                                                        *)
LEMMA CommitTypes == ASSUME TInv, NEW w \in Scans, CommitScan(w) PROVE TInv'
<1>0. TypeOK /\ scan[w] \in Scan /\ Missed(w) /\ scan[w].cycle <= cycles /\ cycles \in Nat
  BY DEF TInv, TypeOK, Numbered
<1>f. cycles' = cycles
  BY DEF CommitScan
<1>1. scan' \in [Scans -> Scan] /\ (OwnSource(w) /\ OwnFound(w) /\ Missed(w) /\ Numbered(w))'
  <2>1. CASE scan' = [scan EXCEPT ![w] = NoScan]
    <3>1. scan' \in [Scans -> Scan] /\ scan'[w] = NoScan
      BY <1>0, <2>1, Empty DEF TypeOK
    <3>2. QED
      BY <1>0, <1>f, <3>1 DEF NoScan, OwnSource, OwnFound, Missed, Numbered, Reading
  <2>2. ASSUME NEW r \in Scan, scan' = [scan EXCEPT ![w] = r], r.pc = "fetch", r.missed = {}, r.found = {},
               r.cycle = scan[w].cycle
        PROVE  scan' \in [Scans -> Scan] /\ (OwnSource(w) /\ OwnFound(w) /\ Missed(w) /\ Numbered(w))'
    <3>1. scan' \in [Scans -> Scan] /\ scan'[w] = r
      BY <1>0, <2>2 DEF TypeOK
    <3>2. QED
      BY <1>0, <1>f, <2>2, <3>1 DEF OwnSource, OwnFound, Missed, Numbered, Reading
  <2>3. QED
    BY <2>1, <2>2, Committed
<1>2. ASSUME NEW v \in Scans, v # w PROVE (OwnSource(v) /\ OwnFound(v) /\ Missed(v) /\ Numbered(v))'
  <2>1. scan'[v] = scan[v]
    BY <1>0, <1>2, Committed DEF TypeOK
  <2>2. QED
    BY <1>f, <2>1 DEF TInv, OwnSource, OwnFound, Missed, Numbered, Reading
<1>3. PICK rows \in Seq(scan[w].found) :
         /\ proposals' \in Seq(Proposal)
         /\ \A n \in DOMAIN proposals : n \in DOMAIN proposals' /\ proposals'[n] = proposals[n]
  BY Appended
<1>4. sources' \in [Sources -> Source]
  <2>1. ASSUME NEW s \in Sources, NEW n \in Nat PROVE [sources[s] EXCEPT !.failures = n] \in Source
    BY <1>0 DEF TypeOK, Source
  <2>2. ASSUME NEW s \in Sources PROVE sources[s].failures \in Nat /\ scan[w].copy[s] \in Nat
    BY <1>0 DEF TypeOK, Source, Scan
  <2>3. ASSUME NEW s \in Sources PROVE sources'[s] \in Source
    BY <2>1, <2>2 DEF CommitScan
  <2>4. QED
    BY <2>3 DEF CommitScan
<1>5. misses' \in [Sources -> Nat]
  BY <1>0 DEF CommitScan, TypeOK
<1>6. scanned' \in History \cup {NoHistory} /\ CompletedMissedNothing'
  BY <1>0 DEF CommitScan, History, Scan, CompletedMissedNothing, Missed
<1>7. audit' \subseteq [proposal : DOMAIN proposals', content : {"evidence", "edited"}]
  BY <1>0, <1>3 DEF CommitScan, TypeOK
<1>c. UNCHANGED <<contested, beside, crossed>> /\ contested \subseteq DOMAIN proposals'
  BY <1>0, <1>3 DEF CommitScan, overlaps, TypeOK
<1>8. TypeOK'
  BY <1>0, <1>1, <1>3, <1>4, <1>5, <1>6, <1>7, <1>c DEF CommitScan, TypeOK
<1>9. ASSUME NEW q \in Requests PROVE NamesRows(q)'
  BY <1>3 DEF CommitScan, TInv, NamesRows
<1>10. QED
  BY <1>1, <1>2, <1>6, <1>8, <1>9 DEF TInv

(* A step of a request on its own locals.                                  *)
LEMMA OneRequest ==
    ASSUME TInv, NEW q \in Requests, NEW r \in Request, req' = [req EXCEPT ![q] = r],
           r.pc = "insert" => r.source \in Sources,
           \A i \in DOMAIN r.todo : r.todo[i] \in DOMAIN proposals,
           r.done \subseteq DOMAIN proposals,
           sources' \in [Sources -> Source], requests' \in 0 .. MaxRequests,
           proposals' \in Seq(Proposal), DOMAIN proposals' = DOMAIN proposals,
           audit' \subseteq [proposal : DOMAIN proposals, content : {"evidence", "edited"}],
           contested' \subseteq DOMAIN proposals,
           UNCHANGED <<scanned, notices, misses, beside, crossed, scan, cycles>>
    PROVE  TInv'
<1>1. TypeOK'
  BY DEF TInv, TypeOK
<1>2. ASSUME NEW w \in Scans PROVE (OwnSource(w) /\ OwnFound(w) /\ Missed(w) /\ Numbered(w))'
  BY DEF TInv, OwnSource, OwnFound, Missed, Numbered, Reading
<1>3. ASSUME NEW p \in Requests PROVE NamesRows(p)'
  BY DEF TInv, TypeOK, NamesRows
<1>4. CompletedMissedNothing'
  BY DEF TInv, CompletedMissedNothing
<1>5. QED
  BY <1>1, <1>2, <1>3, <1>4 DEF TInv

(* The steps of a request keep the types: it names rows that exist.        *)
LEMMA RequestTypes ==
    ASSUME TInv, NEW q \in Requests,
           \/ BeginReview(q) \/ CountSources(q) \/ RemoveSource(q) \/ RequestStep(q) \/ AbortRequest(q)
    PROVE  TInv'
<1>0. /\ TypeOK /\ req[q] \in Request /\ NamesRows(q) /\ req \in [Requests -> Request]
      /\ proposals \in Seq(Proposal) /\ sources \in [Sources -> Source]
      /\ audit \subseteq [proposal : DOMAIN proposals, content : {"evidence", "edited"}]
      /\ requests \in 0 .. MaxRequests /\ MaxRequests \in Nat
  BY EnrichmentAssumption DEF EnrichmentAssumption, TInv, TypeOK
<1>c. contested \subseteq DOMAIN proposals
  BY <1>0 DEF TypeOK
<1>d. DOMAIN proposals = 1 .. Len(proposals) /\ Len(proposals) \in Nat
  BY <1>0
<1>n. NoRequest \in Request /\ NoRequest.pc = "idle" /\ NoRequest.todo = <<>> /\ NoRequest.done = {}
  BY Empty DEF NoRequest
<1>e. DOMAIN NoRequest.todo = {}
  BY <1>n
<1>m. ASSUME requests < MaxRequests, requests' = requests + 1 PROVE requests' \in 0 .. MaxRequests
  BY <1>0, <1>m
<1>a. ASSUME Answer(q), sources' \in [Sources -> Source], requests' \in 0 .. MaxRequests,
             proposals' \in Seq(Proposal), DOMAIN proposals' = DOMAIN proposals,
             audit' \subseteq [proposal : DOMAIN proposals, content : {"evidence", "edited"}],
             UNCHANGED <<scanned, notices, misses, overlaps, scan, cycles>>
      PROVE  TInv'
  BY <1>a, <1>c, <1>n, <1>e, OneRequest DEF Answer, overlaps
<1>1. CASE BeginReview(q)
  <2>1. PICK op \in Ops \cap {"accept", "edit", "reject"}, c \in Consultants,
             todo \in BoundedSeq(DOMAIN proposals, MAX_BULK_SIZE) :
            req' = [req EXCEPT ![q] = [NoRequest EXCEPT !.pc = "review", !.op = op,
                                                        !.who = c, !.todo = todo]]
    BY <1>1 DEF BeginReview
  <2>2. todo \in Seq(DOMAIN proposals)
    BY EnrichmentAssumption DEF EnrichmentAssumption, BoundedSeq, SeqOf
  <2>3. todo \in Seq(Nat) /\ \A i \in DOMAIN todo : todo[i] \in DOMAIN proposals
    BY <1>d, <2>2
  <2> DEFINE r == [NoRequest EXCEPT !.pc = "review", !.op = op, !.who = c, !.todo = todo]
  <2>4. r \in Request
    BY <1>n, <2>3 DEF Request, AllOps
  <2>5. r.pc = "review" /\ r.todo = todo /\ r.done = {}
    BY <1>n DEF Request
  <2>6. requests' \in 0 .. MaxRequests
    BY <1>1, <1>m DEF BeginReview
  <2>7. req' = [req EXCEPT ![q] = r]
    BY <2>1
  <2> HIDE DEF r
  <2>8. QED
    BY <1>0, <1>1, <2>3, <2>4, <2>5, <2>6, <2>7, <1>c, OneRequest DEF BeginReview, overlaps
<1>2. CASE CountSources(q)
  <2>0. requests' \in 0 .. MaxRequests
    BY <1>2, <1>m DEF CountSources
  <2>1. ASSUME NEW s \in Sources,
               req' = [req EXCEPT ![q] = [NoRequest EXCEPT !.pc = "insert", !.op = "add", !.source = s]]
        PROVE  TInv'
    <3> DEFINE r == [NoRequest EXCEPT !.pc = "insert", !.op = "add", !.source = s]
    <3>1. r \in Request
      BY <1>n DEF Request, AllOps
    <3>2. r.pc = "insert" /\ r.todo = <<>> /\ r.done = {} /\ r.source = s
      BY <1>n DEF Request
    <3>3. req' = [req EXCEPT ![q] = r]
      BY <2>1
    <3>4. DOMAIN r.todo = {}
      BY <3>2
    <3> HIDE DEF r
    <3>5. QED
      BY <1>0, <1>2, <2>0, <3>1, <3>2, <3>3, <3>4, <1>c, OneRequest DEF CountSources, overlaps
  <2>2. CASE UNCHANGED req
    <3>1. req' = [req EXCEPT ![q] = req[q]]
      BY <1>0, <2>2
    <3>2. QED
      BY <1>0, <1>2, <2>0, <3>1, <1>c, OneRequest DEF CountSources, NamesRows, overlaps
  <2>3. QED
    BY <1>2, <2>1, <2>2 DEF CountSources
<1>3. CASE RemoveSource(q)
  <2>1. ASSUME NEW s \in Sources PROVE [sources EXCEPT ![s].state = "removed"] \in [Sources -> Source]
    BY <1>0 DEF Source
  <2>2. sources' \in [Sources -> Source]
    BY <1>0, <1>3, <2>1 DEF RemoveSource
  <2>3. requests' \in 0 .. MaxRequests
    BY <1>3, <1>m DEF RemoveSource
  <2>4. req' = [req EXCEPT ![q] = req[q]]
    BY <1>0, <1>3 DEF RemoveSource
  <2>5. QED
    BY <1>0, <1>3, <2>2, <2>3, <2>4, <1>c, OneRequest DEF RemoveSource, NamesRows, overlaps
<1>4. CASE Review(q)
  <2>1. CASE Answer(q) /\ UNCHANGED contested
    BY <1>0, <1>4, <1>a, <2>1 DEF Review, overlaps
  <2>2. CASE LET n == Head(req[q].todo) IN
             /\ OwnerOf(proposals[n]) = req[q].who /\ proposals[n].status = "pending" /\ n \notin req[q].done
             /\ req' = [req EXCEPT ![q] = [req[q] EXCEPT !.todo = Tail(@), !.done = @ \cup {n}]]
             /\ contested' = contested \cup ({n} \cap UNION {req[p].done : p \in Requests})
    <3> DEFINE n == Head(req[q].todo)
               todo == Tail(req[q].todo)
               done == req[q].done \cup {n}
               r == [req[q] EXCEPT !.todo = todo, !.done = done]
    <3>1. req[q].todo \in Seq(Nat) /\ req[q].todo # <<>>
      BY <1>0, <1>4 DEF Review, Request
    <3>2. n = req[q].todo[1] /\ 1 \in DOMAIN req[q].todo /\ todo \in Seq(Nat)
      BY <3>1
    <3>3. \A i \in DOMAIN todo : i + 1 \in DOMAIN req[q].todo /\ todo[i] = req[q].todo[i + 1]
      BY <3>1
    <3>4. n \in DOMAIN proposals /\ \A i \in DOMAIN todo : todo[i] \in DOMAIN proposals
      BY <1>0, <3>2, <3>3 DEF NamesRows
    <3>5. done \subseteq DOMAIN proposals /\ done \subseteq Nat
      BY <1>0, <1>d, <3>4 DEF NamesRows
    <3>6. req' = [req EXCEPT ![q] = r]
      <4>1. [req[q] EXCEPT !.todo = Tail(@), !.done = @ \cup {n}] = r
        BY <1>0 DEF Request
      <4>2. req' = [req EXCEPT ![q] = [req[q] EXCEPT !.todo = Tail(@), !.done = @ \cup {n}]]
        BY <2>2, Zenon
      <4> HIDE DEF n, r
      <4>3. QED
        BY <4>1, <4>2, Zenon
    <3>c. contested' \subseteq DOMAIN proposals
      BY <1>c, <2>2, <3>4
    <3> HIDE DEF n, todo, done
    <3>7. r \in Request /\ r.todo = todo /\ r.done = done /\ r.pc = req[q].pc
      BY <1>0, <3>2, <3>5 DEF Request
    <3>8. r.pc = "review"
      BY <1>4, <3>7 DEF Review
    <3> HIDE DEF r
    <3>9. QED
      BY <1>0, <1>4, <3>4, <3>5, <3>6, <3>7, <3>8, <3>c, OneRequest DEF Review
  <2>3. QED
    BY <1>4, <2>1, <2>2 DEF Review
<1>5. CASE CommitReview(q)
  <2>1. \A n \in DOMAIN proposals : proposals[n] \in Proposal
    BY <1>0
  <2>2. ASSUME NEW p \in Proposal, NEW op PROVE Reviewed(p, op) \in Proposal
    BY DEF Reviewed, Proposal, Content
  <2> DEFINE row(n) == IF n \in req[q].done THEN Reviewed(proposals[n], req[q].op) ELSE proposals[n]
  <2>3. \A n \in 1 .. Len(proposals) : row(n) \in Proposal
    BY <1>d, <2>1, <2>2
  <2>4. proposals' = [n \in 1 .. Len(proposals) |-> row(n)]
    BY <1>5, <1>d DEF CommitReview
  <2>5. proposals' \in Seq(Proposal) /\ DOMAIN proposals' = DOMAIN proposals
    BY <1>d, <2>3, <2>4
  <2>6. audit' \subseteq [proposal : DOMAIN proposals, content : {"evidence", "edited"}]
    <3>1. req[q].done \subseteq DOMAIN proposals /\ Content(req[q].op) \in {"evidence", "edited"}
      BY <1>0 DEF NamesRows, Content
    <3>2. audit' = audit \cup {[proposal |-> n, content |-> Content(req[q].op)] :
                                 n \in {m \in req[q].done : req[q].op # "reject"}}
      BY <1>5 DEF CommitReview
    <3>3. QED
      BY <1>0, <3>1, <3>2
  <2>7. QED
    BY <1>0, <1>5, <1>a, <2>5, <2>6 DEF CommitReview
<1>6. CASE InsertSource(q)
  <2>1. ASSUME NEW s \in Sources PROVE [sources EXCEPT ![s].state = "active"] \in [Sources -> Source]
    BY <1>0 DEF Source
  <2>2. req[q].source \in Sources
    BY <1>0, <1>6 DEF InsertSource, NamesRows
  <2>3. sources' \in [Sources -> Source] /\ Answer(q)
    BY <1>0, <1>6, <2>1, <2>2 DEF InsertSource
  <2>4. QED
    BY <1>0, <1>6, <1>a, <2>3 DEF InsertSource
<1>7. CASE AbortRequest(q)
  BY <1>0, <1>7, <1>a DEF AbortRequest
<1>8. QED
  BY <1>1, <1>2, <1>3, <1>4, <1>5, <1>6, <1>7 DEF RequestStep

(* Every step keeps the types.                                             *)
LEMMA TypeStep == TInv /\ [Next]_vars => TInv'
<1>1. CASE UNCHANGED vars
  BY <1>1 DEF vars, overlaps, TInv, TypeOK, OwnSource, OwnFound, Missed, Numbered, Reading, NamesRows, CompletedMissedNothing
<1>2. QED
  BY <1>1, LocalTypes, CommitTypes, RequestTypes DEF Next, ScanStep

(* Every reachable state is well typed.                                    *)
THEOREM TypeCorrect == Spec => []TypeOK
<1>1. TInv => TypeOK
  BY DEF TInv
<1>2. QED
  BY <1>1, InitTypes, TypeStep, PTL DEF Spec

(* A consultant whose scan is recorded as completed had every source read, *)
(* for any number of scan tasks, sources and consultants.                  *)
THEOREM CompletedIsComplete == Spec => []CompletedMissedNothing
<1>1. TInv => CompletedMissedNothing
  BY DEF TInv
<1>2. QED
  BY <1>1, InitTypes, TypeStep, PTL DEF Spec

-----------------------------------------------------------------------------
\* Reviews.  What a request found pending is pending when it commits, unless
\* another request found it pending too, so nothing else is decided twice.

Undecided(q) == \A n \in req[q].done : n \in contested \/ proposals[n].status = "pending"

(* What two requests have found pending is contested.                      *)
SharedIsContested ==
    \A p, q \in Requests : p # q => req[p].done \cap req[q].done \subseteq contested

(* What was rejected before a scan began is still rejected.                *)
SettledIsRejected(w) ==
    \A x \in scan[w].settled : x[2] \in With(x[1], "rejected") \/ Contested(x[1], x[2])

(* A scan about to compare a page has read all that was rejected before.   *)
ReadsSettled(w) ==
    scan[w].pc = "pending" =>
        \A k \in Keys : <<scan[w].who, k>> \in scan[w].settled =>
            k \in scan[w].rejected \/ Contested(scan[w].who, k)

DInv ==
    /\ TInv
    /\ \A q \in Requests : Undecided(q)
    /\ SharedIsContested
    /\ AuditMatchesMerges
    /\ \A w \in Scans : SettledIsRejected(w) /\ ReadsSettled(w)
    /\ RejectionStands

(* What a step may do to the proposals that exist.                         *)
Kept ==
    /\ contested \subseteq contested'
    /\ \A n \in DOMAIN proposals :
          /\ n \in DOMAIN proposals'
          /\ proposals'[n].source = proposals[n].source /\ proposals'[n].key = proposals[n].key
          /\ proposals[n].status # "pending" /\ n \notin contested => proposals'[n] = proposals[n]

(* Overlaps are not forgotten.                                             *)
LEMMA OverlapsStay ==
    ASSUME [Next]_vars
    PROVE  contested \subseteq contested' /\ beside \subseteq beside' /\ crossed \subseteq crossed'
<1>1. CASE UNCHANGED overlaps
  BY <1>1 DEF overlaps
<1>2. ASSUME NEW w \in Scans, BeginScan(w)
      PROVE  contested \subseteq contested' /\ beside \subseteq beside' /\ crossed \subseteq crossed'
  BY <1>2 DEF BeginScan
<1>3. ASSUME NEW q \in Requests, Review(q)
      PROVE  contested \subseteq contested' /\ beside \subseteq beside' /\ crossed \subseteq crossed'
  BY <1>3 DEF Review
<1>4. CASE UNCHANGED vars
  BY <1>1, <1>4 DEF vars
<1>5. ASSUME NEW w \in Scans, ScanStep(w) \/ AbortScan(w) PROVE UNCHANGED overlaps
  BY <1>5 DEF ScanStep, Fetch, Extract, ReadAccepted, ReadRejected, ReadPending, CommitScan, AbortScan
<1>6. ASSUME NEW q \in Requests,
             BeginReview(q) \/ CountSources(q) \/ RemoveSource(q) \/ CommitReview(q) \/ InsertSource(q)
             \/ AbortRequest(q)
      PROVE  UNCHANGED overlaps
  BY <1>6 DEF BeginReview, CountSources, RemoveSource, CommitReview, InsertSource, AbortRequest
<1>7. QED
  BY <1>1, <1>2, <1>3, <1>4, <1>5, <1>6 DEF Next, RequestStep

(* A review decides a proposal and changes neither its source nor its      *)
(* key.                                                                    *)
LEMMA ReviewedKeeps ==
    ASSUME NEW p \in Proposal, NEW op
    PROVE  /\ Reviewed(p, op).source = p.source /\ Reviewed(p, op).key = p.key
           /\ Reviewed(p, op).status = IF op = "reject" THEN "rejected" ELSE "accepted"
           /\ op # "reject" => Reviewed(p, op).merged = Content(op)
  BY DEF Reviewed, Proposal

(* Only commits change proposals.                                          *)
LEMMA WhoWrites ==
    ASSUME [Next]_vars
    PROVE  \/ UNCHANGED proposals
           \/ \E w \in Scans : CommitScan(w)
           \/ \E q \in Requests : CommitReview(q)
  BY DEF Next, ScanStep, RequestStep, BeginScan, Fetch, Extract, ReadAccepted, ReadRejected, ReadPending,
         AbortScan, BeginReview, CountSources, RemoveSource, Review, InsertSource, AbortRequest, vars

(* No step changes a proposal that was decided, unless it is contested.    *)
LEMMA KeepsDecisions == ASSUME DInv, [Next]_vars PROVE Kept
<1>0. /\ TInv /\ proposals \in Seq(Proposal) /\ \A n \in DOMAIN proposals : proposals[n] \in Proposal
      /\ contested \subseteq contested'
  BY OverlapsStay DEF DInv, TInv, TypeOK
<1>1. CASE UNCHANGED proposals
  BY <1>0, <1>1 DEF Kept
<1>2. ASSUME NEW w \in Scans, CommitScan(w) PROVE Kept
  BY <1>0, <1>2, Appended DEF Kept
<1>3. ASSUME NEW q \in Requests, CommitReview(q) PROVE Kept
  <2>1. proposals' = [n \in DOMAIN proposals |-> IF n \in req[q].done THEN Reviewed(proposals[n], req[q].op)
                                                                      ELSE proposals[n]]
    BY <1>3 DEF CommitReview
  <2>2. \A n \in req[q].done : n \in contested \/ proposals[n].status = "pending"
    BY DEF DInv, Undecided
  <2>3. QED
    BY <1>0, <2>1, <2>2, ReviewedKeeps DEF Kept
<1>4. QED
  BY <1>1, <1>2, <1>3, WhoWrites

(* What is contested stays contested, and what was rejected stays rejected *)
(* unless it is contested.                                                 *)
LEMMA RejectedStays ==
    ASSUME Kept, TypeOK, NEW c, NEW k
    PROVE  /\ Contested(c, k) => Contested(c, k)'
           /\ k \in With(c, "rejected") => k \in With(c, "rejected")' \/ Contested(c, k)'
<1>1. ASSUME NEW n \in contested, OwnerOf(proposals[n]) = c, proposals[n].key = k
      PROVE  Contested(c, k)'
  <2>1. n \in DOMAIN proposals /\ n \in contested'
    BY DEF Kept, TypeOK
  <2>2. proposals'[n].source = proposals[n].source /\ proposals'[n].key = proposals[n].key
    BY <2>1 DEF Kept
  <2>3. QED
    BY <1>1, <2>1, <2>2 DEF Contested, OwnerOf
<1>2. ASSUME NEW n \in DOMAIN proposals, OwnerOf(proposals[n]) = c, proposals[n].status = "rejected",
             proposals[n].key = k, n \notin contested
      PROVE  k \in With(c, "rejected")'
  <2>1. n \in DOMAIN proposals' /\ proposals'[n] = proposals[n]
    BY <1>2 DEF Kept
  <2>2. QED
    BY <1>2, <2>1 DEF With, OwnerOf
<1>3. QED
  BY <1>1, <1>2 DEF With, Contested

SettledNow == UNION {{c} \X With(c, "rejected") : c \in Consultants}

(* What becomes of one scan.                                               *)
LEMMA ScanMoves ==
    ASSUME TInv, Next, NEW w \in Scans
    PROVE  \/ scan'[w] = scan[w]
           \/ /\ scan'[w].pc # "pending" /\ scan'[w].found = {}
              /\ \/ scan'[w].settled \in {{}, scan[w].settled}
                 \/ scan'[w].settled = SettledNow /\ UNCHANGED proposals
           \/ /\ scan'[w].pc # "pending" /\ scan'[w].found = scan[w].found
              /\ scan'[w].settled = scan[w].settled
           \/ ReadRejected(w)
           \/ ReadPending(w)
<1>0. scan \in [Scans -> Scan] /\ scan[w] \in Scan /\ TypeOK /\ OwnSource(w)
  BY DEF TInv, TypeOK
<1>1. ASSUME NEW v \in Scans, v # w,
             BeginScan(v) \/ ScanStep(v) \/ AbortScan(v)
      PROVE  scan'[w] = scan[w]
  <2>1. CASE CommitScan(v)
    BY <1>0, <1>1, <2>1, Committed
  <2>2. CASE BeginScan(v) \/ AbortScan(v)
    BY <1>0, <1>1, <2>2 DEF BeginScan, AbortScan
  <2>3. CASE Fetch(v)
    BY <1>0, <1>1, <2>3 DEF Fetch
  <2>4. CASE Extract(v) \/ ReadAccepted(v) \/ ReadRejected(v) \/ ReadPending(v)
    BY <1>0, <1>1, <2>4 DEF Extract, ReadAccepted, ReadRejected, ReadPending
  <2>5. QED
    BY <1>1, <2>1, <2>2, <2>3, <2>4 DEF ScanStep
<1>2. ASSUME NEW q \in Requests,
             BeginReview(q) \/ CountSources(q) \/ RemoveSource(q) \/ RequestStep(q) \/ AbortRequest(q)
      PROVE  scan'[w] = scan[w]
  BY <1>2 DEF BeginReview, CountSources, RemoveSource, RequestStep, Review, CommitReview, InsertSource,
              AbortRequest
<1>3. CASE BeginScan(w)
  <2>1. PICK todo, who, counts :
            scan' = [scan EXCEPT ![w] = [NoScan EXCEPT !.pc = "fetch", !.cycle = cycles + 1, !.todo = todo,
                        !.who = who, !.loaded = counts, !.copy = counts, !.settled = SettledNow]]
    BY <1>3, Zenon DEF BeginScan, SettledNow
  <2> DEFINE r == [NoScan EXCEPT !.pc = "fetch", !.cycle = cycles + 1, !.todo = todo,
                        !.who = who, !.loaded = counts, !.copy = counts, !.settled = SettledNow]
  <2>2. r.pc = "fetch" /\ r.found = {} /\ r.settled = SettledNow
    BY DEF NoScan
  <2>3. scan'[w] = r
    BY <1>0, <2>1
  <2>4. QED
    BY <1>3, <2>2, <2>3 DEF BeginScan
<1>4. CASE AbortScan(w)
  BY <1>0, <1>4 DEF AbortScan, NoScan
<1>5. CASE CommitScan(w)
  <2>1. CASE scan' = [scan EXCEPT ![w] = NoScan]
    BY <1>0, <2>1 DEF NoScan
  <2>2. ASSUME NEW r \in Scan, scan' = [scan EXCEPT ![w] = r], r.pc = "fetch", r.found = {},
               r.settled = scan[w].settled
        PROVE  scan'[w].pc = "fetch" /\ scan'[w].found = {} /\ scan'[w].settled = scan[w].settled
    BY <1>0, <2>2
  <2>3. QED
    BY <1>5, <2>1, <2>2, Committed
<1>s. ASSUME NEW s \in Sources
      PROVE  Skipped(w, s).pc = "fetch" /\ Skipped(w, s).found = scan[w].found
             /\ Skipped(w, s).settled = scan[w].settled /\ Skipped(w, s) \in Scan
  BY <1>0, SkippedIsScan
<1>6. CASE Fetch(w)
  <2>1. PICK s \in Left(w) :
          \/ scan' = [scan EXCEPT ![w] = [@ EXCEPT !.pc = "extract", !.at = s]]
          \/ scan' = [scan EXCEPT ![w] = [Skipped(w, s) EXCEPT !.copy[s] = scan[w].copy[s] + 1]]
          \/ scan' = [scan EXCEPT ![w] = Skipped(w, s)]
    BY <1>6 DEF Fetch
  <2>2. s \in Sources
    BY <1>0 DEF Left, Scan
  <2>3. CASE scan' = [scan EXCEPT ![w] = [@ EXCEPT !.pc = "extract", !.at = s]]
    BY <1>0, <2>3 DEF Scan
  <2>4. CASE scan' = [scan EXCEPT ![w] = [Skipped(w, s) EXCEPT !.copy[s] = scan[w].copy[s] + 1]]
    <3>1. \A c : [Skipped(w, s) EXCEPT !.copy = c].pc = "fetch"
                 /\ [Skipped(w, s) EXCEPT !.copy = c].found = scan[w].found
                 /\ [Skipped(w, s) EXCEPT !.copy = c].settled = scan[w].settled
      BY <1>s, <2>2 DEF Scan
    <3>2. \E c : scan'[w] = [Skipped(w, s) EXCEPT !.copy = c]
      BY <1>0, <2>4
    <3>3. QED
      BY <3>1, <3>2
  <2>5. CASE scan' = [scan EXCEPT ![w] = Skipped(w, s)]
    BY <1>0, <1>s, <2>2, <2>5
  <2>6. QED
    BY <2>1, <2>3, <2>4, <2>5
<1>7. CASE Extract(w)
  <2>0. scan[w].at \in Sources /\ {} \in SUBSET Candidates
    BY <1>0, <1>7 DEF Extract, OwnSource, Reading
  <2>1. CASE scan' = [scan EXCEPT ![w] = Skipped(w, scan[w].at)]
    BY <1>0, <1>s, <2>0, <2>1
  <2>2. CASE scan' = [scan EXCEPT ![w] = Read(w, {})]
    <3>1. [source : {scan[w].at}, cand : {}] = {}
      OBVIOUS
    <3>2. Read(w, {}).pc = "fetch" /\ Read(w, {}).settled = scan[w].settled
          /\ Read(w, {}).found = scan[w].found \cup [source : {scan[w].at}, cand : {}]
      BY <1>0, <2>0, ReadIsScan
    <3>3. scan'[w] = Read(w, {})
      BY <1>0, <2>2
    <3>4. QED
      BY <3>1, <3>2, <3>3
  <2>3. ASSUME NEW page, scan' = [scan EXCEPT ![w] = [@ EXCEPT !.pc = "accepted", !.page = page]]
        PROVE  scan'[w].pc = "accepted" /\ scan'[w].found = scan[w].found
               /\ scan'[w].settled = scan[w].settled
    BY <1>0, <2>3 DEF Scan
  <2>4. QED
    BY <1>7, <2>1, <2>2, <2>3 DEF Extract
<1>8. CASE ReadAccepted(w)
  BY <1>0, <1>8 DEF ReadAccepted, Scan
<1>9. QED
  BY <1>1, <1>2, <1>3, <1>4, <1>5, <1>6, <1>7, <1>8 DEF Next, ScanStep

(* What a scan has found is open: it was not rejected when the scan began, *)
(* or is contested.                                                        *)
Open(w, f) ==
    <<Owner[f.source], KeyOf[f.cand]>> \in scan[w].settled
        => Contested(Owner[f.source], KeyOf[f.cand])

(* What a new comparison adds is open.                                     *)
LEMMA ComparedIsOpen ==
    ASSUME DInv, NEW w \in Scans, ReadPending(w)
    PROVE  /\ scan'[w].pc = "fetch" /\ scan'[w].settled = scan[w].settled
           /\ \A f \in scan'[w].found : Open(w, f)
<1>0. TypeOK /\ scan[w] \in Scan /\ scan \in [Scans -> Scan] /\ OwnSource(w) /\ ReadsSettled(w)
      /\ scan[w].pc = "pending"
  BY DEF DInv, TInv, TypeOK, ReadPending
<1> DEFINE pending == With(scan[w].who, "pending") \cup {KeyOf[f.cand] : f \in scan[w].found}
           new == {c \in scan[w].page : ~Known(w, pending, KeyOf[c])}
<1>1. scan[w].at \in Sources /\ Owner[scan[w].at] = scan[w].who
  BY <1>0 DEF OwnSource, Reading
<1>2. new \in SUBSET Candidates
  BY <1>0 DEF Scan
<1>3. \A c \in new : KeyOf[c] \in Keys /\ KeyOf[c] \notin scan[w].rejected
  BY <1>2 DEF Known, Keys
<1>4. scan'[w] = Read(w, new)
  BY <1>0 DEF ReadPending
<1> HIDE DEF new
<1>5. /\ scan'[w].pc = "fetch" /\ scan'[w].settled = scan[w].settled
      /\ scan'[w].found = scan[w].found \cup [source : {scan[w].at}, cand : new]
  <2>1. /\ Read(w, new).pc = "fetch" /\ Read(w, new).settled = scan[w].settled
        /\ Read(w, new).found = scan[w].found \cup [source : {scan[w].at}, cand : new]
    BY <1>0, <1>1, <1>2, ReadIsScan
  <2>2. QED
    BY <1>4, <2>1
<1>6. ASSUME NEW f \in [source : {scan[w].at}, cand : new]
      PROVE  Open(w, f)
  <2>1. f.source = scan[w].at /\ f.cand \in new
    OBVIOUS
  <2>2. <<scan[w].who, KeyOf[f.cand]>> \in scan[w].settled => Contested(scan[w].who, KeyOf[f.cand])
    BY <1>0, <1>3, <2>1 DEF ReadsSettled
  <2>3. QED
    BY <1>1, <2>1, <2>2 DEF Open
<1>7. \A f \in scan[w].found : Open(w, f)
  BY DEF DInv, RejectionStands, Open
<1>8. QED
  BY <1>5, <1>6, <1>7

(* A scan finds nothing that was rejected before it began, whatever is     *)
(* decided while it runs.                                                  *)
LEMMA ScansDecide ==
    ASSUME DInv, Next, NEW w \in Scans
    PROVE  SettledIsRejected(w)' /\ ReadsSettled(w)' /\ \A f \in scan'[w].found : Open(w, f)'
<1>0. /\ TInv /\ TypeOK /\ scan[w] \in Scan /\ scan \in [Scans -> Scan]
      /\ SettledIsRejected(w) /\ ReadsSettled(w) /\ Kept
      /\ \A f \in scan[w].found : Open(w, f)
  BY KeepsDecisions DEF DInv, TInv, TypeOK, RejectionStands, Open
<1>k. ASSUME NEW c, NEW k
      PROVE  /\ Contested(c, k) => Contested(c, k)'
             /\ k \in With(c, "rejected") => k \in With(c, "rejected")' \/ Contested(c, k)'
  BY <1>0, RejectedStays
<1>o. ASSUME scan'[w].settled \in {{}, scan[w].settled}, NEW f, Open(w, f) PROVE Open(w, f)'
  BY <1>k, <1>o DEF Open
<1>1. CASE scan'[w].settled \in {{}, scan[w].settled}
  <2>1. SettledIsRejected(w)'
    BY <1>0, <1>1, <1>k DEF SettledIsRejected
  <2>2. CASE scan'[w] = scan[w]
    <3>1. ReadsSettled(w)'
      BY <1>0, <1>k, <2>2 DEF ReadsSettled
    <3>2. QED
      BY <1>0, <1>1, <1>o, <2>1, <2>2, <3>1
  <2>3. CASE scan'[w].pc # "pending" /\ scan'[w].found \in {{}, scan[w].found}
    BY <1>0, <1>1, <1>o, <2>1, <2>3 DEF ReadsSettled
  <2>4. CASE ReadRejected(w)
    <3> DEFINE rejected == With(scan[w].who, "rejected")
    <3>1. scan'[w] = [scan[w] EXCEPT !.pc = "pending", !.rejected = rejected]
      BY <1>0, <2>4 DEF ReadRejected
    <3> HIDE DEF rejected
    <3>2. /\ scan'[w].who = scan[w].who /\ scan'[w].settled = scan[w].settled
          /\ scan'[w].found = scan[w].found /\ scan'[w].rejected = rejected
      BY <1>0, <3>1 DEF Scan
    <3>3. \A k : <<scan[w].who, k>> \in scan[w].settled => k \in rejected \/ Contested(scan[w].who, k)
      BY <1>0 DEF SettledIsRejected, rejected
    <3>4. ReadsSettled(w)'
      BY <1>k, <3>2, <3>3 DEF ReadsSettled
    <3>5. QED
      BY <1>0, <1>1, <1>o, <2>1, <3>2, <3>4
  <2>5. CASE ReadPending(w)
    BY <1>1, <1>o, <2>1, <2>5, ComparedIsOpen DEF ReadsSettled
  <2>6. CASE scan'[w].settled # scan[w].settled /\ scan'[w].found = {} /\ scan'[w].pc # "pending"
    BY <2>1, <2>6 DEF ReadsSettled
  <2>7. QED
    BY <1>0, <1>1, <2>2, <2>3, <2>4, <2>5, <2>6, ScanMoves
<1>2. CASE /\ scan'[w].settled = SettledNow /\ UNCHANGED proposals
           /\ scan'[w].pc # "pending" /\ scan'[w].found = {}
  <2>1. \A c, st : With(c, st)' = With(c, st)
    BY <1>2 DEF With, OwnerOf
  <2>2. \A x \in SettledNow : x[2] \in With(x[1], "rejected")
    BY DEF SettledNow
  <2>3. SettledIsRejected(w)'
    BY <1>2, <2>1, <2>2 DEF SettledIsRejected
  <2>4. QED
    BY <1>2, <2>3 DEF ReadsSettled
<1>3. CASE ReadRejected(w) \/ ReadPending(w)
  <2>1. scan'[w].settled = scan[w].settled
    <3>1. CASE ReadRejected(w)
      <4>1. \A k : [scan[w] EXCEPT !.pc = "pending", !.rejected = k].settled = scan[w].settled
        BY <1>0 DEF Scan
      <4>2. QED
        BY <1>0, <3>1, <4>1 DEF ReadRejected
    <3>2. QED
      BY <1>3, <3>1, ComparedIsOpen
  <2>2. QED
    BY <1>1, <2>1
<1>4. QED
  BY <1>0, <1>1, <1>2, <1>3, ScanMoves

Merged(n) == [proposal |-> n, content |-> proposals[n].merged]
Accepted == {n \in DOMAIN proposals \ contested : proposals[n].status = "accepted"}

(* What becomes of the proposals that a request has found pending.         *)
LEMMA RequestMoves ==
    ASSUME TInv, Next, NEW q \in Requests
    PROVE  \/ req'[q].done = {}
           \/ req'[q].done = req[q].done /\ ~ CommitReview(q)
           \/ \E n \in DOMAIN proposals :
                 /\ req'[q].done = req[q].done \cup {n} /\ proposals[n].status = "pending"
                 /\ contested' = contested \cup ({n} \cap UNION {req[p].done : p \in Requests})
                 /\ UNCHANGED proposals
                 /\ \A p \in Requests : p # q => req'[p] = req[p]
<1>0. req[q] \in Request /\ req \in [Requests -> Request] /\ NamesRows(q)
  BY DEF TInv, TypeOK
<1>n. NoRequest.done = {}
  BY DEF NoRequest
<1>1. ASSUME NEW w \in Scans, BeginScan(w) \/ ScanStep(w) \/ AbortScan(w)
      PROVE  UNCHANGED req
  BY <1>1 DEF BeginScan, ScanStep, Fetch, Extract, ReadAccepted, ReadRejected, ReadPending, CommitScan,
              AbortScan
<1>2. ASSUME NEW p \in Requests, p # q,
             BeginReview(p) \/ CountSources(p) \/ RemoveSource(p) \/ RequestStep(p) \/ AbortRequest(p)
      PROVE  req'[q] = req[q]
  BY <1>0, <1>2 DEF BeginReview, CountSources, RemoveSource, RequestStep, Review, CommitReview, InsertSource,
                    AbortRequest, Answer
<1>3. CASE CommitReview(q) \/ AbortRequest(q) \/ InsertSource(q)
  BY <1>0, <1>n, <1>3 DEF CommitReview, AbortRequest, InsertSource, Answer
<1>i. req[q].pc = "idle" => ~ CommitReview(q)
  BY DEF CommitReview
<1>4. CASE RemoveSource(q)
  BY <1>4, <1>i DEF RemoveSource
<1>5. CASE BeginReview(q)
  BY <1>0, <1>5 DEF BeginReview, NoRequest
<1>6. CASE CountSources(q)
  BY <1>0, <1>6, <1>i DEF CountSources, NoRequest
<1>7. CASE Review(q)
  <2>1. CASE Answer(q)
    BY <1>0, <1>n, <2>1 DEF Answer
  <2>2. CASE LET n == Head(req[q].todo) IN
             /\ OwnerOf(proposals[n]) = req[q].who /\ proposals[n].status = "pending" /\ n \notin req[q].done
             /\ req' = [req EXCEPT ![q] = [req[q] EXCEPT !.todo = Tail(@), !.done = @ \cup {n}]]
             /\ contested' = contested \cup ({n} \cap UNION {req[p].done : p \in Requests})
    <3> DEFINE n == Head(req[q].todo)
    <3>1. n \in DOMAIN proposals
      <4>1. req[q].todo \in Seq(Nat) /\ req[q].todo # <<>>
        BY <1>0, <1>7 DEF Review, Request
      <4>2. n = req[q].todo[1] /\ 1 \in DOMAIN req[q].todo
        BY <4>1
      <4>3. QED
        BY <1>0, <4>2 DEF NamesRows
    <3>2. req'[q].done = req[q].done \cup {n}
      BY <1>0, <2>2 DEF Request
    <3>3. /\ proposals[n].status = "pending"
          /\ contested' = contested \cup ({n} \cap UNION {req[p].done : p \in Requests})
      BY <2>2
    <3>4. UNCHANGED proposals
      BY <1>7 DEF Review
    <3>5. \A p \in Requests : p # q => req'[p] = req[p]
      BY <1>0, <2>2
    <3> HIDE DEF n
    <3>6. QED
      BY <3>1, <3>2, <3>3, <3>4, <3>5
  <2>3. QED
    BY <1>7, <2>1, <2>2 DEF Review
<1>8. CASE UNCHANGED req /\ ~ CommitReview(q)
  BY <1>8
<1>9. CASE req'[q] = req[q] /\ ~ CommitReview(q)
  BY <1>9
<1>10. QED
  BY <1>1, <1>2, <1>3, <1>4, <1>5, <1>6, <1>7, <1>8, <1>9 DEF Next, RequestStep

(* A commit of a request overwrites only what it found pending itself.     *)
LEMMA UndecidedStep ==
    ASSUME DInv, Next, NEW q \in Requests PROVE Undecided(q)'
<1>0. /\ TInv /\ contested \subseteq contested' /\ Undecided(q) /\ req[q].done \subseteq DOMAIN proposals
  BY OverlapsStay DEF DInv, TInv, NamesRows
<1>1. CASE req'[q].done = {}
  BY <1>1 DEF Undecided
<1>2. CASE req'[q].done = req[q].done /\ ~ CommitReview(q)
  <2> SUFFICES ASSUME NEW n \in req[q].done, n \notin contested' PROVE proposals'[n].status = "pending"
    BY <1>2 DEF Undecided
  <2>1. proposals[n].status = "pending" /\ n \in DOMAIN proposals
    BY <1>0 DEF Undecided
  <2>2. CASE UNCHANGED proposals
    BY <2>1, <2>2
  <2>3. ASSUME NEW w \in Scans, CommitScan(w) PROVE proposals'[n].status = "pending"
    BY <1>0, <2>1, <2>3, Appended
  <2>4. ASSUME NEW p \in Requests, CommitReview(p) PROVE proposals'[n].status = "pending"
    <3>1. p # q
      BY <1>2, <2>4
    <3>2. n \notin req[p].done
      BY <1>0, <3>1 DEF DInv, SharedIsContested
    <3>3. proposals'[n] = proposals[n]
      BY <2>1, <2>4, <3>2 DEF CommitReview
    <3>4. QED
      BY <2>1, <3>3
  <2>5. QED
    BY <2>2, <2>3, <2>4, WhoWrites
<1>3. ASSUME NEW n, req'[q].done = req[q].done \cup {n}, proposals[n].status = "pending", UNCHANGED proposals
      PROVE  Undecided(q)'
  BY <1>0, <1>3 DEF Undecided
<1>4. QED
  BY <1>0, <1>1, <1>2, <1>3, RequestMoves

(* What a request finds pending is contested if another one holds it.      *)
LEMMA SharedStep == ASSUME DInv, Next PROVE SharedIsContested'
<1> SUFFICES ASSUME NEW p \in Requests, NEW q \in Requests, p # q,
                    NEW n \in req'[p].done, n \in req'[q].done, n \notin contested'
             PROVE  FALSE
  BY DEF SharedIsContested
<1>0. TInv /\ contested \subseteq contested' /\ n \notin contested /\ SharedIsContested
  BY OverlapsStay DEF DInv
<1>1. ASSUME NEW a \in Requests, NEW b \in Requests, a # b, n \in req'[a].done, n \in req'[b].done,
             n \notin req[a].done
      PROVE  FALSE
  <2>1. PICK m \in DOMAIN proposals :
            /\ req'[a].done = req[a].done \cup {m}
            /\ contested' = contested \cup ({m} \cap UNION {req[c].done : c \in Requests})
            /\ \A c \in Requests : c # a => req'[c] = req[c]
    BY <1>0, <1>1, RequestMoves
  <2>2. m = n /\ n \in req[b].done
    BY <1>1, <2>1
  <2>3. QED
    BY <1>0, <2>1, <2>2
<1>2. CASE n \in req[p].done /\ n \in req[q].done
  BY <1>0, <1>2 DEF SharedIsContested
<1>3. QED
  BY <1>1, <1>2

(* The decided rows, and with them the audit trail.                        *)
LEMMA AuditStep ==
    ASSUME DInv, Next PROVE AuditMatchesMerges'
<1>0. /\ TInv /\ proposals \in Seq(Proposal) /\ \A n \in DOMAIN proposals : proposals[n] \in Proposal
      /\ {e \in audit : e.proposal \notin contested} = {Merged(n) : n \in Accepted} /\ Kept
      /\ contested \subseteq contested'
  BY KeepsDecisions, OverlapsStay DEF DInv, TInv, TypeOK, AuditMatchesMerges, Merged, Accepted
<1>g. ASSUME {e \in audit' : e.proposal \notin contested'} = {Merged(n)' : n \in Accepted'}
      PROVE  AuditMatchesMerges'
  BY <1>g DEF AuditMatchesMerges, Merged, Accepted
<1>m. \A n : Merged(n).proposal = n /\ Merged(n)'.proposal = n
  BY DEF Merged
<1>1. CASE UNCHANGED <<proposals, audit>>
  <2>1. Accepted' = {n \in Accepted : n \notin contested'} /\ \A n : Merged(n)' = Merged(n)
    BY <1>0, <1>1 DEF Accepted, Merged
  <2>2. {e \in audit' : e.proposal \notin contested'}
            = {e \in {d \in audit : d.proposal \notin contested} : e.proposal \notin contested'}
    BY <1>0, <1>1
  <2>3. QED
    BY <1>0, <1>g, <1>m, <2>1, <2>2
<1>2. ASSUME NEW w \in Scans, CommitScan(w) PROVE AuditMatchesMerges'
  <2>1. \A n \in DOMAIN proposals : n \in DOMAIN proposals' /\ proposals'[n] = proposals[n]
    BY <1>0, <1>2, Appended
  <2>2. \A n \in DOMAIN proposals' \ DOMAIN proposals : proposals'[n].status = "pending"
    <3>1. \A f, c : Pending(f, c).status = "pending"
      BY DEF Pending
    <3>2. \A n \in DOMAIN proposals' \ DOMAIN proposals : \E f, c : proposals'[n] = Pending(f, c)
      BY <1>0, <1>2, Appended
    <3>3. QED
      BY <3>1, <3>2
  <2>3. audit' = audit /\ contested' = contested
    BY <1>2 DEF CommitScan, overlaps
  <2>4. Accepted' = Accepted /\ \A n \in Accepted : Merged(n)' = Merged(n)
    BY <2>1, <2>2, <2>3 DEF Accepted, Merged
  <2>5. QED
    BY <1>0, <1>g, <2>3, <2>4
<1>3. ASSUME NEW q \in Requests, CommitReview(q) PROVE AuditMatchesMerges'
  <2> DEFINE op == req[q].op
             done == req[q].done
             decided == {m \in done : op # "reject"}
  <2>1. done \subseteq DOMAIN proposals /\ \A n \in done : n \in contested \/ proposals[n].status = "pending"
    BY <1>0 DEF DInv, TInv, NamesRows, Undecided
  <2>2. /\ proposals' = [n \in DOMAIN proposals |-> IF n \in done THEN Reviewed(proposals[n], op) ELSE proposals[n]]
        /\ audit' = audit \cup {[proposal |-> n, content |-> Content(op)] : n \in decided}
        /\ contested' = contested
    BY <1>3 DEF CommitReview, overlaps
  <2> HIDE DEF op, done
  <2>3. DOMAIN proposals' = DOMAIN proposals
    BY <2>2
  <2>4. \A n \in DOMAIN proposals : n \notin done => proposals'[n] = proposals[n]
    BY <2>2
  <2>5. \A n \in done : /\ proposals'[n].status = IF op = "reject" THEN "rejected" ELSE "accepted"
                        /\ op # "reject" => proposals'[n].merged = Content(op)
    BY <1>0, <2>1, <2>2, ReviewedKeeps
  <2>6. \A n \in Accepted : n \notin done
    BY <2>1 DEF Accepted
  <2>7. Accepted' = Accepted \cup (decided \ contested)
    BY <2>1, <2>2, <2>3, <2>4, <2>5, <2>6 DEF Accepted
  <2>8. \A n \in Accepted : Merged(n)' = Merged(n)
    <3>1. \A n \in Accepted : n \in DOMAIN proposals
      BY DEF Accepted
    <3>2. QED
      BY <2>4, <2>6, <3>1 DEF Merged
  <2>9. \A n \in decided : Merged(n)' = [proposal |-> n, content |-> Content(op)]
    BY <2>5 DEF Merged
  <2>10. {e \in audit' : e.proposal \notin contested'}
            = {e \in audit : e.proposal \notin contested}
                 \cup {[proposal |-> n, content |-> Content(op)] : n \in decided \ contested}
    BY <2>2
  <2> HIDE DEF decided
  <2>11. {Merged(n)' : n \in Accepted'} = {Merged(n) : n \in Accepted}
            \cup {[proposal |-> n, content |-> Content(op)] : n \in decided \ contested}
    BY <2>7, <2>8, <2>9
  <2>12. QED
    BY <1>0, <1>g, <2>10, <2>11
<1>4. CASE UNCHANGED proposals
  <2>1. \A q \in Requests : CommitReview(q) => AuditMatchesMerges'
    BY <1>3
  <2>2. UNCHANGED audit \/ \E q \in Requests : CommitReview(q)
    BY DEF Next, ScanStep, RequestStep, BeginScan, Fetch, Extract, ReadAccepted, ReadRejected, ReadPending,
           CommitScan, AbortScan, BeginReview, CountSources, RemoveSource, Review, InsertSource, AbortRequest
  <2>3. QED
    BY <1>1, <1>4, <2>1, <2>2
<1>5. QED
  BY <1>2, <1>3, <1>4, WhoWrites

(* Every step keeps what was decided.                                      *)
LEMMA DecisionsStep == DInv /\ [Next]_vars => DInv'
<1> SUFFICES ASSUME DInv, [Next]_vars PROVE DInv'
  OBVIOUS
<1>1. CASE UNCHANGED vars
  <2>1. TInv'
    BY <1>1, TypeStep DEF DInv
  <2>2. UNCHANGED <<proposals, audit, contested, scan, req>>
    BY <1>1 DEF vars, overlaps
  <2>3. \A c, st : With(c, st)' = With(c, st) /\ Contested(c, st)' = Contested(c, st)
    BY <2>2 DEF With, OwnerOf, Contested
  <2>4. \A w \in Scans : SettledIsRejected(w)' /\ ReadsSettled(w)'
    BY <2>2, <2>3 DEF DInv, SettledIsRejected, ReadsSettled
  <2>5. RejectionStands'
    BY <2>2, <2>3 DEF DInv, RejectionStands
  <2>6. (\A p \in Requests : Undecided(p)') /\ SharedIsContested' /\ AuditMatchesMerges'
    BY <2>2 DEF DInv, Undecided, SharedIsContested, AuditMatchesMerges
  <2>7. QED
    BY <2>1, <2>4, <2>5, <2>6 DEF DInv
<1>2. CASE Next
  <2>1. TInv'
    BY TypeStep DEF DInv
  <2>2. (\A p \in Requests : Undecided(p)') /\ SharedIsContested'
    BY <1>2, UndecidedStep, SharedStep
  <2>3. AuditMatchesMerges'
    BY <1>2, AuditStep
  <2>4. \A w \in Scans : SettledIsRejected(w)' /\ ReadsSettled(w)'
    BY <1>2, ScansDecide
  <2>5. RejectionStands'
    BY <1>2, ScansDecide DEF RejectionStands, Open
  <2>6. QED
    BY <2>1, <2>2, <2>3, <2>4, <2>5 DEF DInv
<1>3. QED
  BY <1>1, <1>2

(* Nothing is proposed or decided at first.                                *)
LEMMA InitDecisions == Init => DInv
<1> SUFFICES ASSUME Init PROVE DInv
  OBVIOUS
<1>1. TInv
  BY InitTypes
<1>2. (\A q \in Requests : Undecided(q)) /\ SharedIsContested
  BY DEF Init, NoRequest, Undecided, SharedIsContested
<1>3. AuditMatchesMerges
  BY DEF Init, AuditMatchesMerges
<1>4. \A w \in Scans : SettledIsRejected(w) /\ ReadsSettled(w)
  BY DEF Init, NoScan, SettledIsRejected, ReadsSettled
<1>5. RejectionStands
  BY DEF Init, NoScan, RejectionStands
<1>6. QED
  BY <1>1, <1>2, <1>3, <1>4, <1>5 DEF DInv

(* With any number of requests and scans at once, what was decided stands  *)
(* in every state, unless it is contested.                                 *)
LEMMA DecisionsStand == Spec => []DInv
  BY DecisionsStep, InitDecisions, PTL DEF Spec

(* An accepted proposal stays as it was merged, whatever scans and         *)
(* requests commit, unless two requests found it pending at once.          *)
THEOREM AcceptedIsKept == Spec => AdditiveOnly
<1> DEFINE Additive == \A n \in DOMAIN proposals \ contested :
                          proposals[n].status = "accepted" => proposals'[n] = proposals[n]
<1>1. DInv /\ [Next]_vars => [Additive]_vars
  BY KeepsDecisions DEF Kept
<1>2. QED
  BY <1>1, DecisionsStand, PTL DEF Spec, AdditiveOnly

(* The audit trail is that of the accepted proposals, with what was        *)
(* merged, except for contested proposals.                                 *)
THEOREM AuditTrail == Spec => []AuditMatchesMerges
<1>1. DInv => AuditMatchesMerges
  BY DEF DInv
<1>2. QED
  BY <1>1, DecisionsStand, PTL

(* No scan task, however many run at once, finds what was rejected when it *)
(* began, unless a proposal of the item is contested.                      *)
THEOREM RejectedIsNotProposed == Spec => []RejectionStands
<1>1. DInv => RejectionStands
  BY DEF DInv
<1>2. QED
  BY <1>1, DecisionsStand, PTL

-----------------------------------------------------------------------------
\* The pending proposals.

Running(w) == scan[w].pc # "idle"

(* What a scan has found is pending only from a scan that overlapped it,   *)
(* and two finds of an item come from one page.                            *)
FoundIsNew(w) ==
    /\ ~ Running(w) => scan[w].found = {}
    /\ \A f \in scan[w].found, n \in DOMAIN proposals :
          /\ proposals[n].status = "pending" /\ OwnerOf(proposals[n]) = scan[w].who
          /\ proposals[n].key = KeyOf[f.cand]
          => Beside(proposals[n].cycle, scan[w].cycle)
    /\ \A f, g \in scan[w].found : KeyOf[f.cand] = KeyOf[g.cand] => f.source = g.source

(* Two scans that run overlap.                                             *)
RunningIsBeside ==
    \A v, w \in Scans :
        v # w /\ Running(v) /\ Running(w) => Beside(scan[v].cycle, scan[w].cycle)

PInv == TInv /\ PendingOncePerPage /\ RunningIsBeside /\ \A w \in Scans : FoundIsNew(w)

(* Only the commit of a scan adds rows; the others can only decide them.   *)
LEMMA PendingShrinks ==
    ASSUME TInv, Next, \A w \in Scans : ~ CommitScan(w)
    PROVE  /\ DOMAIN proposals' = DOMAIN proposals
           /\ \A n \in DOMAIN proposals :
                 /\ proposals'[n].source = proposals[n].source /\ proposals'[n].key = proposals[n].key
                 /\ proposals'[n].cycle = proposals[n].cycle
                 /\ proposals'[n].status = "pending" => proposals[n].status = "pending"
<1>0. proposals \in Seq(Proposal) /\ \A n \in DOMAIN proposals : proposals[n] \in Proposal
  BY DEF TInv, TypeOK
<1>1. ASSUME NEW q \in Requests, CommitReview(q)
      PROVE  /\ DOMAIN proposals' = DOMAIN proposals
             /\ \A n \in DOMAIN proposals :
                   \/ proposals'[n] = proposals[n]
                   \/ proposals'[n] = Reviewed(proposals[n], req[q].op)
  BY <1>1 DEF CommitReview
<1>2. ASSUME NEW p \in Proposal, NEW op
      PROVE  /\ Reviewed(p, op).source = p.source /\ Reviewed(p, op).key = p.key
             /\ Reviewed(p, op).cycle = p.cycle /\ Reviewed(p, op).status # "pending"
  BY DEF Reviewed, Proposal
<1>3. CASE UNCHANGED proposals
  BY <1>3
<1>4. CASE \E q \in Requests : CommitReview(q)
  BY <1>0, <1>1, <1>2, <1>4
<1>5. QED
  BY <1>3, <1>4
     DEF Next, ScanStep, RequestStep, BeginScan, Fetch, Extract, ReadAccepted, ReadRejected, ReadPending,
         AbortScan, BeginReview, CountSources, RemoveSource, Review, InsertSource, AbortRequest

(* What becomes of the number of a scan.                                   *)
LEMMA ScanContinues ==
    ASSUME TInv, Next, NEW w \in Scans
    PROVE  \/ scan'[w] = scan[w]
           \/ scan'[w] = NoScan
           \/ BeginScan(w) /\ scan'[w].cycle = cycles + 1
           \/ Running(w) /\ scan'[w].cycle = scan[w].cycle /\ scan'[w].pc # "idle"
<1>0. scan \in [Scans -> Scan] /\ scan[w] \in Scan /\ TypeOK /\ OwnSource(w)
  BY DEF TInv, TypeOK
<1>1. ASSUME NEW v \in Scans, v # w, BeginScan(v) \/ ScanStep(v) \/ AbortScan(v)
      PROVE  scan'[w] = scan[w]
  <2>1. CASE CommitScan(v)
    BY <1>0, <1>1, <2>1, Committed
  <2>2. CASE BeginScan(v) \/ AbortScan(v)
    BY <1>0, <1>1, <2>2 DEF BeginScan, AbortScan
  <2>3. CASE Fetch(v)
    BY <1>0, <1>1, <2>3 DEF Fetch
  <2>4. CASE Extract(v) \/ ReadAccepted(v) \/ ReadRejected(v) \/ ReadPending(v)
    BY <1>0, <1>1, <2>4 DEF Extract, ReadAccepted, ReadRejected, ReadPending
  <2>5. QED
    BY <1>1, <2>1, <2>2, <2>3, <2>4 DEF ScanStep
<1>2. ASSUME NEW q \in Requests,
             BeginReview(q) \/ CountSources(q) \/ RemoveSource(q) \/ RequestStep(q) \/ AbortRequest(q)
      PROVE  scan'[w] = scan[w]
  BY <1>2 DEF BeginReview, CountSources, RemoveSource, RequestStep, Review, CommitReview, InsertSource,
              AbortRequest
<1>3. CASE BeginScan(w)
  <2>1. PICK todo, who, counts, settled :
            scan' = [scan EXCEPT ![w] = [NoScan EXCEPT !.pc = "fetch", !.cycle = cycles + 1, !.todo = todo,
                        !.who = who, !.loaded = counts, !.copy = counts, !.settled = settled]]
    BY <1>3, Zenon DEF BeginScan
  <2> DEFINE r == [NoScan EXCEPT !.pc = "fetch", !.cycle = cycles + 1, !.todo = todo,
                        !.who = who, !.loaded = counts, !.copy = counts, !.settled = settled]
  <2>2. r.cycle = cycles + 1
    BY DEF NoScan
  <2>3. scan'[w] = r
    BY <1>0, <2>1
  <2> HIDE DEF r
  <2>4. QED
    BY <1>3, <2>2, <2>3
<1>4. CASE AbortScan(w)
  BY <1>0, <1>4 DEF AbortScan
<1>r. ASSUME Running(w), NEW r, scan' = [scan EXCEPT ![w] = r], r.pc # "idle", r.cycle = scan[w].cycle
      PROVE  Running(w) /\ scan'[w].cycle = scan[w].cycle /\ scan'[w].pc # "idle"
  BY <1>0, <1>r
<1>5. CASE CommitScan(w)
  <2>1. Running(w)
    BY <1>5 DEF CommitScan, Running
  <2>2. CASE scan' = [scan EXCEPT ![w] = NoScan]
    BY <1>0, <2>2
  <2>3. QED
    BY <1>5, <1>r, <2>1, <2>2, Committed
<1>6. CASE Fetch(w)
  <2>1. PICK s \in Left(w) :
          \/ scan' = [scan EXCEPT ![w] = [@ EXCEPT !.pc = "extract", !.at = s]]
          \/ scan' = [scan EXCEPT ![w] = [Skipped(w, s) EXCEPT !.copy[s] = scan[w].copy[s] + 1]]
          \/ scan' = [scan EXCEPT ![w] = Skipped(w, s)]
    BY <1>6 DEF Fetch
  <2>2. s \in Sources /\ Running(w)
    BY <1>0, <1>6 DEF Left, Scan, Fetch, Running
  <2>3. Skipped(w, s).pc = "fetch" /\ Skipped(w, s).cycle = scan[w].cycle /\ Skipped(w, s) \in Scan
    BY <1>0, <2>2, SkippedIsScan
  <2>4. CASE scan' = [scan EXCEPT ![w] = [@ EXCEPT !.pc = "extract", !.at = s]]
    <3>1. [scan[w] EXCEPT !.pc = "extract", !.at = s].pc # "idle"
          /\ [scan[w] EXCEPT !.pc = "extract", !.at = s].cycle = scan[w].cycle
      BY <1>0 DEF Scan
    <3>2. QED
      BY <1>r, <2>2, <2>4, <3>1
  <2>5. CASE scan' = [scan EXCEPT ![w] = [Skipped(w, s) EXCEPT !.copy[s] = scan[w].copy[s] + 1]]
    <3>1. \A c : [Skipped(w, s) EXCEPT !.copy = c].pc = "fetch"
                 /\ [Skipped(w, s) EXCEPT !.copy = c].cycle = scan[w].cycle
      BY <2>3 DEF Scan
    <3>2. \E c : scan' = [scan EXCEPT ![w] = [Skipped(w, s) EXCEPT !.copy = c]]
      BY <2>5
    <3>3. QED
      BY <1>r, <2>2, <3>1, <3>2
  <2>6. CASE scan' = [scan EXCEPT ![w] = Skipped(w, s)]
    BY <1>r, <2>2, <2>3, <2>6
  <2>7. QED
    BY <2>1, <2>4, <2>5, <2>6
<1>7. CASE Extract(w)
  <2>1. scan[w].at \in Sources /\ {} \in SUBSET Candidates /\ Running(w)
    BY <1>0, <1>7 DEF Extract, OwnSource, Reading, Running
  <2>2. Skipped(w, scan[w].at).pc = "fetch" /\ Skipped(w, scan[w].at).cycle = scan[w].cycle
        /\ Read(w, {}).pc = "fetch" /\ Read(w, {}).cycle = scan[w].cycle
    <3>1. Skipped(w, scan[w].at).pc = "fetch" /\ Skipped(w, scan[w].at).cycle = scan[w].cycle
      BY <1>0, <2>1, SkippedIsScan
    <3>2. Read(w, {}).pc = "fetch" /\ Read(w, {}).cycle = scan[w].cycle
      BY <1>0, <2>1, ReadIsScan
    <3>3. QED
      BY <3>1, <3>2
  <2>3. ASSUME NEW page, scan' = [scan EXCEPT ![w] = [@ EXCEPT !.pc = "accepted", !.page = page]]
        PROVE  Running(w) /\ scan'[w].cycle = scan[w].cycle /\ scan'[w].pc # "idle"
    <3>1. /\ [scan[w] EXCEPT !.pc = "accepted", !.page = page].pc # "idle"
          /\ [scan[w] EXCEPT !.pc = "accepted", !.page = page].cycle = scan[w].cycle
      BY <1>0 DEF Scan
    <3>2. QED
      BY <1>r, <2>1, <2>3, <3>1
  <2>4. QED
    BY <1>7, <1>r, <2>1, <2>2, <2>3 DEF Extract
<1>8. CASE ReadAccepted(w)
  <2>1. \A k : [scan[w] EXCEPT !.pc = "rejected", !.names = k].pc # "idle"
               /\ [scan[w] EXCEPT !.pc = "rejected", !.names = k].cycle = scan[w].cycle
    BY <1>0 DEF Scan
  <2>2. Running(w) /\ \E k : scan' = [scan EXCEPT ![w] = [scan[w] EXCEPT !.pc = "rejected", !.names = k]]
    BY <1>8 DEF ReadAccepted, Running
  <2>3. QED
    BY <1>r, <2>1, <2>2
<1>9. CASE ReadRejected(w)
  <2>1. \A k : [scan[w] EXCEPT !.pc = "pending", !.rejected = k].pc # "idle"
               /\ [scan[w] EXCEPT !.pc = "pending", !.rejected = k].cycle = scan[w].cycle
    BY <1>0 DEF Scan
  <2>2. Running(w) /\ \E k : scan' = [scan EXCEPT ![w] = [scan[w] EXCEPT !.pc = "pending", !.rejected = k]]
    BY <1>9 DEF ReadRejected, Running
  <2>3. QED
    BY <1>r, <2>1, <2>2
<1>10. CASE ReadPending(w)
  <2> DEFINE pending == With(scan[w].who, "pending") \cup {KeyOf[f.cand] : f \in scan[w].found}
             new == {c \in scan[w].page : ~Known(w, pending, KeyOf[c])}
  <2>1. scan[w].at \in Sources /\ new \in SUBSET Candidates /\ Running(w)
    BY <1>0, <1>10 DEF ReadPending, OwnSource, Reading, Scan, Running
  <2>2. scan' = [scan EXCEPT ![w] = Read(w, new)]
    BY <1>10 DEF ReadPending
  <2> HIDE DEF new
  <2>3. Read(w, new).pc = "fetch" /\ Read(w, new).cycle = scan[w].cycle
    BY <1>0, <2>1, ReadIsScan
  <2>4. QED
    BY <1>r, <2>1, <2>2, <2>3
<1>11. QED
  BY <1>1, <1>2, <1>3, <1>4, <1>5, <1>6, <1>7, <1>8, <1>9, <1>10 DEF Next, ScanStep

(* A scan that begins is recorded beside those that run.                   *)
LEMMA BesideStep == ASSUME PInv, Next PROVE RunningIsBeside'
<1> SUFFICES ASSUME NEW v \in Scans, NEW w \in Scans, v # w, Running(v)', Running(w)'
             PROVE  Beside(scan[v].cycle, scan[w].cycle)'
  BY DEF RunningIsBeside
<1>0. TInv /\ RunningIsBeside /\ beside \subseteq beside' /\ scan \in [Scans -> Scan]
  BY OverlapsStay DEF PInv, TInv, TypeOK
<1>1. ASSUME NEW a \in Scans, NEW b \in Scans, a # b, BeginScan(a), scan'[a].cycle = cycles + 1, Running(b)'
      PROVE  <<scan[b].cycle, scan[a].cycle>>' \in beside'
  <2>1. scan'[b] = scan[b]
    BY <1>0, <1>1 DEF BeginScan
  <2>2. Running(b)
    BY <1>1, <2>1 DEF Running
  <2>3. <<scan[b].cycle, cycles + 1>> \in beside'
    BY <1>1, <2>2 DEF BeginScan, Running
  <2>4. QED
    BY <1>1, <2>1, <2>3
<1>2. ASSUME NEW a \in Scans, Running(a)', ~ (BeginScan(a) /\ scan'[a].cycle = cycles + 1)
      PROVE  Running(a) /\ scan'[a].cycle = scan[a].cycle
  <2>1. NoScan.pc = "idle"
    BY DEF NoScan
  <2>2. QED
    BY <1>0, <1>2, <2>1, ScanContinues DEF Running
<1>3. CASE BeginScan(v) /\ scan'[v].cycle = cycles + 1
  BY <1>1, <1>3 DEF Beside
<1>4. CASE BeginScan(w) /\ scan'[w].cycle = cycles + 1
  BY <1>1, <1>4 DEF Beside
<1>5. CASE ~ (BeginScan(v) /\ scan'[v].cycle = cycles + 1) /\ ~ (BeginScan(w) /\ scan'[w].cycle = cycles + 1)
  BY <1>0, <1>2, <1>5 DEF RunningIsBeside, Beside
<1>6. QED
  BY <1>3, <1>4, <1>5

(* The commit of a scan: its rows are pending beside rows of the same item *)
(* only if their scans overlapped.                                         *)
LEMMA CommitPending ==
    ASSUME PInv, NEW v \in Scans, CommitScan(v)
    PROVE  PendingOncePerPage' /\ \A w \in Scans : FoundIsNew(w)'
<1>0. /\ TInv /\ scan[v] \in Scan /\ scan \in [Scans -> Scan] /\ OwnFound(v) /\ FoundIsNew(v)
      /\ TypeOK /\ PendingOncePerPage /\ Running(v)
  BY DEF PInv, TInv, TypeOK, CommitScan, Running
<1>b. UNCHANGED beside
  BY DEF CommitScan, overlaps
<1> DEFINE c == scan[v].cycle
           IsNew(n) == \E f \in scan[v].found : proposals'[n] = Pending(f, c)
<1>1. /\ \A n \in DOMAIN proposals : n \in DOMAIN proposals' /\ proposals'[n] = proposals[n]
      /\ \A n \in DOMAIN proposals' \ DOMAIN proposals : IsNew(n)
  BY <1>0, Appended
<1> HIDE DEF IsNew, c
<1>2. ASSUME NEW m \in DOMAIN proposals', NEW n \in DOMAIN proposals', IsNew(m),
             proposals'[m].key = proposals'[n].key, OwnerOf(proposals'[m]) = OwnerOf(proposals'[n]),
             proposals'[n].status = "pending"
      PROVE  \/ proposals'[m].source = proposals'[n].source /\ proposals'[m].cycle = proposals'[n].cycle
             \/ Beside(proposals'[n].cycle, proposals'[m].cycle)
  <2>1. PICK f \in scan[v].found : proposals'[m] = Pending(f, c)
    BY <1>2 DEF IsNew
  <2>2. Owner[f.source] = scan[v].who
    BY <1>0 DEF OwnFound
  <2>3. proposals'[m].key = KeyOf[f.cand] /\ OwnerOf(proposals'[m]) = scan[v].who
        /\ proposals'[m].source = f.source /\ proposals'[m].cycle = c
    BY <2>1, <2>2 DEF Pending, OwnerOf
  <2>4. CASE n \in DOMAIN proposals
    <3>1. proposals'[n] = proposals[n]
      BY <1>1, <2>4
    <3>2. Beside(proposals[n].cycle, scan[v].cycle)
      BY <1>0, <1>2, <2>3, <2>4, <3>1 DEF FoundIsNew
    <3>3. QED
      BY <2>3, <3>1, <3>2 DEF c
  <2>5. CASE n \notin DOMAIN proposals
    <3>1. PICK g \in scan[v].found : proposals'[n] = Pending(g, c)
      BY <1>1, <2>5 DEF IsNew
    <3>2. proposals'[n].key = KeyOf[g.cand] /\ proposals'[n].source = g.source /\ proposals'[n].cycle = c
      BY <3>1 DEF Pending
    <3>3. f.source = g.source
      BY <1>0, <1>2, <2>3, <3>2 DEF FoundIsNew
    <3>4. QED
      BY <2>3, <3>2, <3>3
  <2>6. QED
    BY <2>4, <2>5
<1>3. ASSUME NEW m \in DOMAIN proposals, NEW n \in DOMAIN proposals,
             proposals[m].status = "pending", proposals[n].status = "pending",
             proposals[m].key = proposals[n].key, OwnerOf(proposals[m]) = OwnerOf(proposals[n])
      PROVE  \/ proposals[m].source = proposals[n].source /\ proposals[m].cycle = proposals[n].cycle
             \/ Beside(proposals[m].cycle, proposals[n].cycle)
  BY <1>0, <1>3 DEF PendingOncePerPage
<1>4. PendingOncePerPage'
  <2>1. SUFFICES ASSUME NEW m \in DOMAIN proposals', NEW n \in DOMAIN proposals',
                        proposals'[m].status = "pending", proposals'[n].status = "pending",
                        proposals'[m].key = proposals'[n].key, OwnerOf(proposals'[m]) = OwnerOf(proposals'[n])
                 PROVE  \/ proposals'[m].source = proposals'[n].source
                           /\ proposals'[m].cycle = proposals'[n].cycle
                        \/ Beside(proposals'[m].cycle, proposals'[n].cycle)
    BY <1>b DEF PendingOncePerPage, OwnerOf, Beside
  <2>2. CASE IsNew(m) \/ IsNew(n)
    BY <1>2, <2>1, <2>2 DEF Beside
  <2>3. CASE m \in DOMAIN proposals /\ n \in DOMAIN proposals
    BY <1>1, <1>3, <2>1, <2>3
  <2>4. QED
    BY <1>1, <2>2, <2>3
<1>5. scan'[v].found = {}
  <2>1. CASE scan' = [scan EXCEPT ![v] = NoScan]
    BY <1>0, <2>1 DEF NoScan
  <2>2. ASSUME NEW r \in Scan, scan' = [scan EXCEPT ![v] = r], r.found = {}
        PROVE  scan'[v].found = {}
    BY <1>0, <2>2
  <2>3. QED
    BY <1>0, <2>1, <2>2, Committed
<1>6. ASSUME NEW w \in Scans, w # v PROVE FoundIsNew(w)'
  <2>1. scan'[w] = scan[w] /\ FoundIsNew(w)
    BY <1>0, <1>6, Committed DEF PInv
  <2>2. ASSUME NEW f \in scan[w].found, NEW n \in DOMAIN proposals', proposals'[n].status = "pending",
               OwnerOf(proposals'[n]) = scan[w].who, proposals'[n].key = KeyOf[f.cand]
        PROVE  Beside(proposals'[n].cycle, scan[w].cycle)
    <3>1. CASE n \in DOMAIN proposals
      BY <1>1, <2>1, <2>2, <3>1 DEF FoundIsNew
    <3>2. CASE n \notin DOMAIN proposals
      <4>1. PICK g \in scan[v].found : proposals'[n] = Pending(g, c)
        BY <1>1, <3>2 DEF IsNew
      <4>2. proposals'[n].cycle = scan[v].cycle
        BY <4>1 DEF Pending, c
      <4>3. Running(w)
        BY <2>1, <2>2 DEF FoundIsNew
      <4>4. QED
        BY <1>0, <1>6, <4>2, <4>3 DEF PInv, RunningIsBeside
    <3>3. QED
      BY <3>1, <3>2
  <2>3. QED
    BY <1>b, <2>1, <2>2 DEF FoundIsNew, Beside, OwnerOf, Running
<1>7. QED
  BY <1>4, <1>5, <1>6 DEF FoundIsNew

(* What a scan has found is not pending when it compares, and it proposes  *)
(* an item once a page.                                                    *)
LEMMA ComparePending ==
    ASSUME PInv, Next, \A v \in Scans : ~ CommitScan(v), NEW w \in Scans
    PROVE  PendingOncePerPage' /\ FoundIsNew(w)'
<1>0. /\ TInv /\ scan[w] \in Scan /\ scan \in [Scans -> Scan] /\ OwnFound(w) /\ FoundIsNew(w)
      /\ TypeOK /\ PendingOncePerPage /\ OwnSource(w) /\ beside \subseteq beside'
  BY OverlapsStay DEF PInv, TInv, TypeOK
<1>1. /\ DOMAIN proposals' = DOMAIN proposals
      /\ \A n \in DOMAIN proposals :
            /\ proposals'[n].source = proposals[n].source /\ proposals'[n].key = proposals[n].key
            /\ proposals'[n].cycle = proposals[n].cycle
            /\ proposals'[n].status = "pending" => proposals[n].status = "pending"
  BY <1>0, PendingShrinks
<1>2. PendingOncePerPage'
  BY <1>0, <1>1 DEF PendingOncePerPage, OwnerOf, Beside
<1>3. ASSUME NEW r, scan'[w] = r, r.who = scan[w].who, r.cycle = scan[w].cycle, r.pc # "idle",
             \A f \in r.found : \/ f \in scan[w].found
                                \/ KeyOf[f.cand] \notin With(scan[w].who, "pending"),
             \A f, g \in r.found : KeyOf[f.cand] = KeyOf[g.cand] => f.source = g.source
      PROVE  FoundIsNew(w)'
  <2>1. ASSUME NEW f \in r.found, NEW n \in DOMAIN proposals', proposals'[n].status = "pending",
               OwnerOf(proposals'[n]) = r.who, proposals'[n].key = KeyOf[f.cand]
        PROVE  Beside(proposals[n].cycle, scan[w].cycle)'
    <3>1. /\ n \in DOMAIN proposals /\ proposals[n].status = "pending" /\ OwnerOf(proposals[n]) = scan[w].who
          /\ proposals[n].key = KeyOf[f.cand] /\ proposals'[n].cycle = proposals[n].cycle
      BY <1>1, <1>3, <2>1 DEF OwnerOf
    <3>2. KeyOf[f.cand] \in With(scan[w].who, "pending")
      BY <3>1 DEF With
    <3>3. Beside(proposals[n].cycle, scan[w].cycle)
      BY <1>0, <1>3, <2>1, <3>1, <3>2 DEF FoundIsNew
    <3>4. QED
      BY <1>0, <1>3, <3>1, <3>3 DEF Beside
  <2>2. QED
    BY <1>3, <2>1 DEF FoundIsNew, Running, Beside, OwnerOf
<1>4. CASE scan'[w].found = {}
  BY <1>2, <1>4 DEF FoundIsNew
<1>5. CASE scan'[w].found = scan[w].found /\ scan'[w].found # {}
  <2>1. PICK f \in scan[w].found : TRUE
    BY <1>5
  <2>2. OwnFound(w)'
    BY <1>0, TypeStep DEF TInv
  <2>3. scan'[w].who = scan[w].who
    BY <1>0, <1>5, <2>1, <2>2 DEF OwnFound
  <2>4. scan'[w].cycle = scan[w].cycle /\ scan'[w].pc # "idle"
    <3>1. Running(w)
      BY <1>0, <1>5 DEF FoundIsNew
    <3>2. ~ BeginScan(w) /\ NoScan.found = {}
      BY <3>1 DEF BeginScan, Running, NoScan
    <3>3. QED
      BY <1>0, <1>5, <3>1, <3>2, ScanContinues DEF Running
  <2>5. \A g, h \in scan'[w].found : KeyOf[g.cand] = KeyOf[h.cand] => g.source = h.source
    BY <1>0, <1>5 DEF FoundIsNew
  <2>6. QED
    BY <1>2, <1>3, <1>5, <2>3, <2>4, <2>5
<1>6. CASE ReadPending(w)
  <2> DEFINE pending == With(scan[w].who, "pending") \cup {KeyOf[f.cand] : f \in scan[w].found}
             new == {c \in scan[w].page : ~Known(w, pending, KeyOf[c])}
  <2>1. scan[w].at \in Sources /\ new \in SUBSET Candidates
    BY <1>0, <1>6 DEF ReadPending, OwnSource, Reading, Scan
  <2>2. \A c \in new : KeyOf[c] \notin pending
    BY DEF Known
  <2>3. scan'[w] = Read(w, new)
    BY <1>0, <1>6 DEF ReadPending
  <2> HIDE DEF new
  <2>4. /\ Read(w, new).found = scan[w].found \cup [source : {scan[w].at}, cand : new]
        /\ Read(w, new).who = scan[w].who /\ Read(w, new).cycle = scan[w].cycle /\ Read(w, new).pc = "fetch"
    BY <1>0, <2>1, ReadIsScan
  <2>5. \A f \in [source : {scan[w].at}, cand : new] : f.source = scan[w].at /\ f.cand \in new
    OBVIOUS
  <2> DEFINE r == Read(w, new)
  <2> HIDE DEF r
  <2>6. \A f \in r.found : f \in scan[w].found \/ KeyOf[f.cand] \notin With(scan[w].who, "pending")
    BY <2>2, <2>4, <2>5 DEF r
  <2>7. \A f, g \in r.found : KeyOf[f.cand] = KeyOf[g.cand] => f.source = g.source
    BY <1>0, <2>2, <2>4, <2>5 DEF FoundIsNew, r
  <2>8. scan'[w] = r /\ r.who = scan[w].who /\ r.cycle = scan[w].cycle /\ r.pc # "idle"
    BY <2>3, <2>4 DEF r
  <2>9. QED
    BY <1>2, <1>3, <2>6, <2>7, <2>8
<1>7. CASE ReadRejected(w)
  <2>1. \A k : [scan[w] EXCEPT !.pc = "pending", !.rejected = k].found = scan[w].found
    BY <1>0 DEF Scan
  <2>2. scan'[w].found = scan[w].found
    BY <1>0, <1>7, <2>1 DEF ReadRejected
  <2>3. QED
    BY <1>4, <1>5, <2>2
<1>8. QED
  BY <1>0, <1>4, <1>5, <1>6, <1>7, ScanMoves

(* However many scan tasks run at once, an item is pending twice only from *)
(* one page or from scans that overlapped.                                 *)
THEOREM OnePending == Spec => []PendingOncePerPage
<1>1. Init => PInv
  <2>1. Init => PendingOncePerPage /\ RunningIsBeside /\ \A v \in Scans : FoundIsNew(v)
    BY DEF Init, NoScan, FoundIsNew, PendingOncePerPage, RunningIsBeside, Running
  <2>2. QED
    BY <2>1, InitTypes DEF PInv
<1>2. PInv /\ [Next]_vars => PInv'
  <2> SUFFICES ASSUME PInv, [Next]_vars PROVE PInv'
    OBVIOUS
  <2>1. TInv'
    BY TypeStep DEF PInv
  <2>2. CASE Next
    <3>1. PendingOncePerPage' /\ \A w \in Scans : FoundIsNew(w)'
      <4>1. CASE \A v \in Scans : ~ CommitScan(v)
        <5>1. \A w \in Scans : FoundIsNew(w)'
          BY <2>2, <4>1, ComparePending
        <5>2. CASE Scans # {}
          BY <2>2, <4>1, <5>2, ComparePending
        <5>3. CASE Scans = {}
          <6>1. UNCHANGED beside
            BY <2>2, <5>3 DEF Next, BeginReview, CountSources, RemoveSource, RequestStep, Review,
               CommitReview, InsertSource, AbortRequest, overlaps
          <6>2. TInv /\ PendingOncePerPage
            BY DEF PInv
          <6>3. /\ DOMAIN proposals' = DOMAIN proposals
                /\ \A n \in DOMAIN proposals :
                      /\ proposals'[n].source = proposals[n].source /\ proposals'[n].key = proposals[n].key
                      /\ proposals'[n].cycle = proposals[n].cycle
                      /\ proposals'[n].status = "pending" => proposals[n].status = "pending"
            BY <2>2, <4>1, <6>2, PendingShrinks
          <6>4. PendingOncePerPage'
            BY <6>1, <6>2, <6>3 DEF PendingOncePerPage, OwnerOf, Beside
          <6>5. QED
            BY <5>3, <6>4
        <5>4. QED
          BY <5>1, <5>2, <5>3
      <4>2. QED
        BY <4>1, CommitPending
    <3>2. QED
      BY <2>1, <2>2, <3>1, BesideStep DEF PInv
  <2>3. CASE UNCHANGED vars
    <3>1. UNCHANGED <<proposals, beside, scan>>
      BY <2>3 DEF vars, overlaps
    <3>2. PendingOncePerPage' /\ RunningIsBeside' /\ \A v \in Scans : FoundIsNew(v)'
      BY <3>1 DEF PInv, PendingOncePerPage, FoundIsNew, RunningIsBeside, Running, Beside, OwnerOf
    <3>3. QED
      BY <2>1, <3>2 DEF PInv
  <2>4. QED
    BY <2>2, <2>3
<1>3. PInv => PendingOncePerPage
  BY DEF PInv
<1>4. QED
  BY <1>1, <1>2, <1>3, PTL DEF Spec

-----------------------------------------------------------------------------
\* The failures of a source, which every scan counts in a copy of its own.

(* The counts that a scan holds are those of the rows and of the fetches   *)
(* that have failed, for the sources that no two scans held at once:       *)
(* nobody else writes those while it runs.                                 *)
Agrees(r, rows, failed) ==
    /\ r.pc \in {"extract", "accepted", "rejected", "pending"} => r.at \in r.todo
    /\ \A s \in Sources \ crossed :
          /\ s \in r.todo \cup r.ok \cup r.missed => r.loaded[s] = rows[s].failures
          /\ s \in r.todo => r.copy[s] = r.loaded[s] /\ s \notin r.ok \cup r.missed
          /\ s \in r.ok => r.copy[s] = 0
          /\ s \in r.missed => r.copy[s] <= failed[s]

Counted(rows, failed) == \A s \in Sources \ crossed : rows[s].failures <= failed[s]

(* What two scans hold at once has been recorded as such.                  *)
Crossing == \A v, w \in Scans : v # w => Held(v) \cap Held(w) \subseteq crossed

CInv ==
    /\ TInv /\ Crossing /\ Counted(sources, misses)
    /\ \A w \in Scans : Agrees(scan[w], sources, misses)

Earned == \A s \in Sources \ crossed : notices'[s] > notices[s] => misses'[s] >= THRESHOLD

(* What the step of one scan leaves to the others: their state, and the    *)
(* counts of the sources that it does not hold.                            *)
Apart(w) ==
    /\ \A v \in Scans \ {w} : scan'[v] = scan[v]
    /\ \A s \in Sources \ Held(w) :
          sources'[s].failures = sources[s].failures /\ misses'[s] = misses[s]

(* A task that has loaded nothing disagrees with no row.                   *)
LEMMA NoScanAgrees == ASSUME NEW rows, NEW failed PROVE Agrees(NoScan, rows, failed)
  BY DEF Agrees, NoScan

(* A source that is left out keeps the count it was loaded with.           *)
LEMMA SkippedAgrees ==
    ASSUME CInv, NEW w \in Scans, NEW s \in scan[w].todo
    PROVE  Agrees(Skipped(w, s), sources, misses)
<1>0. /\ TypeOK /\ scan[w] \in Scan /\ s \in Sources /\ Agrees(scan[w], sources, misses)
      /\ s \notin crossed => sources[s].failures <= misses[s]
  BY DEF CInv, TInv, TypeOK, Scan, Counted
<1>1. /\ Skipped(w, s).pc = "fetch"
      /\ Skipped(w, s).copy = scan[w].copy /\ Skipped(w, s).loaded = scan[w].loaded
      /\ Skipped(w, s).ok = scan[w].ok /\ Skipped(w, s).missed = scan[w].missed \cup {s}
      /\ Skipped(w, s).todo = scan[w].todo \ {s}
  BY <1>0, SkippedIsScan
<1>2. QED
  BY <1>0, <1>1 DEF Agrees

(* A source that was read has no failures.                                 *)
LEMMA ReadAgrees ==
    ASSUME CInv, NEW w \in Scans, Reading(w), NEW new \in SUBSET Candidates
    PROVE  Agrees(Read(w, new), sources, misses)
<1> DEFINE s == scan[w].at
<1>0. /\ TypeOK /\ scan[w] \in Scan /\ Agrees(scan[w], sources, misses) /\ s \in scan[w].todo
      /\ scan[w].copy \in [Sources -> Nat]
  BY DEF CInv, TInv, TypeOK, Scan, Agrees, Reading
<1>1. s \in Sources
  BY <1>0 DEF Scan
<1>2. /\ Read(w, new).pc = "fetch"
      /\ Read(w, new).copy = [scan[w].copy EXCEPT ![s] = 0] /\ Read(w, new).loaded = scan[w].loaded
      /\ Read(w, new).ok = scan[w].ok \cup {s} /\ Read(w, new).missed = scan[w].missed
      /\ Read(w, new).todo = scan[w].todo \ {s}
  BY <1>0, <1>1, ReadIsScan
<1>3. ASSUME NEW u \in Sources
      PROVE  Read(w, new).copy[u] = IF u = s THEN 0 ELSE scan[w].copy[u]
  BY <1>0, <1>1, <1>2
<1> HIDE DEF s
<1>4. QED
  BY <1>0, <1>2, <1>3 DEF Agrees

(* A fetch that fails is counted in the copy and in the history; the count *)
(* of the copy is not ahead of it.                                         *)
LEMMA MissAgrees ==
    ASSUME CInv, NEW w \in Scans, NEW s \in scan[w].todo,
           misses' = [misses EXCEPT ![s] = @ + 1],
           scan'[w] = [Skipped(w, s) EXCEPT !.copy = [@ EXCEPT ![s] = scan[w].copy[s] + 1]],
           UNCHANGED sources
    PROVE  /\ Agrees(scan'[w], sources', misses') /\ Counted(sources', misses')
           /\ s \notin crossed => scan[w].copy[s] + 1 <= misses'[s]
<1>0. /\ TypeOK /\ scan[w] \in Scan /\ s \in Sources /\ Agrees(scan[w], sources, misses)
      /\ Counted(sources, misses) /\ misses \in [Sources -> Nat] /\ scan[w].copy \in [Sources -> Nat]
      /\ \A u \in Sources : sources[u].failures \in Nat
  BY DEF CInv, TInv, TypeOK, Scan, Source
<1> DEFINE copy == [scan[w].copy EXCEPT ![s] = scan[w].copy[s] + 1]
           r == [Skipped(w, s) EXCEPT !.copy = copy]
<1>1. /\ Skipped(w, s) \in Scan /\ Skipped(w, s).pc = "fetch"
      /\ Skipped(w, s).copy = scan[w].copy /\ Skipped(w, s).loaded = scan[w].loaded
      /\ Skipped(w, s).ok = scan[w].ok /\ Skipped(w, s).missed = scan[w].missed \cup {s}
      /\ Skipped(w, s).todo = scan[w].todo \ {s}
  BY <1>0, SkippedIsScan
<1>2. scan'[w] = r
  BY <1>1
<1> HIDE DEF copy
<1>3. /\ r.pc = "fetch" /\ r.copy = copy /\ r.loaded = scan[w].loaded /\ r.ok = scan[w].ok
      /\ r.missed = scan[w].missed \cup {s} /\ r.todo = scan[w].todo \ {s}
  BY <1>1 DEF Scan
<1>4. \A u \in Sources : misses'[u] = IF u = s THEN misses[u] + 1 ELSE misses[u]
  BY <1>0
<1>5. \A u \in Sources : copy[u] = IF u = s THEN scan[w].copy[u] + 1 ELSE scan[w].copy[u]
  BY <1>0 DEF copy
<1>6. s \notin crossed => scan[w].copy[s] + 1 <= misses'[s]
  BY <1>0, <1>4 DEF Agrees, Counted
<1> HIDE DEF r
<1>7. Agrees(r, sources, misses')
  BY <1>0, <1>3, <1>4, <1>5, <1>6 DEF Agrees
<1>8. Counted(sources, misses')
  BY <1>0, <1>4 DEF Counted
<1>9. QED
  BY <1>2, <1>6, <1>7, <1>8

(* The commit writes what the scan counted: nothing for a source that was  *)
(* read, no more than the failed fetches for the others.                   *)
LEMMA CommitAgrees ==
    ASSUME CInv, NEW w \in Scans, CommitScan(w)
    PROVE  Agrees(scan'[w], sources', misses') /\ Counted(sources', misses')
<1> DEFINE done == scan[w].ok \cup scan[w].missed
<1>0. /\ TInv /\ scan \in [Scans -> Scan] /\ scan[w] \in Scan /\ Agrees(scan[w], sources, misses)
      /\ Counted(sources, misses) /\ misses \in [Sources -> Nat] /\ scan[w].copy \in [Sources -> Nat]
      /\ sources \in [Sources -> Source]
  BY DEF CInv, TInv, TypeOK, Scan
<1>1. ASSUME NEW s \in Sources
      PROVE  sources'[s].failures = IF s \in done /\ scan[w].copy[s] # scan[w].loaded[s]
                                    THEN scan[w].copy[s] ELSE sources[s].failures
  BY <1>0 DEF CommitScan, Source
<1>2. \A s \in Sources : misses'[s] = IF s \in scan[w].ok THEN 0 ELSE misses[s]
  BY DEF CommitScan
<1>3. ASSUME NEW s \in Sources \ crossed PROVE sources'[s].failures <= misses'[s]
  BY <1>0, <1>1, <1>2 DEF Agrees, Counted
<1>4. CASE scan' = [scan EXCEPT ![w] = NoScan]
  BY <1>0, <1>3, <1>4, NoScanAgrees DEF Counted
<1>5. ASSUME NEW r \in Scan, scan' = [scan EXCEPT ![w] = r], r.pc = "fetch", r.ok = {}, r.missed = {},
             r.todo = scan[w].todo, r.copy = scan[w].copy, r.loaded = scan[w].loaded
      PROVE  Agrees(scan'[w], sources', misses')
  <2>1. scan'[w] = r
    BY <1>0, <1>5
  <2>2. \A s \in scan[w].todo : s \in Sources \ crossed => sources'[s].failures = sources[s].failures
    BY <1>0, <1>1 DEF Agrees
  <2>3. Agrees(r, sources', misses')
    BY <1>0, <1>5, <2>2 DEF Agrees
  <2>4. QED
    BY <2>1, <2>3
<1>6. QED
  BY <1>0, <1>3, <1>4, <1>5, Committed DEF Counted

(* The steps of a scan keep its counts those of the rows, and a notice is  *)
(* earned by failed fetches.                                               *)
LEMMA OwnCounts ==
    ASSUME CInv, NEW w \in Scans, BeginScan(w) \/ ScanStep(w) \/ AbortScan(w)
    PROVE  Counted(sources', misses') /\ Agrees(scan'[w], sources', misses') /\ Earned
<1>0. /\ TInv /\ scan \in [Scans -> Scan] /\ scan[w] \in Scan /\ Agrees(scan[w], sources, misses)
      /\ Counted(sources, misses) /\ misses \in [Sources -> Nat]
      /\ sources \in [Sources -> Source] /\ notices \in [Sources -> Nat] /\ OwnSource(w)
  BY DEF CInv, TInv, TypeOK
<1>n. UNCHANGED notices => Earned
  BY <1>0 DEF Earned
<1>s. UNCHANGED <<sources, misses>> => Counted(sources', misses')
  BY <1>0
<1>2. CASE BeginScan(w)
  <2>0. PICK todo \in Targets \ {{}} : \E s \in todo :
            scan' = [scan EXCEPT ![w] =
                     [NoScan EXCEPT
                        !.pc = "fetch", !.cycle = cycles + 1, !.todo = todo,
                        !.who = Owner[s],
                        !.loaded = [u \in Sources |->
                                      IF u \in todo THEN sources[u].failures ELSE 0],
                        !.copy = [u \in Sources |->
                                    IF u \in todo THEN sources[u].failures ELSE 0],
                        !.settled = UNION {{c} \X With(c, "rejected") : c \in Consultants}]]
    BY <1>2, Zenon DEF BeginScan
  <2> DEFINE counts == [u \in Sources |-> IF u \in todo THEN sources[u].failures ELSE 0]
             settled == UNION {{c} \X With(c, "rejected") : c \in Consultants}
  <2>1. PICK s \in todo :
            scan' = [scan EXCEPT ![w] =
                     [NoScan EXCEPT !.pc = "fetch", !.cycle = cycles + 1, !.todo = todo, !.who = Owner[s],
                                    !.loaded = counts, !.copy = counts, !.settled = settled]]
    BY <2>0
  <2> DEFINE r == [NoScan EXCEPT !.pc = "fetch", !.cycle = cycles + 1, !.todo = todo, !.who = Owner[s],
                                 !.loaded = counts, !.copy = counts, !.settled = settled]
  <2>2. \A u \in Sources : counts[u] = IF u \in todo THEN sources[u].failures ELSE 0
    OBVIOUS
  <2> HIDE DEF counts, settled
  <2>3. scan'[w] = r
    BY <1>0, <2>1
  <2>4. r.pc = "fetch" /\ r.todo = todo /\ r.ok = {} /\ r.missed = {} /\ r.loaded = counts /\ r.copy = counts
    BY DEF NoScan
  <2> HIDE DEF r
  <2>5. Agrees(r, sources, misses)
    BY <2>2, <2>4 DEF Agrees
  <2>6. UNCHANGED <<sources, misses, notices>>
    BY <1>2 DEF BeginScan
  <2>7. QED
    BY <1>n, <1>s, <2>3, <2>5, <2>6
<1>3. CASE AbortScan(w)
  <2>1. scan'[w] = NoScan /\ UNCHANGED <<sources, misses, notices>>
    BY <1>0, <1>3 DEF AbortScan
  <2>2. QED
    BY <1>n, <1>s, <2>1, NoScanAgrees
<1>4. CASE CommitScan(w)
  <2>1. UNCHANGED notices
    BY <1>4 DEF CommitScan
  <2>2. QED
    BY <1>0, <1>n, <1>4, <2>1, CommitAgrees
<1>5. CASE Fetch(w)
  <2>1. PICK s \in Left(w) :
          \/ /\ scan' = [scan EXCEPT ![w] = [@ EXCEPT !.pc = "extract", !.at = s]]
             /\ UNCHANGED <<notices, misses>>
          \/ LET count == scan[w].copy[s] + 1
             IN /\ scan' = [scan EXCEPT ![w] = [Skipped(w, s) EXCEPT !.copy[s] = count]]
                /\ misses' = [misses EXCEPT ![s] = @ + 1]
                /\ notices' = [notices EXCEPT ![s] = IF count = THRESHOLD THEN @ + 1 ELSE @]
          \/ /\ scan' = [scan EXCEPT ![w] = Skipped(w, s)]
             /\ UNCHANGED <<notices, misses>>
    BY <1>5, Zenon DEF Fetch
  <2>2. s \in scan[w].todo /\ s \in Sources /\ UNCHANGED sources
    BY <1>0, <1>5 DEF Left, Scan, Fetch
  <2>3. CASE scan' = [scan EXCEPT ![w] = [@ EXCEPT !.pc = "extract", !.at = s]] /\ UNCHANGED <<notices, misses>>
    <3> DEFINE r == [scan[w] EXCEPT !.pc = "extract", !.at = s]
    <3>1. /\ r.at = s /\ r.todo = scan[w].todo /\ r.ok = scan[w].ok /\ r.missed = scan[w].missed
          /\ r.loaded = scan[w].loaded /\ r.copy = scan[w].copy
      BY <1>0 DEF Scan
    <3>2. scan'[w] = r
      BY <1>0, <2>3
    <3> HIDE DEF r
    <3>3. Agrees(r, sources, misses)
      BY <1>0, <2>2, <3>1 DEF Agrees
    <3>4. QED
      BY <1>n, <1>s, <2>2, <2>3, <3>2, <3>3
  <2>4. CASE LET count == scan[w].copy[s] + 1
             IN /\ scan' = [scan EXCEPT ![w] = [Skipped(w, s) EXCEPT !.copy[s] = count]]
                /\ misses' = [misses EXCEPT ![s] = @ + 1]
                /\ notices' = [notices EXCEPT ![s] = IF count = THRESHOLD THEN @ + 1 ELSE @]
    <3>1. /\ scan'[w] = [Skipped(w, s) EXCEPT !.copy = [@ EXCEPT ![s] = scan[w].copy[s] + 1]]
          /\ misses' = [misses EXCEPT ![s] = @ + 1]
      BY <1>0, <2>4
    <3>2. /\ Agrees(scan'[w], sources', misses') /\ Counted(sources', misses')
          /\ s \notin crossed => scan[w].copy[s] + 1 <= misses'[s]
      BY <1>0, <2>2, <3>1, MissAgrees
    <3>3. notices' = notices \/ (scan[w].copy[s] + 1 = THRESHOLD /\ notices' = [notices EXCEPT ![s] = @ + 1])
      BY <1>0, <2>4
    <3>4. Earned
      <4>1. ASSUME scan[w].copy[s] + 1 = THRESHOLD, notices' = [notices EXCEPT ![s] = @ + 1],
                   NEW u \in Sources \ crossed, notices'[u] > notices[u]
            PROVE  misses'[u] >= THRESHOLD
        <5>1. u = s
          BY <1>0, <4>1
        <5>2. misses'[s] \in Nat /\ scan[w].copy[s] \in Nat
          BY <1>0, <2>2, <3>1 DEF Scan
        <5>3. QED
          BY <3>2, <4>1, <5>1, <5>2
      <4>2. QED
        BY <1>n, <3>3, <4>1 DEF Earned
    <3>5. QED
      BY <3>2, <3>4
  <2>5. CASE scan' = [scan EXCEPT ![w] = Skipped(w, s)] /\ UNCHANGED <<notices, misses>>
    <3>1. scan'[w] = Skipped(w, s)
      BY <1>0, <2>5
    <3>2. QED
      BY <1>0, <1>n, <1>s, <2>2, <2>5, <3>1, SkippedAgrees
  <2>6. QED
    BY <2>1, <2>3, <2>4, <2>5
<1>6. CASE Extract(w) \/ ReadAccepted(w) \/ ReadRejected(w) \/ ReadPending(w)
  <2>1. Reading(w) /\ UNCHANGED <<sources, misses, notices>>
    BY <1>6 DEF Extract, ReadAccepted, ReadRejected, ReadPending, Reading
  <2>2. scan[w].at \in scan[w].todo
    BY <1>0, <2>1 DEF Agrees, Reading
  <2>3. ASSUME NEW r, scan'[w] = r, r.at = scan[w].at, r.todo = scan[w].todo, r.ok = scan[w].ok,
               r.missed = scan[w].missed, r.loaded = scan[w].loaded, r.copy = scan[w].copy
        PROVE  Counted(sources', misses') /\ Agrees(scan'[w], sources', misses') /\ Earned
    <3>1. Agrees(r, sources, misses)
      BY <1>0, <2>2, <2>3 DEF Agrees
    <3>2. QED
      BY <1>n, <1>s, <2>1, <2>3, <3>1
  <2>4. CASE Extract(w)
    <3>1. PICK page \in SUBSET Candidates :
             \/ scan' = [scan EXCEPT ![w] = Skipped(w, scan[w].at)]
             \/ scan' = [scan EXCEPT ![w] = Read(w, {})]
             \/ scan' = [scan EXCEPT ![w] = [@ EXCEPT !.pc = "accepted", !.page = page]]
      BY <2>4 DEF Extract
    <3>2. \/ scan'[w] = Skipped(w, scan[w].at) \/ scan'[w] = Read(w, {})
          \/ scan'[w] = [scan[w] EXCEPT !.pc = "accepted", !.page = page]
      BY <1>0, <3>1
    <3>3. {} \in SUBSET Candidates
      OBVIOUS
    <3>4. CASE scan'[w] = [scan[w] EXCEPT !.pc = "accepted", !.page = page]
      <4> DEFINE r == [scan[w] EXCEPT !.pc = "accepted", !.page = page]
      <4>1. /\ r.at = scan[w].at /\ r.todo = scan[w].todo /\ r.ok = scan[w].ok
            /\ r.missed = scan[w].missed /\ r.loaded = scan[w].loaded /\ r.copy = scan[w].copy
        BY <1>0 DEF Scan
      <4>2. scan'[w] = r
        BY <3>4
      <4> HIDE DEF r
      <4>3. QED
        BY <2>3, <4>1, <4>2
    <3>5. QED
      BY <1>0, <1>n, <1>s, <2>1, <2>2, <3>2, <3>3, <3>4, SkippedAgrees, ReadAgrees
  <2>5. CASE ReadAccepted(w)
    <3> DEFINE names == With(scan[w].who, "accepted")
               r == [scan[w] EXCEPT !.pc = "rejected", !.names = names]
    <3>1. scan'[w] = r
      BY <1>0, <2>5 DEF ReadAccepted
    <3> HIDE DEF names
    <3>2. /\ r.at = scan[w].at /\ r.todo = scan[w].todo /\ r.ok = scan[w].ok
          /\ r.missed = scan[w].missed /\ r.loaded = scan[w].loaded /\ r.copy = scan[w].copy
      BY <1>0 DEF Scan
    <3> HIDE DEF r
    <3>3. QED
      BY <2>3, <3>1, <3>2
  <2>6. CASE ReadRejected(w)
    <3> DEFINE rejected == With(scan[w].who, "rejected")
               r == [scan[w] EXCEPT !.pc = "pending", !.rejected = rejected]
    <3>1. scan'[w] = r
      BY <1>0, <2>6 DEF ReadRejected
    <3> HIDE DEF rejected
    <3>2. /\ r.at = scan[w].at /\ r.todo = scan[w].todo /\ r.ok = scan[w].ok
          /\ r.missed = scan[w].missed /\ r.loaded = scan[w].loaded /\ r.copy = scan[w].copy
      BY <1>0 DEF Scan
    <3> HIDE DEF r
    <3>3. QED
      BY <2>3, <3>1, <3>2
  <2>7. CASE ReadPending(w)
    <3> DEFINE pending == With(scan[w].who, "pending") \cup {KeyOf[f.cand] : f \in scan[w].found}
               new == {c \in scan[w].page : ~Known(w, pending, KeyOf[c])}
    <3>1. new \in SUBSET Candidates
      BY <1>0 DEF Scan
    <3>2. scan'[w] = Read(w, new)
      BY <1>0, <2>7 DEF ReadPending
    <3> HIDE DEF new
    <3>3. QED
      BY <1>0, <1>n, <1>s, <2>1, <3>1, <3>2, ReadAgrees
  <2>8. QED
    BY <1>6, <2>4, <2>5, <2>6, <2>7
<1>7. QED
  BY <1>2, <1>3, <1>4, <1>5, <1>6 DEF ScanStep

(* A scan writes the counts of the sources it holds, and of no others.     *)
LEMMA OthersApart ==
    ASSUME CInv, NEW w \in Scans, BeginScan(w) \/ ScanStep(w) \/ AbortScan(w)
    PROVE  Apart(w)
<1>0. /\ TInv /\ scan \in [Scans -> Scan] /\ scan[w] \in Scan /\ misses \in [Sources -> Nat]
      /\ sources \in [Sources -> Source]
  BY DEF CInv, TInv, TypeOK
<1>1. CASE CommitScan(w)
  <2>1. \A v \in Scans \ {w} : scan'[v] = scan[v]
    BY <1>0, <1>1, Committed
  <2>2. ASSUME NEW s \in Sources \ Held(w)
        PROVE  sources'[s].failures = sources[s].failures /\ misses'[s] = misses[s]
    <3>1. s \notin scan[w].ok \cup scan[w].missed
      BY DEF Held
    <3>2. sources'[s] = [sources[s] EXCEPT !.failures = @] /\ misses'[s] = misses[s]
      BY <1>1, <3>1 DEF CommitScan
    <3>3. QED
      BY <1>0, <3>2 DEF Source
  <2>3. QED
    BY <2>1, <2>2 DEF Apart
<1>2. CASE BeginScan(w) \/ AbortScan(w)
  <2>1. UNCHANGED <<sources, misses>>
    BY <1>2 DEF BeginScan, AbortScan
  <2>2. \A v \in Scans \ {w} : scan'[v] = scan[v]
    BY <1>0, <1>2 DEF BeginScan, AbortScan
  <2>3. QED
    BY <2>1, <2>2 DEF Apart
<1>3. CASE Fetch(w)
  <2>1. \A v \in Scans \ {w} : scan'[v] = scan[v]
    BY <1>0, <1>3 DEF Fetch
  <2>2. PICK s \in Left(w) : misses' \in {misses, [misses EXCEPT ![s] = @ + 1]}
    BY <1>3 DEF Fetch
  <2>3. s \in Held(w) /\ UNCHANGED sources
    BY <1>3 DEF Left, Held, Fetch
  <2>4. QED
    BY <1>0, <2>1, <2>2, <2>3 DEF Apart
<1>4. CASE Extract(w) \/ ReadAccepted(w) \/ ReadRejected(w) \/ ReadPending(w)
  <2>1. UNCHANGED <<sources, misses>>
    BY <1>4 DEF Extract, ReadAccepted, ReadRejected, ReadPending
  <2>2. \A v \in Scans \ {w} : scan'[v] = scan[v]
    BY <1>0, <1>4 DEF Extract, ReadAccepted, ReadRejected, ReadPending
  <2>3. QED
    BY <2>1, <2>2 DEF Apart
<1>5. QED
  BY <1>1, <1>2, <1>3, <1>4 DEF ScanStep

(* Once it has begun, a scan holds no source that it did not hold before.  *)
LEMMA HoldsNoMore ==
    ASSUME CInv, NEW w \in Scans, ScanStep(w) \/ AbortScan(w)
    PROVE  Held(w)' \subseteq Held(w)
<1>0. /\ TInv /\ scan \in [Scans -> Scan] /\ scan[w] \in Scan /\ TypeOK /\ Agrees(scan[w], sources, misses)
      /\ OwnSource(w)
  BY DEF CInv, TInv, TypeOK
<1>r. ASSUME NEW r, scan' = [scan EXCEPT ![w] = r], r.todo \cup r.ok \cup r.missed \subseteq Held(w)
      PROVE  Held(w)' \subseteq Held(w)
  BY <1>0, <1>r DEF Held
<1>k. ASSUME NEW r, scan' = [scan EXCEPT ![w] = r], r.todo = scan[w].todo, r.ok = scan[w].ok,
             r.missed = scan[w].missed
      PROVE  Held(w)' \subseteq Held(w)
  BY <1>0, <1>k DEF Held
<1>1. ASSUME NEW s \in scan[w].todo, scan' = [scan EXCEPT ![w] = Skipped(w, s)]
      PROVE  Held(w)' \subseteq Held(w)
  <2>1. s \in Sources
    BY <1>0 DEF Scan
  <2>2. /\ Skipped(w, s).ok = scan[w].ok /\ Skipped(w, s).missed = scan[w].missed \cup {s}
        /\ Skipped(w, s).todo = scan[w].todo \ {s}
    BY <1>0, <2>1, SkippedIsScan
  <2>3. QED
    BY <1>1, <1>r, <2>2 DEF Held
<1>2. ASSUME Reading(w), NEW new \in SUBSET Candidates, scan' = [scan EXCEPT ![w] = Read(w, new)]
      PROVE  Held(w)' \subseteq Held(w)
  <2>1. scan[w].at \in scan[w].todo /\ scan[w].at \in Sources
    BY <1>0, <1>2 DEF Agrees, Reading, OwnSource
  <2>2. /\ Read(w, new).ok = scan[w].ok \cup {scan[w].at} /\ Read(w, new).missed = scan[w].missed
        /\ Read(w, new).todo = scan[w].todo \ {scan[w].at}
    BY <1>0, <2>1, ReadIsScan
  <2>3. QED
    BY <1>2, <1>r, <2>1, <2>2 DEF Held
<1>3. CASE scan' = [scan EXCEPT ![w] = NoScan]
  <2>1. NoScan.todo = {} /\ NoScan.ok = {} /\ NoScan.missed = {}
    BY DEF NoScan
  <2>2. QED
    BY <1>3, <1>r, <2>1
<1>4. CASE CommitScan(w)
  <2>1. ASSUME NEW r, scan' = [scan EXCEPT ![w] = r], r.ok = {}, r.missed = {}, r.todo = scan[w].todo
        PROVE  Held(w)' \subseteq Held(w)
    BY <1>r, <2>1 DEF Held
  <2>2. QED
    BY <1>0, <1>3, <1>4, <2>1, Committed
<1>5. CASE Fetch(w)
  <2>1. PICK s \in Left(w) :
          \/ scan' = [scan EXCEPT ![w] = [@ EXCEPT !.pc = "extract", !.at = s]]
          \/ scan' = [scan EXCEPT ![w] = [Skipped(w, s) EXCEPT !.copy[s] = scan[w].copy[s] + 1]]
          \/ scan' = [scan EXCEPT ![w] = Skipped(w, s)]
    BY <1>5 DEF Fetch
  <2>2. s \in scan[w].todo /\ s \in Sources
    BY <1>0 DEF Left, Scan
  <2>3. CASE scan' = [scan EXCEPT ![w] = [@ EXCEPT !.pc = "extract", !.at = s]]
    <3>1. \A pc, at : /\ [scan[w] EXCEPT !.pc = pc, !.at = at].todo = scan[w].todo
                      /\ [scan[w] EXCEPT !.pc = pc, !.at = at].ok = scan[w].ok
                      /\ [scan[w] EXCEPT !.pc = pc, !.at = at].missed = scan[w].missed
      BY <1>0 DEF Scan
    <3>2. QED
      BY <1>k, <2>3, <3>1
  <2>4. CASE scan' = [scan EXCEPT ![w] = [Skipped(w, s) EXCEPT !.copy[s] = scan[w].copy[s] + 1]]
    <3>1. /\ Skipped(w, s) \in Scan /\ Skipped(w, s).todo = scan[w].todo \ {s}
          /\ Skipped(w, s).ok = scan[w].ok /\ Skipped(w, s).missed = scan[w].missed \cup {s}
      BY <1>0, <2>2, SkippedIsScan
    <3>2. \A c : /\ [Skipped(w, s) EXCEPT !.copy = c].todo = scan[w].todo \ {s}
                 /\ [Skipped(w, s) EXCEPT !.copy = c].ok = scan[w].ok
                 /\ [Skipped(w, s) EXCEPT !.copy = c].missed = scan[w].missed \cup {s}
      BY <3>1 DEF Scan
    <3>3. \E c : scan' = [scan EXCEPT ![w] = [Skipped(w, s) EXCEPT !.copy = c]]
      BY <2>4
    <3>4. QED
      BY <1>r, <2>2, <3>2, <3>3 DEF Held
  <2>5. QED
    BY <1>1, <2>1, <2>2, <2>3, <2>4
<1>6. CASE Extract(w)
  <2>1. /\ Reading(w) /\ scan[w].at \in scan[w].todo /\ {} \in SUBSET Candidates
    BY <1>0, <1>6 DEF Agrees, Extract, Reading
  <2>2. ASSUME NEW page, scan' = [scan EXCEPT ![w] = [@ EXCEPT !.pc = "accepted", !.page = page]]
        PROVE  Held(w)' \subseteq Held(w)
    <3>1. /\ [scan[w] EXCEPT !.pc = "accepted", !.page = page].todo = scan[w].todo
          /\ [scan[w] EXCEPT !.pc = "accepted", !.page = page].ok = scan[w].ok
          /\ [scan[w] EXCEPT !.pc = "accepted", !.page = page].missed = scan[w].missed
      BY <1>0 DEF Scan
    <3>2. QED
      BY <1>k, <2>2, <3>1
  <2>3. QED
    BY <1>1, <1>2, <1>6, <2>1, <2>2 DEF Extract
<1>7. CASE ReadAccepted(w)
  <2>1. \A k : /\ [scan[w] EXCEPT !.pc = "rejected", !.names = k].todo = scan[w].todo
               /\ [scan[w] EXCEPT !.pc = "rejected", !.names = k].ok = scan[w].ok
               /\ [scan[w] EXCEPT !.pc = "rejected", !.names = k].missed = scan[w].missed
    BY <1>0 DEF Scan
  <2>2. QED
    BY <1>7, <1>k, <2>1 DEF ReadAccepted
<1>8. CASE ReadRejected(w)
  <2>1. \A k : /\ [scan[w] EXCEPT !.pc = "pending", !.rejected = k].todo = scan[w].todo
               /\ [scan[w] EXCEPT !.pc = "pending", !.rejected = k].ok = scan[w].ok
               /\ [scan[w] EXCEPT !.pc = "pending", !.rejected = k].missed = scan[w].missed
    BY <1>0 DEF Scan
  <2>2. QED
    BY <1>8, <1>k, <2>1 DEF ReadRejected
<1>9. CASE ReadPending(w)
  <2> DEFINE pending == With(scan[w].who, "pending") \cup {KeyOf[f.cand] : f \in scan[w].found}
             new == {c \in scan[w].page : ~Known(w, pending, KeyOf[c])}
  <2>1. new \in SUBSET Candidates
    BY <1>0 DEF Scan
  <2>2. scan' = [scan EXCEPT ![w] = Read(w, new)] /\ Reading(w)
    BY <1>9 DEF ReadPending, Reading
  <2> HIDE DEF new
  <2>3. QED
    BY <1>2, <2>1, <2>2
<1>10. CASE AbortScan(w)
  BY <1>10, <1>3 DEF AbortScan
<1>11. QED
  BY <1>4, <1>5, <1>6, <1>7, <1>8, <1>9, <1>10 DEF ScanStep

(* A scan that begins records what it finds held by others.                *)
LEMMA CrossingStep ==
    ASSUME CInv, NEW w \in Scans, BeginScan(w) \/ ScanStep(w) \/ AbortScan(w)
    PROVE  Crossing'
<1>0. /\ scan \in [Scans -> Scan] /\ Crossing /\ crossed \subseteq crossed'
  <2>1. [Next]_vars
    BY DEF Next
  <2>2. QED
    BY <2>1, OverlapsStay DEF CInv, TInv, TypeOK
<1>1. \A v \in Scans \ {w} : Held(v)' = Held(v)
  BY OthersApart DEF Apart, Held
<1>2. \A v \in Scans \ {w} : Held(v) \cap Held(w)' \subseteq crossed'
  <2>1. CASE ScanStep(w) \/ AbortScan(w)
    BY <1>0, <2>1, HoldsNoMore DEF Crossing
  <2>2. CASE BeginScan(w)
    <3>1. PICK todo, who, counts, settled :
            /\ scan' = [scan EXCEPT ![w] = [NoScan EXCEPT !.pc = "fetch", !.cycle = cycles + 1, !.todo = todo,
                        !.who = who, !.loaded = counts, !.copy = counts, !.settled = settled]]
            /\ crossed' = crossed \cup (todo \cap UNION {Held(v) : v \in Scans})
      BY <2>2, Zenon DEF BeginScan
    <3> DEFINE r == [NoScan EXCEPT !.pc = "fetch", !.cycle = cycles + 1, !.todo = todo,
                        !.who = who, !.loaded = counts, !.copy = counts, !.settled = settled]
    <3>2. r.todo = todo /\ r.ok = {} /\ r.missed = {}
      BY DEF NoScan
    <3>3. scan'[w] = r
      BY <1>0, <3>1
    <3> HIDE DEF r
    <3>4. Held(w)' = todo
      BY <3>2, <3>3 DEF Held
    <3>5. QED
      BY <3>1, <3>4
  <2>3. QED
    BY <2>1, <2>2
<1>3. QED
  BY <1>0, <1>1, <1>2 DEF Crossing

(* A request writes no count.                                              *)
LEMMA RequestCounts ==
    ASSUME TInv, NEW q \in Requests,
           BeginReview(q) \/ CountSources(q) \/ RemoveSource(q) \/ RequestStep(q) \/ AbortRequest(q)
    PROVE  /\ UNCHANGED <<scan, misses, notices, crossed>>
           /\ \A s \in Sources : sources'[s].failures = sources[s].failures
<1>0. sources \in [Sources -> Source]
  BY DEF TInv, TypeOK
<1>1. UNCHANGED <<scan, misses, notices, crossed>>
  BY DEF BeginReview, CountSources, RemoveSource, RequestStep, Review, CommitReview, InsertSource,
         AbortRequest, overlaps
<1>2. ASSUME NEW s \in Sources PROVE sources'[s].failures = sources[s].failures
  <2>1. CASE UNCHANGED sources
    BY <2>1
  <2>2. ASSUME NEW u \in Sources, NEW state, sources' = [sources EXCEPT ![u].state = state]
        PROVE  sources'[s].failures = sources[s].failures
    BY <1>0, <2>2 DEF Source
  <2>3. QED
    BY <2>1, <2>2
       DEF BeginReview, CountSources, RemoveSource, RequestStep, Review, CommitReview, InsertSource,
           AbortRequest, TInv, NamesRows
<1>3. QED
  BY <1>1, <1>2

(* However many scans run, the counts of the sources that no two of them   *)
(* held at once are those of the rows.                                     *)
LEMMA CountsStep ==
    ASSUME CInv, Next
    PROVE  CInv' /\ Earned
<1>0. /\ TInv /\ TInv' /\ Crossing /\ Counted(sources, misses)
      /\ \A w \in Scans : Agrees(scan[w], sources, misses)
      /\ crossed \subseteq crossed' /\ notices \in [Sources -> Nat]
  BY OverlapsStay, TypeStep DEF CInv, TInv, TypeOK
<1>1. ASSUME NEW w \in Scans, BeginScan(w) \/ ScanStep(w) \/ AbortScan(w)
      PROVE  CInv' /\ Earned
  <2>1. Counted(sources', misses') /\ Agrees(scan'[w], sources', misses') /\ Earned
    BY <1>1, OwnCounts
  <2>2. Apart(w) /\ Crossing'
    BY <1>1, OthersApart, CrossingStep
  <2>3. ASSUME NEW v \in Scans, v # w PROVE Agrees(scan'[v], sources', misses')
    <3>1. scan'[v] = scan[v]
      BY <2>2, <2>3 DEF Apart
    <3>2. ASSUME NEW s \in Sources, s \notin crossed, s \in Held(v)
          PROVE  sources'[s].failures = sources[s].failures /\ misses'[s] = misses[s]
      BY <1>0, <2>2, <2>3, <3>2 DEF Apart, Crossing
    <3>3. QED
      BY <1>0, <3>1, <3>2 DEF Agrees, Held
  <2>4. (\A v \in Scans : Agrees(scan[v], sources, misses))'
    BY <1>0, <2>1, <2>3 DEF Agrees
  <2>5. (Counted(sources, misses))'
    BY <1>0, <2>1 DEF Counted
  <2>6. QED
    BY <1>0, <2>1, <2>2, <2>4, <2>5 DEF CInv
<1>2. ASSUME NEW q \in Requests,
             BeginReview(q) \/ CountSources(q) \/ RemoveSource(q) \/ RequestStep(q) \/ AbortRequest(q)
      PROVE  CInv' /\ Earned
  <2>1. /\ UNCHANGED <<scan, misses, notices, crossed>>
        /\ \A s \in Sources : sources'[s].failures = sources[s].failures
    BY <1>0, <1>2, RequestCounts
  <2>2. Earned /\ Crossing'
    BY <1>0, <2>1 DEF Earned, Crossing, Held
  <2>3. (Counted(sources, misses))' /\ (\A v \in Scans : Agrees(scan[v], sources, misses))'
    BY <1>0, <2>1 DEF Agrees, Counted
  <2>4. QED
    BY <1>0, <2>2, <2>3 DEF CInv
<1>3. QED
  BY <1>1, <1>2 DEF Next

(* However many scan tasks run at once and sessions break, a source that   *)
(* no two of them held at once is reported only after as many fetches      *)
(* failed as the threshold says, with no committed success in between.     *)
THEOREM NoticesAreEarned == Spec => NoticeIsEarned
<1>1. Init => CInv
  <2>1. ASSUME Init PROVE Counted(sources, misses)
    <3>1. \A s \in Sources : FailedBefore[s] \in Nat
      BY EnrichmentAssumption DEF EnrichmentAssumption
    <3>2. QED
      BY <2>1, <3>1 DEF Init, Counted
  <2>2. ASSUME Init, NEW v \in Scans PROVE scan[v] = NoScan /\ Agrees(scan[v], sources, misses)
    <3>1. scan[v] = NoScan
      BY <2>2 DEF Init
    <3>2. QED
      BY <3>1, NoScanAgrees
  <2>3. ASSUME Init PROVE Crossing
    BY <2>2, <2>3 DEF Crossing, Held, NoScan
  <2>4. QED
    BY <2>1, <2>2, <2>3, InitTypes DEF CInv
<1>2. CInv /\ [Next]_vars => CInv' /\ [Earned]_vars
  <2> SUFFICES ASSUME CInv, [Next]_vars PROVE CInv' /\ [Earned]_vars
    OBVIOUS
  <2>1. CASE Next
    BY <2>1, CountsStep
  <2>2. CASE UNCHANGED vars
    <3>1. UNCHANGED <<sources, misses, scan, crossed>>
      BY <2>2 DEF vars, overlaps
    <3>2. TInv'
      BY TypeStep DEF CInv
    <3>3. (Counted(sources, misses))' /\ (\A v \in Scans : Agrees(scan[v], sources, misses))' /\ Crossing'
      BY <3>1 DEF CInv, Counted, Agrees, Crossing, Held
    <3>4. QED
      BY <2>2, <3>2, <3>3 DEF CInv
  <2>3. QED
    BY <2>1, <2>2
<1>3. QED
  BY <1>1, <1>2, PTL DEF Spec, NoticeIsEarned, Earned

=============================================================================

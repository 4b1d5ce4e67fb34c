---------------------------- MODULE ApolloClient ----------------------------
(***************************************************************************)
(* The client of Apollo.io (app/integrations/apollo_client.py): the calls  *)
(* enrich_company, find_contacts and get_intent_signals with their         *)
(* retries, and enrich_batch with its sliding window of requests.          *)
(*                                                                         *)
(* Apollo answers each request with any of its answers.  A contact is a    *)
(* record of its title's priority, whether its e-mail is verified and      *)
(* whether it can be reached at all; a signal is a record of its topic and *)
(* its strength.                                                           *)
(***************************************************************************)
EXTENDS Integers, Sequences, FiniteSets, SequencesExt, Selection

CONSTANTS
    ApolloCalls,   \* calls of find_contacts and get_intent_signals
    CallKind,      \* of each: "contacts" or "intent"
    People,        \* what a search may return: sequences of contacts
    Signals,       \* what a query may return: sequences of signals
    Keywords,      \* topics that contain a configured keyword
    MAX_CONTACTS,  \* max_contacts
    MAX_SIGNALS,   \* max_signals
    APOLLO_TRIES,  \* MAX_RETRIES: requests of a call
    Domains,       \* how many companies the batch enriches
    BATCH_THRESHOLD,
    RATE_LIMIT,    \* requests per window
    WINDOW,        \* a second, in ticks
    RETRY_DELAY,   \* ticks until a retry
    MaxClock       \* bound: ticks

ASSUME ApolloAssumption ==
    /\ \A people \in People : people \in Seq([priority : Int, verified : BOOLEAN, reachable : BOOLEAN])
    /\ {MAX_CONTACTS, MAX_SIGNALS, APOLLO_TRIES, RATE_LIMIT, WINDOW, Domains} \subseteq Nat \ {0}
    /\ {BATCH_THRESHOLD, MaxClock} \subseteq Nat
    /\ RETRY_DELAY \in Nat /\ RETRY_DELAY > WINDOW

VARIABLES
    lookup,   \* locals and result of each call; what was found first, and
              \* the people of the last answer (history)
    bulk,     \* locals of the batch
    stamps,   \* _batch_timestamps
    tick,     \* time.monotonic()
    requests  \* requests of the batch: their moments, and whether a retry (history)

apolloVars == <<lookup, bulk, stamps, tick, requests>>

NoLookup == [pc |-> "idle", broad |-> FALSE, attempt |-> 1, outcome |-> "none", found |-> <<>>, first |-> "none", pool |-> <<>>]
NoBulk == [pc |-> "begin", next |-> 1, attempt |-> 1, wake |-> 0, results |-> <<>>]

ApolloInit ==
    /\ lookup = [c \in ApolloCalls |-> NoLookup]
    /\ bulk = NoBulk
    /\ stamps = <<>>
    /\ tick = 0
    /\ requests = <<>>

-----------------------------------------------------------------------------
\* Contacts and signals.

Better(p, q) == p.priority < q.priority \/ (p.priority = q.priority /\ p.verified /\ ~q.verified)

Before(people, i, j) == Better(people[i], people[j]) \/ (~ Better(people[j], people[i]) /\ i < j)

(* _parse_and_filter_contacts: a stable sort of the contacts that can be   *)
(* reached, in which the place of each is how many come before it.         *)
BestContacts(people) ==
    LET reachable == {i \in DOMAIN people : people[i].reachable}
        Place(j) == Cardinality({i \in reachable : Before(people, i, j)}) + 1
        size == IF Cardinality(reachable) < MAX_CONTACTS THEN Cardinality(reachable) ELSE MAX_CONTACTS
    IN  [n \in 1..size |-> people[CHOOSE j \in reachable : Place(j) = n]]

(* _parse_intent_signals: an unknown strength is weak.                     *)
Strength(s) ==
    CASE s.strength \in {"strong", "high"} -> "strong"
      [] s.strength \in {"moderate", "medium"} -> "moderate"
      [] OTHER -> "weak"

FirstSignals(raw) ==
    LET matching == SelectSeq(raw, LAMBDA s : s.topic \in Keywords)
        size == IF Len(matching) < MAX_SIGNALS THEN Len(matching) ELSE MAX_SIGNALS
    IN  [n \in 1..size |-> [topic |-> matching[n].topic, strength |-> Strength(matching[n])]]

-----------------------------------------------------------------------------
\* A call and its retries.

SetLookup(c, value) ==
    /\ lookup' = [lookup EXCEPT ![c] = value]
    /\ UNCHANGED <<bulk, stamps, tick, requests>>

BeginLookup(c) ==
    /\ lookup[c].pc = "idle"
    /\ SetLookup(c, [NoLookup EXCEPT !.pc = "asking"])

(* The answer of a search: with contacts the call ends; without, the       *)
(* directors are searched, once.                                           *)
Searched(call, people) ==
    LET contacts == BestContacts(people) IN
    CASE contacts # <<>> ->
            [call EXCEPT !.pc = "done", !.found = contacts,
                         !.outcome = IF call.broad THEN "broadened_search" ELSE "complete"]
      [] contacts = <<>> /\ ~call.broad -> [call EXCEPT !.broad = TRUE, !.attempt = 1, !.first = "empty"]
      [] OTHER -> [call EXCEPT !.pc = "done", !.outcome = "contacts_unavailable"]

Answers200(c) ==
    /\ lookup[c].pc = "asking"
    /\ \/ /\ CallKind[c] = "contacts"
          /\ \E people \in People : SetLookup(c, Searched([lookup[c] EXCEPT !.pool = people], people))
       \/ /\ CallKind[c] = "intent"
          /\ \E raw \in Signals :
                SetLookup(c, [lookup[c] EXCEPT !.pc = "done", !.outcome = "answered", !.found = FirstSignals(raw)])

(* A 429 is raised at once, and so is what the handlers do not name, such  *)
(* as a body that is no JSON or a title that is null: neither is retried.  *)
CallRaised(c) ==
    /\ lookup[c].pc = "asking"
    /\ \E error \in {"RateLimitError", "Exception"} :
        SetLookup(c, [lookup[c] EXCEPT !.pc = "done", !.outcome = error])

(* After the last attempt: the search is pending_retry, and a query of     *)
(* signals returns none, as if Apollo had answered so.                     *)
Exhausted(c, call) ==
    [call EXCEPT !.pc = "done", !.outcome = IF CallKind[c] = "contacts" THEN "pending_retry" ELSE "answered"]

(* Any other status, a timeout or another error of httpx.                  *)
AnswerFails(c) ==
    /\ lookup[c].pc = "asking"
    /\ SetLookup(c, IF lookup[c].attempt < APOLLO_TRIES THEN [lookup[c] EXCEPT !.pc = "waiting"]
                    ELSE Exhausted(c, lookup[c]))

RetryLookup(c) ==
    /\ lookup[c].pc = "waiting"
    /\ SetLookup(c, [lookup[c] EXCEPT !.pc = "asking", !.attempt = @ + 1])

-----------------------------------------------------------------------------
\* enrich_batch.

Recent(times) == Kept(times, {t \in Range(times) : tick - t < WINDOW})

SetBulk(value) == bulk' = value /\ UNCHANGED <<lookup, tick>>

Request(retry) == requests' = Append(requests, [at |-> tick, retry |-> retry])

(* The next company, or the end.                                           *)
NextCompany(b) == [b EXCEPT !.next = @ + 1, !.attempt = 1, !.pc = IF b.next = Domains THEN "returned" ELSE "begin"]

AtCapacity(times) == Len(times) >= RATE_LIMIT

(* _enforce_rate_limit at capacity: a sleep until the oldest request of    *)
(* the window has left it.                                                 *)
Throttle ==
    /\ bulk.pc = "begin"
    /\ Domains > BATCH_THRESHOLD
    /\ AtCapacity(Recent(stamps))
    /\ stamps' = Recent(stamps)
    /\ SetBulk([bulk EXCEPT !.pc = "throttled", !.wake = Recent(stamps)[1] + WINDOW])
    /\ UNCHANGED requests

(* The first request of enrich_company for the next company.               *)
Request1 ==
    /\ \/ bulk.pc = "begin" /\ (Domains <= BATCH_THRESHOLD \/ ~AtCapacity(Recent(stamps)))
       \/ bulk.pc = "throttled" /\ tick >= bulk.wake
    /\ stamps' = IF Domains > BATCH_THRESHOLD THEN Append(Recent(stamps), tick) ELSE stamps
    /\ SetBulk([bulk EXCEPT !.pc = "asking"])
    /\ Request(FALSE)

(* A company, or none: a 404 says the same as an empty answer.             *)
BulkAnswer ==
    /\ bulk.pc = "asking"
    /\ \E status \in {"complete", "not_found"} :
        SetBulk(NextCompany([bulk EXCEPT !.results = Append(@, status)]))
    /\ UNCHANGED <<stamps, requests>>

(* A 429, or a body that is no JSON, ends the batch and drops its results. *)
BulkRaises ==
    /\ bulk.pc = "asking"
    /\ SetBulk([bulk EXCEPT !.pc = "raised", !.results = <<>>])
    /\ UNCHANGED <<stamps, requests>>

(* Mutant: the last failure leaves no record of the company.               *)
BulkFailsSilently ==
    /\ bulk.pc = "asking"
    /\ SetBulk(IF bulk.attempt < APOLLO_TRIES THEN [bulk EXCEPT !.pc = "waiting", !.wake = tick + RETRY_DELAY]
               ELSE NextCompany(bulk))
    /\ UNCHANGED <<stamps, requests>>

BulkFails ==
    /\ bulk.pc = "asking"
    /\ SetBulk(IF bulk.attempt < APOLLO_TRIES THEN [bulk EXCEPT !.pc = "waiting", !.wake = tick + RETRY_DELAY]
               ELSE NextCompany([bulk EXCEPT !.results = Append(@, "enrichment_failed")]))
    /\ UNCHANGED <<stamps, requests>>

(* A retry enters no window.                                               *)
BulkRetry ==
    /\ bulk.pc = "waiting"
    /\ tick >= bulk.wake
    /\ SetBulk([bulk EXCEPT !.pc = "asking", !.attempt = @ + 1])
    /\ Request(TRUE)
    /\ UNCHANGED stamps

ApolloTick ==
    /\ tick < MaxClock
    /\ bulk.pc \notin {"begin", "returned", "raised"}
    /\ bulk.pc \in {"throttled", "waiting"} => tick < bulk.wake
    /\ tick' = tick + 1
    /\ UNCHANGED <<lookup, bulk, stamps, requests>>

(* The calls and the batch share nothing but the client.                   *)
LookupNext ==
    \E c \in ApolloCalls : BeginLookup(c) \/ Answers200(c) \/ CallRaised(c) \/ AnswerFails(c) \/ RetryLookup(c)

BulkNext == Throttle \/ Request1 \/ BulkAnswer \/ BulkRaises \/ BulkFails \/ BulkRetry \/ ApolloTick

ApolloNext == LookupNext \/ BulkNext

ApolloSpec == ApolloInit /\ [][ApolloNext]_apolloVars

-----------------------------------------------------------------------------
\* Properties.

(* Every variable has its type; a batch has one result for each company it *)
(* has gone through.                                                       *)
ApolloTypeOK ==
    /\ \A c \in ApolloCalls :
        /\ lookup[c].pc \in {"idle", "asking", "waiting", "done"}
        /\ lookup[c].attempt \in 1..APOLLO_TRIES
        /\ lookup[c].outcome # "none" <=> lookup[c].pc = "done"
    /\ bulk.pc \in {"begin", "throttled", "asking", "waiting", "returned", "raised"}
    /\ bulk.pc # "raised" => Len(bulk.results) = bulk.next - 1

(* No contact that is returned is worse than one of the same answer that   *)
(* was left out, and each can be reached.                                  *)
BestContactsAreKept ==
    \A c \in ApolloCalls :
        LET kept == Range(lookup[c].found) IN
        CallKind[c] = "contacts" =>
            \A k \in kept, p \in Range(lookup[c].pool) :
                /\ k.reachable
                /\ p.reachable /\ p \notin kept => ~Better(p, k)

(* The directors are searched, and a company is given up, only when the    *)
(* search of the decision makers was answered: never because it failed.    *)
BroadenedWhenAnswered ==
    \A c \in ApolloCalls :
        lookup[c].broad \/ lookup[c].outcome \in {"broadened_search", "contacts_unavailable"}
            => lookup[c].first = "empty"

InWindow(last, times) == {i \in 1..last : times[last].at - times[i].at < WINDOW}

(* A batch above the threshold begins the lookup of at most RATE_LIMIT     *)
(* companies in a window.                                                  *)
LookupsAreLimited ==
    Domains > BATCH_THRESHOLD =>
        \A n \in DOMAIN requests :
            Cardinality({i \in InWindow(n, requests) : ~requests[i].retry}) <= RATE_LIMIT

(* A call answers with the best that Apollo had, is broadened only by an   *)
(* answer, and is counted in the window of its requests.                   *)
ApolloSafety == ApolloTypeOK /\ BestContactsAreKept /\ BroadenedWhenAnswered /\ LookupsAreLimited
=============================================================================

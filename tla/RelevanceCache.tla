--------------------------- MODULE RelevanceCache ---------------------------
(***************************************************************************)
(* LLMRouter.evaluate_relevance (app/integrations/llm_router.py): the      *)
(* score of a prospect comes from a cache whose key is a hash of the       *)
(* description and the profile, or from a language model with retries.     *)
(*                                                                         *)
(* One prospect; its text stands for description and profile, a version    *)
(* for each hash.  The prospect is an argument of the call, so what the    *)
(* call works on is the text and the enrichment of the moment it began.    *)
(* The enrichment is in the prompt but not in the key.                     *)
(***************************************************************************)
EXTENDS Integers, FiniteSets

CONSTANTS
    Evaluations,   \* calls of evaluate_relevance in progress at once
    Texts,         \* versions of description and profile: 1..n
    Replies,       \* scores a reply may hold; Garbage for one without a score
    MATCHING_TRIES,\* max_retries of the provider
    CACHE_TTL      \* ticks an entry lives

ASSUME RelevanceAssumption ==
    /\ {MATCHING_TRIES, CACHE_TTL} \subseteq Nat \ {0}
    /\ 1 \in Texts /\ Texts \subseteq Nat
    /\ Replies \subseteq Int

VARIABLES
    text,     \* the current version
    enrichedNow, \* whether the enrichment of the prospect is valid
    entry,    \* cached entry of each version, or NoEntry
    eval      \* locals and result of each call

cacheVars == <<text, enrichedNow, entry, eval>>

NoEntry == [score |-> -1, partial |-> FALSE, age |-> 0, of |-> [text |-> 0, enrichedNow |-> FALSE], reply |-> 0]
Garbage == -2
Pending == -3   \* (0, "evaluation_pending: ..."), which says there is no score

NoEval == [pc |-> "idle", text |-> 0, enrichedNow |-> FALSE, attempt |-> 1, reply |-> 0, result |-> Pending]

CacheInit ==
    /\ text = 1
    /\ enrichedNow = FALSE
    /\ entry = [v \in Texts |-> NoEntry]
    /\ eval = [e \in Evaluations |-> NoEval]

-----------------------------------------------------------------------------

SetEval(e, value) == eval' = [eval EXCEPT ![e] = value]
Return(e, result) == SetEval(e, [NoEval EXCEPT !.pc = "returned", !.result = result])

(* The call computes its key.                                              *)
Evaluate(e) ==
    /\ eval[e].pc \in {"idle", "returned", "raised"}
    /\ SetEval(e, [NoEval EXCEPT !.pc = "reading", !.text = text, !.enrichedNow = enrichedNow])
    /\ UNCHANGED <<text, enrichedNow, entry>>

ReadCache(e) ==
    /\ eval[e].pc = "reading"
    /\ LET cached == entry[eval[e].text] IN
       SetEval(e, IF cached = NoEntry THEN [eval[e] EXCEPT !.pc = "asking"]
                  ELSE [NoEval EXCEPT !.pc = "returned", !.result = cached.score])
    /\ UNCHANGED <<text, enrichedNow, entry>>

(* _execute_with_retry: any error is retried after a delay.                *)
ProviderReplies(e) ==
    /\ eval[e].pc = "asking"
    /\ \E reply \in Replies : SetEval(e, [eval[e] EXCEPT !.pc = "storing", !.reply = reply])
    /\ UNCHANGED <<text, enrichedNow, entry>>

(* The last failure returns a pending result, which is not cached.         *)
ProviderFails(e) ==
    /\ eval[e].pc = "asking"
    /\ SetEval(e, IF eval[e].attempt < MATCHING_TRIES THEN [eval[e] EXCEPT !.attempt = @ + 1]
                  ELSE [NoEval EXCEPT !.pc = "returned"])
    /\ UNCHANGED <<text, enrichedNow, entry>>

(* _parse_relevance_response and the clamp: a reply without a score is 0.  *)
ParsedScore(reply) ==
    CASE reply < 0 -> 0
      [] reply > 100 -> 100
      [] OTHER -> reply

(* Mutant: the entry is written under the text of the moment.              *)
EntryKeyNow(e) == text

EntryKey(e) == eval[e].text

Store(e) ==
    /\ eval[e].pc = "storing"
    /\ LET score == ParsedScore(eval[e].reply) IN
       /\ entry' = [entry EXCEPT ![EntryKey(e)] =
                        [score |-> score, partial |-> ~eval[e].enrichedNow, age |-> 0, reply |-> eval[e].reply,
                         of |-> [text |-> eval[e].text, enrichedNow |-> eval[e].enrichedNow]]]
       /\ Return(e, score)
    /\ UNCHANGED <<text, enrichedNow>>

(* An error of Redis at either command, or a reply in JSON that is no      *)
(* object, is not caught: the call raises, at the latter two after the     *)
(* model has been paid for.                                                *)
CallRaises(e) ==
    /\ eval[e].pc \in {"reading", "storing"}
    /\ SetEval(e, [NoEval EXCEPT !.pc = "raised"])
    /\ UNCHANGED <<text, enrichedNow, entry>>

(* The description or the profile is edited; the enrichment arrives.       *)
EditText ==
    /\ \E v \in Texts \ {text} : text' = v
    /\ UNCHANGED <<enrichedNow, entry, eval>>

EnrichmentChanges ==
    /\ enrichedNow' = ~enrichedNow
    /\ UNCHANGED <<text, entry, eval>>

ExpireEntry ==
    /\ \E v \in Texts :
        /\ entry[v] # NoEntry
        /\ entry[v].age = CACHE_TTL
        /\ entry' = [entry EXCEPT ![v] = NoEntry]
    /\ UNCHANGED <<text, enrichedNow, eval>>

(* Redis drops an entry no later than the tick at which it expires.        *)
CacheTick ==
    /\ \A v \in Texts : entry[v].age < CACHE_TTL
    /\ \E v \in Texts : entry[v] # NoEntry
    /\ entry' = [v \in Texts |-> IF entry[v] = NoEntry THEN NoEntry ELSE [entry[v] EXCEPT !.age = @ + 1]]
    /\ UNCHANGED <<text, enrichedNow, eval>>

CacheNext ==
    \/ \E e \in Evaluations :
        Evaluate(e) \/ ReadCache(e) \/ ProviderReplies(e) \/ ProviderFails(e) \/ Store(e) \/ CallRaises(e)
    \/ EditText \/ EnrichmentChanges \/ ExpireEntry \/ CacheTick

CacheSpec == CacheInit /\ [][CacheNext]_cacheVars

-----------------------------------------------------------------------------
\* Properties.

(* Every variable has its type; a cached score is within the bounds and is *)
(* that of a reply, never of a failure.                                    *)
CacheTypeOK ==
    /\ text \in Texts
    /\ \A v \in Texts : entry[v] # NoEntry =>
        /\ entry[v].score \in 0..100
        /\ entry[v].reply \in Replies
    /\ \A e \in Evaluations :
        /\ eval[e].pc \in {"idle", "reading", "asking", "storing", "returned", "raised"}
        /\ eval[e].attempt \in 1..MATCHING_TRIES

(* An entry is the score of the text of its key, and says whether it was   *)
(* computed without enrichment, whatever was edited during the call.       *)
EntryIsOfItsText ==
    \A v \in Texts : entry[v] # NoEntry =>
        /\ entry[v].of.text = v
        /\ entry[v].partial = ~entry[v].of.enrichedNow

(* A text is scored anew at the latest when its entry is CACHE_TTL old, no *)
(* matter how often the entry is read in the meantime.                     *)
EntryIsOfItsAge ==
    \A v \in Texts : entry[v] # NoEntry /\ entry'[v] # NoEntry /\ entry'[v].age < entry[v].age =>
        \E e \in Evaluations : eval[e].pc = "storing" /\ eval'[e].pc = "returned"

(* The cache serves scores of the text that is asked about, no older than  *)
(* CACHE_TTL, though the text changes while the model is asked.            *)
CacheSafety ==
    /\ [](CacheTypeOK /\ EntryIsOfItsText)
    /\ [][EntryIsOfItsAge]_cacheVars
=============================================================================

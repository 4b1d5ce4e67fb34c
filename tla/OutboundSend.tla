---------------------------- MODULE OutboundSend ----------------------------
(***************************************************************************)
(* The gate before a message leaves: OutboundValidator.validate_and_send   *)
(* (app/core/outbound_validator.py), called by the task run_outreach_send  *)
(* (app/workers/outreach_worker.py), which sends through GmailClient or    *)
(* enrolls through LemlistEngine.                                          *)
(*                                                                         *)
(* A material is what the rules tell apart: which defects it has, not its  *)
(* text.  One action per awaited call.  A worker that is stopped leaves    *)
(* its job to be run again from the start, and nothing marks what the      *)
(* first run did.  The resources that the task takes from the worker's     *)
(* context may be missing.                                                 *)
(***************************************************************************)
EXTENDS Integers

CONSTANTS
    Jobs,      \* requests that were queued
    MaterialOf,\* the material of each
    ChannelOf, \* "gmail" or "lemlist", by its technique
    RulesOf,   \* rule configurations of its technique in the schema, {} for none
    KnownRecord, \* jobs whose pipeline record exists
    HasIds,    \* jobs that name a sequence and a prospect
    MaxRuns    \* bound on the runs of each job

VARIABLES
    send,      \* locals and result of the run of each job
    reports,   \* validation_reports: job, verdict and failed rules
    gate,      \* jobs whose record was moved to validation_failed
    delivered, \* history: messages of each job that reached the channel
    stops      \* history: runs of each job that ended without a result

sendVars == <<send, reports, gate, delivered, stops>>

-----------------------------------------------------------------------------
\* The rules.

SyncRules == {"unreplaced_tokens", "empty_subject", "missing_signature",
              "recipient_name_mismatch", "empty_personalization_field",
              "length_bounds", "malformed_url", "duplicate_content"}
AsyncRules == {"link_liveness"}
DefaultBlocking == {"unreplaced_tokens", "empty_subject", "missing_signature",
                    "recipient_name_mismatch", "empty_personalization_field"}

DefaultSeverity(rule) == IF rule \in DefaultBlocking THEN "blocking" ELSE "warning"

(* The parameters that a rule reads, with the defaults it takes.           *)
DefaultParams == [signature |-> TRUE, own |-> FALSE, fields |-> {}, shortest |-> 50, longest |-> 5000,
                  links |-> FALSE]
Config(rule) == [rule |-> rule, severity |-> "default", params |-> DefaultParams]

(* A declaration in the schema replaces the defaults; an unknown rule is   *)
(* passed over.                                                            *)
RulesFor(j) ==
    IF RulesOf[j] = {} THEN {Config(rule) : rule \in DefaultBlocking} ELSE RulesOf[j]

SeverityOf(config) ==
    IF config.severity = "default" THEN DefaultSeverity(config.rule) ELSE config.severity

(* Every name after a greeting is the contact's first or last one.         *)
GreetsRecipient(m) == m.contact = "unnamed" \/ m.greeted \subseteq {m.contact, m.family}

(* The task requires the fields it is given, so that without a parameter   *)
(* one that is absent is not missed.                                       *)
FieldsFilled(p, m) == (IF p.own THEN p.fields ELSE m.given) \subseteq m.filled

(* One rule against one material.                                          *)
Passes(config, m) ==
    LET p == config.params IN
    CASE config.rule = "unreplaced_tokens" -> ~ m.tokens
      [] config.rule = "empty_subject" -> m.subject
      [] config.rule = "missing_signature" -> p.signature => m.signature
      [] config.rule = "recipient_name_mismatch" -> GreetsRecipient(m)
      [] config.rule = "empty_personalization_field" -> FieldsFilled(p, m)
      [] config.rule = "length_bounds" -> m.length \in p.shortest..p.longest
      [] config.rule = "malformed_url" -> ~ m.malformed
      [] config.rule = "duplicate_content" -> ~ m.repeats
      [] config.rule = "link_liveness" -> TRUE

(* The results of the synchronous rules.                                   *)
SyncResults(j) ==
    {[rule |-> c.rule, severity |-> SeverityOf(c), passed |-> Passes(c, MaterialOf[j])]
     : c \in {c \in RulesFor(j) : c.rule \in SyncRules}}

(* The results of the links: a warning whatever the schema says.           *)
LinkResults(j, alive) ==
    {[rule |-> c.rule, severity |-> "warning", passed |-> c.params.links => alive]
     : c \in {c \in RulesFor(j) : c.rule \in AsyncRules}}

BlockingFailures(results) == {r.rule : r \in {r \in results : ~ r.passed /\ r.severity = "blocking"}}

-----------------------------------------------------------------------------
\* The task.

NoRun == [pc |-> "queued", results |-> {}, failed |-> {}, result |-> "none"]

SendInit ==
    /\ send = [j \in Jobs |-> NoRun]
    /\ reports = {}
    /\ gate = {}
    /\ delivered = [j \in Jobs |-> 0]
    /\ stops = [j \in Jobs |-> 0]

Finish(j, result) ==
    send' = [send EXCEPT ![j] = [@ EXCEPT !.pc = "done", !.result = result, !.results = {}]]

(* An exception ends the job as failed; it is not run again.               *)
Raise(j) ==
    /\ send[j].pc \in {"links", "saving", "blocking", "sending"}
    /\ Finish(j, "raised")
    /\ UNCHANGED <<reports, gate, delivered, stops>>

BeginSend(j) ==
    /\ send[j].pc = "queued"
    /\ \/ Finish(j, "error")
       \/ send' = [send EXCEPT ![j] = [@ EXCEPT !.pc = "links", !.results = SyncResults(j)]]
    /\ UNCHANGED <<reports, gate, delivered, stops>>

CheckLinks(j) ==
    /\ send[j].pc = "links"
    /\ \E alive \in BOOLEAN :
        LET results == send[j].results \cup LinkResults(j, alive) IN
        send' = [send EXCEPT ![j] = [@ EXCEPT !.pc = "saving", !.results = results,
                                              !.failed = BlockingFailures(results)]]
    /\ UNCHANGED <<reports, gate, delivered, stops>>

(* Mutant: the report is written after the message is on its way.          *)
SaveReportLater(j) ==
    /\ send[j].pc = "saving"
    /\ send' = [send EXCEPT ![j].pc = IF send[j].failed = {} THEN "sending" ELSE "blocking"]
    /\ UNCHANGED <<reports, gate, delivered, stops>>

SaveReport(j) ==
    /\ send[j].pc = "saving"
    /\ reports' = reports \cup {[job |-> j, failed |-> send[j].failed]}
    /\ send' = [send EXCEPT ![j].pc = IF send[j].failed = {} THEN "sending" ELSE "blocking"]
    /\ UNCHANGED <<gate, delivered, stops>>

(* The result of transition_to_validation_failed is not looked at: without *)
(* a record nothing moves.                                                 *)
Block(j) ==
    /\ send[j].pc = "blocking"
    /\ gate' = IF j \in KnownRecord THEN gate \cup {j} ELSE gate
    /\ Finish(j, "blocked")
    /\ UNCHANGED <<reports, delivered, stops>>

(* The POST to Gmail: delivered and answered, or delivered and the answer  *)
(* lost, which raises as a refusal does.                                   *)
PostMessage(j) ==
    /\ send[j].pc = "sending"
    /\ ChannelOf[j] = "gmail"
    /\ delivered' = [delivered EXCEPT ![j] = @ + 1]
    /\ \/ Finish(j, "sent") \/ Finish(j, "raised")
    /\ UNCHANGED <<reports, gate, stops>>

(* The engine of the task has no store: enroll_prospects counts the        *)
(* prospect and keeps nothing.                                             *)
Enroll(j) ==
    /\ send[j].pc = "sending"
    /\ ChannelOf[j] = "lemlist"
    /\ Finish(j, IF j \in HasIds THEN "enrolled" ELSE "raised")
    /\ UNCHANGED <<reports, gate, delivered, stops>>

(* The worker is stopped: the queue gives the job to another, from the     *)
(* start.  A message on its way may still be delivered.                    *)
Stop(j) ==
    /\ send[j].pc \notin {"queued", "done"}
    /\ stops[j] + 1 < MaxRuns[j]
    /\ send' = [send EXCEPT ![j] = NoRun]
    /\ stops' = [stops EXCEPT ![j] = @ + 1]
    /\ \/ UNCHANGED delivered
       \/ /\ send[j].pc = "sending" /\ ChannelOf[j] = "gmail"
          /\ delivered' = [delivered EXCEPT ![j] = @ + 1]
    /\ UNCHANGED <<reports, gate>>

SendNext ==
    \E j \in Jobs : \/ BeginSend(j) \/ CheckLinks(j) \/ SaveReport(j) \/ Block(j)
                    \/ PostMessage(j) \/ Enroll(j) \/ Raise(j) \/ Stop(j)

SendSpec == SendInit /\ [][SendNext]_sendVars

-----------------------------------------------------------------------------
\* Properties.

Results == {"none", "error", "raised", "blocked", "sent", "enrolled"}

(* The variables keep their types.                                         *)
SendTypeOK ==
    /\ \A j \in Jobs : /\ send[j].pc \in {"queued", "links", "saving", "blocking", "sending", "done"}
                       /\ send[j].result \in Results
    /\ reports \subseteq [job : Jobs, failed : SUBSET (SyncRules \cup AsyncRules)]
    /\ gate \subseteq Jobs
    /\ delivered \in [Jobs -> Nat]
    /\ stops \in [Jobs -> Nat]

(* What a technique forbids, said without the validator: a defect of the   *)
(* material that a rule it declares as blocking, or leaves blocking, finds.*)
Forbidden(j) ==
    \E c \in RulesFor(j) :
        /\ c.rule \in SyncRules
        /\ SeverityOf(c) = "blocking"
        /\ ~ Passes(c, MaterialOf[j])

(* No message with a defect that its technique forbids is delivered, over  *)
(* all runs of its job and whatever the links answered in each.            *)
ForbiddenIsNeverDelivered ==
    \A j \in Jobs : Forbidden(j) => delivered[j] = 0 /\ send[j].result \notin {"sent", "enrolled"}

(* A message that was delivered has a stored report that passed it, also   *)
(* when the answer of the channel was lost or its worker was stopped.      *)
DeliveredWasReported ==
    \A j \in Jobs : delivered[j] > 0 \/ send[j].result \in {"sent", "enrolled"}
        => [job |-> j, failed |-> {}] \in reports

(* Two runs of one job come to the same verdict, although the links may    *)
(* answer differently: a job that was blocked once is never sent later.    *)
VerdictIsStable ==
    \A r1, r2 \in reports : r1.job = r2.job => (r1.failed = {}) = (r2.failed = {})

(* A job is delivered once more than it was stopped, at most: neither a    *)
(* lost answer nor an error makes the task send again.                     *)
SecondSendNeedsAStop ==
    \A j \in Jobs : delivered[j] <= stops[j] + 1

(* A job that reports blocked delivered nothing, and its record is in      *)
(* validation_failed if it has one.                                        *)
BlockedIsGated ==
    \A j \in Jobs : send[j].result = "blocked" =>
        delivered[j] = 0 /\ (j \in KnownRecord => j \in gate)

(* Validation stands between a job and its channel in every run of the job.*)
SendSafety ==
    /\ SendTypeOK /\ ForbiddenIsNeverDelivered /\ DeliveredWasReported
    /\ VerdictIsStable /\ SecondSendNeedsAStop /\ BlockedIsGated
=============================================================================

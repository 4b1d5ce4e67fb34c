----------------------------- MODULE MCPipeline -----------------------------
(***************************************************************************)
(* Instances of Pipeline for TLC: one record, one or two calls in progress *)
(* at once.                                                                *)
(***************************************************************************)
EXTENDS Pipeline, TLC

CONSTANTS r1, h1, h2

(* A record of the type that has proposal requests, and one of the type    *)
(* whose Interview status has a state-entry technique.                     *)
MCTeam == [r \in {r1} |-> "cold_outreach_team"]
MCJob == [r \in {r1} |-> "job_site"]

TeamTargets == {"Sent", "Won"}
JobTargets == {"Approve", "Sent", "Interview", "Rejected"}

Callers == Permutations(Handlers)

=============================================================================

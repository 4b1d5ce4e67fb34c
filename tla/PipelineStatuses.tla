-------------------------- MODULE PipelineStatuses --------------------------
(***************************************************************************)
(* The statuses of a pipeline record: the pipeline_states of each          *)
(* opportunity type in config/schema.yaml and the status sets that         *)
(* PipelineManager and PipelineGateService decide by.                      *)
(***************************************************************************)
EXTENDS Naturals

OpportunityTypes ==
    {"job_site", "company", "cold_outreach_consultant", "cold_outreach_team",
     "project_marketplace"}

FirstStatus ==
    [t \in OpportunityTypes |->
        CASE t \in {"job_site", "company"} -> "Personalise"
          [] t = "project_marketplace"     -> "Expression of Interest"
          [] OTHER                         -> "Drafted"]

TERMINAL_STATES == {"Converted", "Accepted", "Rejected", "Won", "Lost", "Abandoned"}
MEETING_ELIGIBLE_STATES == {"Sent", "Replied"}
GATED_STATES == {"Approve", "Applied", "Sent", "Proposal Submitted"}

Status ==
    TERMINAL_STATES \cup MEETING_ELIGIBLE_STATES \cup GATED_STATES \cup
    {"Personalise", "Interview", "Offer", "Drafted", "Meeting Booked",
     "Proposal Requested", "Expression of Interest", "Shortlisted",
     "validation_failed"}

ReportStatus ==
    {"grounding_verified", "grounding_blocked", "grounding_unverified"}

(* The one state-entry technique of the schema, interview_preparation, is  *)
(* attached to the two types that have an Interview state.                 *)
HasStateEntryTechnique(t, s) == t \in {"job_site", "company"} /\ s = "Interview"

=============================================================================

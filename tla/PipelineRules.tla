---------------------------- MODULE PipelineRules ----------------------------
(***************************************************************************)
(* What the pipeline promises: every transition is one atomic step that    *)
(* the rules of the state machine allow from the status it starts from.    *)
(* Nothing interferes with a single caller of PipelineManager, whose       *)
(* transitions start from the row as it is.  A caller among others may     *)
(* start from any status that the record has had.                          *)
(***************************************************************************)
EXTENDS PipelineStatuses

CONSTANTS Records, TypeOf, ManualTargets,
          Overlap    \* whether calls overlap
VARIABLES row, report,
          had        \* history: the statuses of each record so far

Init ==
    /\ row = [r \in Records |-> [status |-> FirstStatus[TypeOf[r]],
                                 previous |-> "none", terminal |-> FALSE]]
    /\ report = [r \in Records |-> "none"]
    /\ had = [r \in Records |-> {FirstStatus[TypeOf[r]]}]

(* The statuses that a transition may start from. *)
From(r) == IF Overlap THEN had[r] ELSE {row[r].status}

Move(r, from, to) ==
    /\ row' = [row EXCEPT ![r] = [status   |-> to,
                                  previous |-> from,
                                  terminal |-> to \in TERMINAL_STATES]]
    /\ had' = [had EXCEPT ![r] = @ \cup {to}]
    /\ report' = report

(* The events.  None of them leads to a gated status. *)
Reply(r) == "Sent" \in From(r) /\ Move(r, "Sent", "Replied")
Meeting(r) == \E s \in From(r) \cap MEETING_ELIGIBLE_STATES : Move(r, s, "Meeting Booked")
ProposalRequest(r) ==
    /\ "Replied" \in From(r)
    /\ TypeOf[r] = "cold_outreach_team"
    /\ Move(r, "Replied", "Proposal Requested")

(* A user moves a record that is not terminal, and into a gated status     *)
(* only when a grounding report exists.                                    *)
Manual(r) ==
    \E from \in From(r) \ TERMINAL_STATES, to \in ManualTargets :
        /\ to \in GATED_STATES => report[r] # "none"
        /\ Move(r, from, to)

(* The one transition that a terminal record can make. *)
ValidationFails(r) == \E s \in From(r) : Move(r, s, "validation_failed")

Verified(r) ==
    /\ \E s \in ReportStatus : report' = [report EXCEPT ![r] = s]
    /\ UNCHANGED <<row, had>>

Next ==
    \E r \in Records :
        Reply(r) \/ Meeting(r) \/ ProposalRequest(r) \/ Manual(r)
          \/ ValidationFails(r) \/ Verified(r)

Spec == Init /\ [][Next]_<<row, report, had>>

=============================================================================

----------------------------- MODULE MCOutreach -----------------------------
(***************************************************************************)
(* The instance of the three components behind an outgoing message.  They  *)
(* share no variable in the code, so each behaviour runs one of them       *)
(* (part) and leaves the others in their initial states: an invariant over *)
(* the variables of one component holds here iff it holds of the component.*)
(***************************************************************************)
EXTENDS ReviewCycle, OutboundSend, LemlistSequence

CONSTANTS a, b, g, x, t1, t2, va, vb

VARIABLE part

-----------------------------------------------------------------------------
\* ReviewCycle: two fetched materials, a third without a review technique.

MCPending == <<"m1", "m2", "m3">>
MCDraft == "m1" :> <<a, b>> @@ "m2" :> <<a>> @@ "m3" :> <<b>>
Edit(o, n) == [old |-> o, new |-> n]
MCCritiques == {<<Edit(a, g), Edit(g, x)>>, <<Edit(b, a), Edit(a, g)>>}
MCRevisions == {<<x, a, g, b>>}
\* An asset that names kafka but not the credential csm, which is too short
\* to be looked at, nor python and rust, which are not.
MCWords == a :> {"python", "team"} @@ b :> {"csm"} @@ g :> {"kafka", "csm"} @@ x :> {"rust", "kafka"}
MCHolds == [resume |-> {"kafka"}]

-----------------------------------------------------------------------------
\* OutboundSend: default rules and a schema, each with and without defects.

Clean == [tokens |-> FALSE, subject |-> TRUE, signature |-> TRUE, contact |-> "ann", family |-> "lee",
          greeted |-> {"ann"}, given |-> {"hook"}, filled |-> {"hook"}, length |-> 200,
          malformed |-> FALSE, repeats |-> FALSE]
Rule(name, severity, p) == [rule |-> name, severity |-> severity, params |-> p]
Schema == {Rule("length_bounds", "warning", [DefaultParams EXCEPT !.shortest = 100, !.longest = 3000]),
            Rule("link_liveness", "blocking", [DefaultParams EXCEPT !.links = TRUE]),
            Rule("unreplaced_tokens", "default", DefaultParams),
            Rule("missing_signature", "default", [DefaultParams EXCEPT !.signature = FALSE]),
            Rule("spelling", "blocking", DefaultParams),
            Rule("empty_personalization_field", "default",
                 [DefaultParams EXCEPT !.own = TRUE, !.fields = {"hook", "company"}])}
MCMaterial == [j1 |-> [Clean EXCEPT !.signature = FALSE, !.length = 20],
               j2 |-> [Clean EXCEPT !.signature = FALSE, !.filled = {"hook", "company"}, !.length = 60],
               j3 |-> [Clean EXCEPT !.greeted = {"lee"}],
               j4 |-> [Clean EXCEPT !.tokens = TRUE, !.length = 60]]
MCChannel == [j1 |-> "gmail", j2 |-> "gmail", j3 |-> "lemlist", j4 |-> "lemlist"]
MCRules == [j1 |-> {}, j2 |-> Schema, j3 |-> {}, j4 |-> Schema]

MCRuns == [j1 |-> 2, j2 |-> 2, j3 |-> 1, j4 |-> 1]

-----------------------------------------------------------------------------
\* LemlistSequence: two operations at once, one step beyond the maximum.

Symmetry == Permutations({t1, t2}) \cup Permutations({va, vb})

-----------------------------------------------------------------------------

MCInit == RevInit /\ SendInit /\ LemInit /\ part \in {"review", "send", "sequence"}

MCNext ==
    \/ part = "review" /\ RevNext /\ UNCHANGED <<sendVars, lemVars, part>>
    \/ part = "send" /\ SendNext /\ UNCHANGED <<revVars, lemVars, part>>
    \/ part = "sequence" /\ LemNext /\ UNCHANGED <<revVars, sendVars, part>>

MCSpec == MCInit /\ [][MCNext]_<<revVars, sendVars, lemVars, part>>
=============================================================================

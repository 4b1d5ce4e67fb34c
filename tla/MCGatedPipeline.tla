-------------------------- MODULE MCGatedPipeline --------------------------
(***************************************************************************)
(* An instance of GatedPipeline for TLC: one job-site record with a CV and *)
(* a letter.                                                               *)
(***************************************************************************)
EXTENDS GatedPipeline, TLC

CONSTANTS h1, h2, m1, x1

MCTypeOf == [r \in {Record} |-> "job_site"]
TwoMaterials == [n \in ReportIds |-> IF n = 2 THEN "cv" ELSE "letter"]
MCOps == {"manual"}
MCTargets == {"Sent", "Interview"}

Callers == Permutations(Handlers)

=============================================================================

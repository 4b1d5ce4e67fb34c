---------------------------- MODULE MCGrounding ----------------------------
(***************************************************************************)
(* Instances of Grounding for TLC: one material with at most two claims.   *)
(***************************************************************************)
EXTENDS Grounding, TLC

CONSTANTS h1, h2, x1

OneMaterial == [n \in ReportIds |-> "letter"]
Callers == Permutations(Handlers)

=============================================================================

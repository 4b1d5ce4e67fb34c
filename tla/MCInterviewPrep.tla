-------------------------- MODULE MCInterviewPrep --------------------------
(***************************************************************************)
(* Instances of InterviewPrep for TLC: packs with one or two talking       *)
(* points and two tasks of one record.                                    *)
(***************************************************************************)
EXTENDS InterviewPrep, TLC

CONSTANTS j1, j2, p1, p2

Tasks == Permutations(Jobs)

=============================================================================

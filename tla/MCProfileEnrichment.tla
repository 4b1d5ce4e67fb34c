------------------------ MODULE MCProfileEnrichment ------------------------
(***************************************************************************)
(* Instance of ProfileEnrichment for TLC: three sources of two             *)
(* consultants that mention the same item, with two scan tasks and two     *)
(* requests at once.                                                       *)
(***************************************************************************)
EXTENDS ProfileEnrichment, TLC

CONSTANTS u1, u2, u3, c1, w1, w2, q1, q2, go, ann, bob

(* Two sources of one consultant and one of another. *)
TwoOwners == [s \in Sources |-> IF s = u3 THEN bob ELSE ann]

(* One of them has failed in the last scan. *)
OneFailed == [s \in Sources |-> IF s = u1 THEN 1 ELSE 0]

(* The item, which is like itself. *)
OneItem == [c \in Candidates |-> go]
Itself == {<<k, k>> : k \in Keys}

(* Tasks and requests are alike. *)
Symmetry == Permutations({w1, w2}) \cup Permutations({q1, q2})

=============================================================================

--------------------------- MODULE MCPolicyRelease ---------------------------
(***************************************************************************)
(* TLC instances of PolicyRelease.  The bootstrap policy plus three        *)
(* candidates are enough for a promotion, a rollback, a displaced canary   *)
(* and a candidate of each of two active policies to coexist.              *)
(***************************************************************************)
EXTENDS PolicyRelease, TLC

CONSTANTS v0, v1, v2, v3, s1, s2, p0, p1

MCVersions == {v0, v1, v2, v3}
Symmetry == Permutations(MCVersions \ {Bootstrap}) \cup Permutations(Suites)

(* A clean baseline, and one whose safety layer failed.                    *)
MCAttributions == {{}, {"safety"}}
MCFeedback == {[useful |-> 0, notUseful |-> 0, positive |-> 0]}

(* One store below every percentage offered, one above.                    *)
MCStores == {"low_bucket", "high_bucket"}
MCBucket == [s \in MCStores |-> IF s = "low_bucket" THEN 4 ELSE 97]
=============================================================================

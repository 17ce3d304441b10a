----------------------------- MODULE MCEvolution -----------------------------
(***************************************************************************)
(* Up to three concurrent sessions and two candidate versions: enough for  *)
(* a session to be overtaken by the promotion of another one's candidate.  *)
(***************************************************************************)
EXTENDS Evolution, TLC

CONSTANTS v0, v1, v2, s1, a, b, c

MCVersions == {v0, v1, v2}
Symmetry == Permutations(MCVersions \ {Bootstrap}) \cup Permutations(Sessions)
MCAttributions == {{}}
MCFeedback == {[useful |-> 0, notUseful |-> 0, positive |-> 0]}
MCStores == {"store"}
MCBucket == [s \in MCStores |-> 4]

(* Start from an empty directory only; the legacy files are covered by     *)
(* MCPolicyRelease.                                                        *)
FreshInit == EvolutionInit /\ activeVersion = NoVersion
FreshSpec == FreshInit /\ [][EvolutionNext]_allVars
=============================================================================

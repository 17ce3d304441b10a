-------------------------- MODULE MCKnowledgeBase --------------------------
(***************************************************************************)
(* Three versions of one source, the last one with the content of the      *)
(* first, so that versions overlap, shadow each other and are reused, and  *)
(* one search across all of them.                                          *)
(***************************************************************************)
EXTENDS KnowledgeBase, TLC

CONSTANTS i1, i2, i3, handbook, x, y

MCSource == [i \in {i1, i2, i3} |-> handbook]
Symmetry == Permutations({i1, i3})
MCContent == i1 :> x @@ i2 :> y @@ i3 :> x

=============================================================================

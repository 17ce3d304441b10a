--------------------------- MODULE AtomicDocument ---------------------------
(***************************************************************************)
(* What a caller of the policy store relies on: one document that changes  *)
(* by whole updates, each applied to the result of those before it, and    *)
(* that keeps every update whose caller has been answered.                 *)
(***************************************************************************)
CONSTANT Updates

VARIABLES document,    \* the updates the document contains
          answered     \* the updates whose caller was told of their success

Init == document = {} /\ answered = {}

Apply(u) ==
    /\ u \in Updates \ document
    /\ document' = document \cup {u}
    /\ UNCHANGED answered

Answer(u) ==
    /\ u \in document
    /\ answered' = answered \cup {u}
    /\ UNCHANGED document

Next == \E u \in Updates : Apply(u) \/ Answer(u)

Spec == Init /\ [][Next]_<<document, answered>>

=============================================================================

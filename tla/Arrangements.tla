---------------------------- MODULE Arrangements ----------------------------
(***************************************************************************)
(* Lists in another order, or without some of their elements.  What the    *)
(* loops of the code keep of a list, and what sort.SliceStable makes of    *)
(* it, is a set of places and an order on them.                            *)
(***************************************************************************)
EXTENDS Integers, Sequences, FiniteSets

(* A finite set as a sequence: k is where as many others are before it.    *)
Arranged(S, R) ==
    [p \in 1 .. Cardinality(S) |->
        CHOOSE k \in S : Cardinality({j \in S : <<j, k>> \in R}) = p - 1]

Ascending(S) == Arranged(S, {e \in S \X S : e[1] < e[2]})

(* A stable sort of the places of a list: the highest key first.           *)
Descending(key) ==
    Arranged(DOMAIN key,
             {e \in (DOMAIN key) \X (DOMAIN key) :
                 key[e[1]] > key[e[2]] \/ (key[e[1]] = key[e[2]] /\ e[1] < e[2])})

(* (Appending nothing makes TLC compute the list, once.)                   *)
ElementsAt(list, places) == [p \in DOMAIN places |-> list[places[p]]] \o <<>>

=============================================================================

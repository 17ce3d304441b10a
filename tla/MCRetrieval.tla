----------------------------- MODULE MCRetrieval -----------------------------
(* Two documents, of which the external backend has superseded the second: *)
(* with four leaves it cannot fill the five places of the candidates, with *)
(* five it can.  Texts have blanks at the bounds of windows and full stops *)
(* of all kinds.  Two of three or of four L2 chunks make an L1 chunk, and  *)
(* the larger L1 chunk alone exceeds the budget.                           *)
EXTENDS Retrieval

MCLibraries ==
    {<< <<" ", "a", "b", "c", "d", ".", "e", "f", "g", "h", "i", " ">>,
        <<"s", "t", "u", " ", " ", "v", ".">> >>,
     << <<"a", "b", " ", "c", ".", " ", "d", "e", ".", ".", "f", "g", "h">>,
        <<".", "s", "t", "u", "v", "w", "x", "y">> >>}

Sizes(a, b, c) == << [size |-> a[1], overlap |-> a[2]], [size |-> b[1], overlap |-> b[2]],
                     [size |-> c[1], overlap |-> c[2]] >>

MCConfigs ==
    {Sizes(<<13, 2>>, <<4, 1>>, <<2, 0>>),
     Sizes(<<8, 3>>, <<5, 1>>, <<4, 2>>),
     Sizes(<<13, 2>>, <<4, 4>>, <<2, 0>>)}

MCEmbeddings(n) == {<<>>, [i \in 1 .. n |-> n + 1 - i], [i \in 1 .. n |-> 1]}

Rotated(n, by) == [i \in 1 .. n |-> 1 + ((i + by - 1) % n)]

MCRankings(n) == {Rotated(n, by) : by \in {0, 2, 4, n - 3}} \cup {[i \in 1 .. n |-> n + 1 - i]}

MCMatches == {0, 2, 9}

Rank(index, score) == [index |-> index, score |-> score]

MCRelevance(n) ==
    {[i \in 1 .. n |-> Rank(i, 3000)],
     [i \in 1 .. n |-> Rank(n + 1 - i, 1000 * i)],
     [i \in 1 .. n |-> Rank(i, IF i = 1 THEN 2000 ELSE 6000)],
     <<Rank(n, 0)>>,
     <<Rank(1, 9000), Rank(1, 9000)>>}

MCOutages == {{}, {<<2, 1>>}, {<<1, 1>>}}

=============================================================================

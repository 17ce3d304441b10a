------------------------------ MODULE Chunking ------------------------------
(***************************************************************************)
(* How the two retrieval backends cut documents up: the three levels of    *)
(* sliding windows of the external one (internal/rag/chunker.go) and the   *)
(* sentences of the local one (internal/retrieval/engine.go, buildCorpus). *)
(*                                                                         *)
(* A text is a sequence of characters, of which only blanks and full stops *)
(* are told apart.  Positions count from 0 and a span <<s, e>> stops short *)
(* of e, as in the code.  A tree holds the chunks of each of its levels;   *)
(* the number of a chunk is its place on its level (with the document, the *)
(* version and the span, the UUID of the code says no more).  Level 0 is   *)
(* the documents themselves, which the code does not store.                *)
(***************************************************************************)
EXTENDS Arrangements, SequencesExt, FiniteSetsExt

-----------------------------------------------------------------------------
Blank == " "
Stop == "."

Least(a, b) == IF a < b THEN a ELSE b

Solid(text, s, e) == {p \in s .. e - 1 : text[p + 1] # Blank}

Piece(text, s, e) == [text |-> SubSeq(text, s + 1, e), start |-> s, end |-> e]

(* strings.TrimSpace and trimRuneBounds: from the first character that is  *)
(* not blank to the last one.                                              *)
Trimmed(text, s, e) ==
    LET solid == Solid(text, s, e) IN Piece(text, Min(solid), Max(solid) + 1)

(* The pieces from each start to its end that are not all blank, in order. *)
Pieces(text, ends) ==
    LET starts == Ascending({s \in DOMAIN ends : Solid(text, s, ends[s]) # {}})
    IN  [i \in DOMAIN starts |-> Trimmed(text, starts[i], ends[starts[i]])]

-----------------------------------------------------------------------------
(* ChunkDocument *)

(* validateChunkingConfig *)
ValidSizes(sizes) ==
    /\ \A l \in 1 .. 3 : sizes[l].size > 0 /\ sizes[l].overlap \in 0 .. sizes[l].size - 1
    /\ sizes[1].size >= sizes[2].size /\ sizes[2].size >= sizes[3].size

(* The loop goes on to its next window as long as the last one did not     *)
(* reach the end of the text.                                              *)
WindowStarts(length, size, overlap) ==
    LET stride == size - overlap
    IN  {k * stride : k \in {k \in 0 .. length - 1 :
                                k = 0 \/ (k - 1) * stride + size < length}}

(* Fault: a last window that would be cut short is left out.               *)
SlidingWindows_WholeOnly(text, level) ==
    Pieces(text, [s \in {s \in WindowStarts(Len(text), level.size, level.overlap) :
                            s = 0 \/ s + level.size <= Len(text)} |->
                     Least(s + level.size, Len(text))])

SlidingWindows(text, level) ==
    Pieces(text, [s \in WindowStarts(Len(text), level.size, level.overlap) |->
                     Least(s + level.size, Len(text))])

Chunk(piece, doc, start, parent, children) ==
    [text |-> piece.text, start |-> start, end |-> start + Len(piece.text),
     doc |-> doc, parent |-> parent, children |-> children]

(* The next level: windows over the text of each parent, at offsets that   *)
(* are moved by the parent's.                                              *)
Below(parents, level) ==
    FlattenSeq([p \in DOMAIN parents |->
        LET pieces == SlidingWindows(parents[p].text, level)
        IN  [i \in DOMAIN pieces |->
                Chunk(pieces[i], parents[p].doc, parents[p].start + pieces[i].start, p, 0)]])

(* TotalChildren *)
Counted(chunks, below) ==
    [p \in DOMAIN chunks |->
        [chunks[p] EXCEPT !.children =
            Cardinality({i \in DOMAIN below : below[i].parent = p})]]

Documents(texts) ==
    [d \in DOMAIN texts |->
        [text |-> Trimmed(texts[d], 0, Len(texts[d])).text, start |-> 0,
         end |-> 0, doc |-> d, parent |-> 0, children |-> 0]]

ChunkTree(texts, sizes) ==
    LET l0 == Documents(texts)
        l1 == Below(l0, sizes[1])
        l2 == Below(l1, sizes[2])
        l3 == Below(l2, sizes[3])
    IN  [l0 |-> l0, l1 |-> Counted(l1, l2), l2 |-> Counted(l2, l3), l3 |-> l3]

-----------------------------------------------------------------------------
(* buildCorpus: an article is the parent of its sentences.                 *)

Stops(text) == {p \in 0 .. Len(text) - 1 : text[p + 1] = Stop}

(* splitContent: what is between two full stops or ends; a text of full    *)
(* stops only is one part.                                                 *)
SplitContent(text) ==
    LET parts == Pieces(text, [s \in {0} \cup {p + 1 : p \in Stops(text)} |->
                                  Min({Len(text)} \cup {p \in Stops(text) : p >= s})])
    IN  IF parts # <<>> THEN parts ELSE <<Trimmed(text, 0, Len(text))>>

Corpus(texts) ==
    LET l1 == [d \in DOMAIN texts |-> Chunk(Piece(texts[d], 0, Len(texts[d])), d, 0, d, 0)]
        l3 == FlattenSeq([d \in DOMAIN texts |->
                  LET parts == SplitContent(texts[d])
                  IN  [i \in DOMAIN parts |-> Chunk(parts[i], d, parts[i].start, d, 0)]])
    IN  [l0 |-> l1, l1 |-> Counted(l1, l3), l2 |-> <<>>, l3 |-> l3]

-----------------------------------------------------------------------------
(* Every character of a document that is neither blank nor, for the local  *)
(* backend, a full stop is in some leaf: nothing is lost between windows,  *)
(* to trimming, or with the last window.                                   *)
Covered(tree, ignored) ==
    \A d \in DOMAIN tree.l0 :
        \A p \in DOMAIN tree.l0[d].text :
            tree.l0[d].text[p] \notin ignored =>
                \E i \in DOMAIN tree.l3 :
                    tree.l3[i].doc = d /\ tree.l3[i].start < p /\ p <= tree.l3[i].end

(* A chunk says which part of its document it is, and lies in its parent.  *)
Located(tree, chunks, parents) ==
    \A i \in DOMAIN chunks :
        LET c == chunks[i] IN
        /\ c.text = SubSeq(tree.l0[c.doc].text, c.start + 1, c.end)
        /\ c.text # <<>>
        /\ parents # <<>> => /\ parents[c.parent].doc = c.doc
                             /\ parents[c.parent].start <= c.start
                             /\ c.end <= parents[c.parent].end

=============================================================================

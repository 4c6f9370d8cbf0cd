-------------------------- MODULE MCKnowledgeBase --------------------------
(***************************************************************************)
(* An instance of KnowledgeBase for TLC: a file of short          *)
(* sentences (a, b) and one that is longer than a chunk (x).               *)
(***************************************************************************)
EXTENDS KnowledgeBase, TLC

CONSTANTS a, b, x, s1, s2

MCTokens == a :> 1 @@ b :> 2 @@ x :> 4
OneFile == <<"policy">>

\* Paragraphs that merge, one that must be split, and a text that comes
\* again: in the next batch, or in the same one.
MCDocuments ==
  {<< <<a>>, <<a>>, <<b>>, <<b>> >>, << <<b>>, <<a, x>> >>, << <<b>>, <<b>> >>}

AllChunks == UNION {Range(ChunkDocument(doc)) : doc \in MCDocuments}
Order == SetToSeq(AllChunks)

\* The words put the chunk first that the vectors put last.
MCQueries == {[dense |-> Order, sparse |-> <<Last(Order)>> \o Front(Order)]}

Symmetry == Permutations({s1, s2})

==============================================================================

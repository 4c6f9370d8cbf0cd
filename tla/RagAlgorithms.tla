---------------------------- MODULE RagAlgorithms ----------------------------
(***************************************************************************)
(* The pure algorithms of services/rag: the paragraph-aware chunker, the   *)
(* reciprocal rank fusion of two searches, and the context budget.         *)
(*                                                                         *)
(* A document is the sequence of its paragraphs, a paragraph the sequence  *)
(* of its sentences; blank lines and horizontal rules are gone.  A chunk   *)
(* is a sequence of paragraphs, the last level of detail its text and its  *)
(* hash tell apart.  Tokens of separators are not counted.                 *)
(***************************************************************************)
EXTENDS Integers, SequencesExt

CONSTANTS
  Sentences,
  Tokens,         \* [Sentences -> Nat]
  TARGET_CHUNK_TOKENS,
  MAX_CHUNK_TOKENS,
  RRF_K,
  FINAL_TOP_N,
  HEADER_TOKENS,  \* of the line that names a chunk's source
  MIN_ROOM,       \* the 100 tokens of build_context
  MAX_CONTEXT_TOKENS

ASSUME ParametersAssumption ==
  /\ Tokens \in [Sentences -> Nat \ {0}]
  /\ {TARGET_CHUNK_TOKENS, MAX_CHUNK_TOKENS, RRF_K, FINAL_TOP_N} \subseteq Nat \ {0}
  /\ TARGET_CHUNK_TOKENS <= MAX_CHUNK_TOKENS
  /\ {HEADER_TOKENS, MIN_ROOM, MAX_CONTEXT_TOKENS} \subseteq Nat

------------------------------------------------------------------------------
(* chunker.py                                                              *)

\* _count_tokens of a paragraph, and of a chunk.
ParaTokens(para) == FoldLeft(LAMBDA n, s : n + Tokens[s], 0, para)
ChunkTokens(chunk) == FoldLeft(LAMBDA n, para : n + ParaTokens(para), 0, chunk)

\* A buffer that is being filled: what was flushed, what is in it, its size.
EmptyBuffer == [merged |-> <<>>, current |-> <<>>, tokens |-> 0]

Flush(buffer) ==
  IF buffer.current = <<>> THEN buffer
  ELSE [EmptyBuffer EXCEPT !.merged = Append(buffer.merged, buffer.current)]

Put(buffer, item, tokens) ==
  [buffer EXCEPT !.current = Append(@, item), !.tokens = @ + tokens]

\* Sentences are gathered until the next one would pass the maximum.
AddSentence(buffer, s) ==
  Put(IF buffer.tokens + Tokens[s] > MAX_CHUNK_TOKENS THEN Flush(buffer) ELSE buffer,
      s, Tokens[s])

SplitAtSentences(para) ==
  LET parts == Flush(FoldLeft(AddSentence, EmptyBuffer, para)).merged
  IN [i \in DOMAIN parts |-> <<parts[i]>>]

\* Mutant: an oversized paragraph overtakes the paragraphs that wait.
MutantAddParagraph(buffer, para) ==
  IF ParaTokens(para) > MAX_CHUNK_TOKENS
  THEN [buffer EXCEPT !.merged = @ \o SplitAtSentences(para)]
  ELSE Put(IF buffer.tokens + ParaTokens(para) > TARGET_CHUNK_TOKENS
           THEN Flush(buffer) ELSE buffer,
           para, ParaTokens(para))

\* An oversized paragraph is split by itself, after what waits in the
\* buffer; any other is added, after a flush if it would pass the target.
AddParagraph(buffer, para) ==
  IF ParaTokens(para) > MAX_CHUNK_TOKENS
  THEN [Flush(buffer) EXCEPT !.merged = @ \o SplitAtSentences(para)]
  ELSE Put(IF buffer.tokens + ParaTokens(para) > TARGET_CHUNK_TOKENS
           THEN Flush(buffer) ELSE buffer,
           para, ParaTokens(para))

ChunkDocument(doc) == Flush(FoldLeft(AddParagraph, EmptyBuffer, doc)).merged

\* What the chunker promises of one document (chunker.py:4-8): its text in
\* order, nothing lost or repeated; paragraphs merged up to the target and
\* cut only when oversized, then at sentences; and no cut without need.
PartOf(sentences, para) ==
  \E first, last \in DOMAIN para : sentences = SubSeq(para, first, last)

Oversized(doc) == {p \in Range(doc) : ParaTokens(p) > MAX_CHUNK_TOKENS}

WellChunked(doc, chunks) ==
  /\ FlattenSeq(FlattenSeq(chunks)) = FlattenSeq(doc)
  /\ \A i \in DOMAIN chunks :
       /\ Len(chunks[i]) > 1 => ChunkTokens(chunks[i]) <= TARGET_CHUNK_TOKENS
       /\ ChunkTokens(chunks[i]) > MAX_CHUNK_TOKENS => Len(FlattenSeq(chunks[i])) = 1
       /\ Range(chunks[i]) \subseteq Range(doc)
            \/ \E p \in Oversized(doc) : Len(chunks[i]) = 1 /\ PartOf(chunks[i][1], p)
  /\ \A i \in 1..(Len(chunks) - 1) :
       \/ ChunkTokens(chunks[i]) + ParaTokens(chunks[i + 1][1]) > TARGET_CHUNK_TOKENS
       \/ \E p \in Oversized(doc), c \in {chunks[i], chunks[i + 1]} : PartOf(c[1], p)

------------------------------------------------------------------------------
(* retriever.py, reranker.py and context_builder.py                        *)

IsIn(x, list) == \E i \in DOMAIN list : list[i] = x
RankOf(x, list) == CHOOSE i \in DOMAIN list : list[i] = x

\* 1 / (rank + 60) for each list the chunk is in, as <<numerator, denominator>>.
Score(x, dense, sparse) ==
  LET d == RankOf(x, dense) + RRF_K
      s == RankOf(x, sparse) + RRF_K
  IN CASE IsIn(x, dense) /\ IsIn(x, sparse) -> <<d + s, d * s>>
       [] IsIn(x, dense) /\ ~IsIn(x, sparse) -> <<1, d>>
       [] OTHER -> <<1, s>>

HigherScore(a, b) == a[1] * b[2] > b[1] * a[2]

\* Mutant: the rank in the second list replaces the first list's.
MutantFusions(dense, sparse) ==
  LET Latest(x) == Score(x, IF IsIn(x, sparse) THEN <<>> ELSE dense, sparse) IN
  {list \in SetToSeqs(Range(dense) \cup Range(sparse)) :
     \A i, j \in DOMAIN list : HigherScore(Latest(list[i]), Latest(list[j])) => i < j}

\* The chunks of both lists by score; equal scores in either order.
Fusions(dense, sparse) ==
  {list \in SetToSeqs(Range(dense) \cup Range(sparse)) :
     \A i, j \in DOMAIN list :
       HigherScore(Score(list[i], dense, sparse), Score(list[j], dense, sparse)) => i < j}

Top(list, n) == SubSeq(list, 1, IF n < Len(list) THEN n ELSE Len(list))

\* The elements of a list that are in a set.
Only(list, set) ==
  FoldLeft(LAMBDA kept, x : IF x \in set THEN Append(kept, x) ELSE kept, <<>>, list)

\* The chunk was found earlier, or found at all, by one search and not later
\* by the other.
NotLater(x, y, list) == IsIn(y, list) => IsIn(x, list) /\ RankOf(x, list) <= RankOf(y, list)

Beats(x, y, dense, sparse) ==
  /\ NotLater(x, y, dense) /\ NotLater(x, y, sparse)
  /\ ~NotLater(y, x, dense) \/ ~NotLater(y, x, sparse)

BlockTokens(chunk) == HEADER_TOKENS + ChunkTokens(chunk)

ContextTokens(list) == FoldLeft(LAMBDA n, chunk : n + BlockTokens(chunk), 0, list)

\* Blocks are included while they fit.  The first that does not fit ends the
\* context; if there is still room the whole chunk goes in, although only a
\* truncated copy of it was counted.
BuildContext(list) ==
  LET fits == CHOOSE n \in 0..Len(list) :
                /\ ContextTokens(Top(list, n)) <= MAX_CONTEXT_TOKENS
                /\ n < Len(list) => ContextTokens(Top(list, n + 1)) > MAX_CONTEXT_TOKENS
      room == MAX_CONTEXT_TOKENS - ContextTokens(Top(list, fits))
  IN Top(list, IF room > MIN_ROOM THEN fits + 1 ELSE fits)

==============================================================================

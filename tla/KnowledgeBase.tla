---------------------------- MODULE KnowledgeBase ----------------------------
(***************************************************************************)
(* The knowledge base: the embedding sync that turns its files into rows   *)
(* of knowledge_embeddings, and the searches that read them.  A row is the *)
(* chunk it holds, since content_hash is unique.                           *)
(*                                                                         *)
(* A query is the order in which each kind of search ranks the chunks that *)
(* are similar enough to it.  One query is asked, with different top_k;    *)
(* the collections, which only restrict the rows, are left out.            *)
(***************************************************************************)
EXTENDS RagAlgorithms, FiniteSets

CONSTANTS
  FileOrder,      \* the files, as the loader walks them
  Documents,      \* what a file may contain
  Syncs,          \* sync_embeddings messages
  BATCH,          \* the 50 rows of a commit
  Queries,        \* records of two sequences of chunks, dense and sparse
  DENSE_TOP_N,
  SPARSE_TOP_N,
  TopKs,          \* the top_k that callers ask for
  NoRanking,
  MaxRetries,     \* max_retries of the task
  MaxEdits,
  MaxFaults

Chunks == Seq(Seq(Sentences))

ASSUME KnowledgeAssumption ==
  /\ FileOrder \in Seq(Range(FileOrder))
  /\ Documents \subseteq Seq(Seq(Sentences))
  /\ Queries \subseteq [dense : Seq(Chunks), sparse : Seq(Chunks)]
  /\ {BATCH, DENSE_TOP_N, SPARSE_TOP_N} \subseteq Nat \ {0}
  /\ TopKs \subseteq Nat \ {0}
  /\ {MaxRetries, MaxEdits, MaxFaults} \subseteq Nat
  /\ NoRanking \notin Seq(Chunks)

Files == Range(FileOrder)

VARIABLES
  files,   \* what the markdown files contain
  rows,    \* knowledge_embeddings
  sync,    \* the messages and the locals of their executions
  ranking, \* the re-ranker's cached ids, or NoRanking
  query,   \* what is asked
  search,  \* the locals of one search at a time
  edits, faults

vars == <<files, rows, sync, query, ranking, search, edits, faults>>

Locals == [chunks |-> <<>>, hashes |-> {}, next |-> 1, pending |-> <<>>,
           new |-> 0, failed |-> 0, lost |-> FALSE]

Idle == [pc |-> "idle", top_k |-> 0, dense |-> <<>>, sparse |-> <<>>,
         candidates |-> <<>>, hit |-> FALSE, context |-> <<>>]

Init ==
  /\ files \in [Files -> Documents]
  /\ rows = {}
  /\ sync = [j \in Syncs |-> [pc |-> "queued", retries |-> 0, local |-> Locals]]
  /\ query \in Queries
  /\ ranking = NoRanking
  /\ search = Idle
  /\ edits = 0
  /\ faults = 0

Fault == faults < MaxFaults /\ faults' = faults + 1

Goto(j, pc, local) == sync' = [sync EXCEPT ![j].pc = pc, ![j].local = local]

------------------------------------------------------------------------------
(* embedding_sync.py, embedder.py and indexer.py                           *)

ChunksOf(loaded) ==
  LET order == Only(FileOrder, loaded)
  IN FlattenSeq([i \in DOMAIN order |-> ChunkDocument(files[order[i]])])

\* The files are read and chunked; one that cannot be read is left out, and
\* without any the task returns.
Load(j) ==
  /\ sync[j].pc = "queued"
  /\ \E loaded \in SUBSET Files :
       /\ IF loaded = Files THEN UNCHANGED faults ELSE Fault
       /\ Goto(j, IF loaded = {} THEN "done" ELSE "embed",
               [Locals EXCEPT !.chunks = ChunksOf(loaded)])
  /\ UNCHANGED <<files, rows, query, ranking, search, edits>>

\* Batch by batch, each with its own attempts: all vectors, or an exception.
Embed(j) ==
  /\ sync[j].pc = "embed"
  /\ Goto(j, "hashes", sync[j].local)
  /\ UNCHANGED <<files, rows, query, ranking, search, edits, faults>>

\* _fetch_existing_hashes: what is in the table now is skipped later.
FetchHashes(j) ==
  /\ sync[j].pc = "hashes"
  /\ Goto(j, "index", [sync[j].local EXCEPT !.hashes = rows])
  /\ UNCHANGED <<files, rows, query, ranking, search, edits, faults>>

\* Mutant: a chunk that is skipped is counted as new, too.
MutantAddChunk(j) ==
  LET l == sync[j].local
      chunk == l.chunks[l.next]
  IN /\ sync[j].pc = "index" /\ l.next <= Len(l.chunks)
     /\ Goto(j, IF (l.new + 1) % BATCH = 0 THEN "commit" ELSE "index",
             [l EXCEPT !.next = @ + 1, !.new = @ + 1,
                       !.pending = IF chunk \in l.hashes THEN @ ELSE Append(@, chunk)])
     /\ UNCHANGED <<files, rows, query, ranking, search, edits, faults>>

\* The loop up to the next commit: a chunk is skipped, or added and counted.
AddChunk(j) ==
  LET l == sync[j].local
      chunk == l.chunks[l.next]
  IN /\ sync[j].pc = "index" /\ l.next <= Len(l.chunks)
     /\ IF chunk \in l.hashes
        THEN Goto(j, "index", [l EXCEPT !.next = @ + 1])
        ELSE Goto(j, IF (l.new + 1) % BATCH = 0 THEN "commit" ELSE "index",
                  [l EXCEPT !.next = @ + 1, !.pending = Append(@, chunk), !.new = @ + 1])
     /\ UNCHANGED <<files, rows, query, ranking, search, edits, faults>>

\* Mutant: no final commit.
MutantLoopEnds(j) ==
  /\ sync[j].pc = "index" /\ sync[j].local.next > Len(sync[j].local.chunks)
  /\ Goto(j, "done", sync[j].local)
  /\ UNCHANGED <<files, rows, query, ranking, search, edits, faults>>

\* The final commit is made if the count is not a multiple of the batch.
LoopEnds(j) ==
  LET l == sync[j].local IN
  /\ sync[j].pc = "index" /\ l.next > Len(l.chunks)
  /\ Goto(j, IF l.new % BATCH # 0 THEN "final" ELSE "done", l)
  /\ UNCHANGED <<files, rows, query, ranking, search, edits, faults>>

\* content_hash is unique: one text twice in a batch, or one that another
\* sync has committed, fails the flush.
Insertable(batch) == IsInjective(batch) /\ Range(batch) \cap rows = {}

AfterCommit(j) == IF sync[j].pc = "commit" THEN "index" ELSE "done"

Commit(j) ==
  LET l == sync[j].local IN
  /\ sync[j].pc \in {"commit", "final"}
  /\ Insertable(l.pending)
  /\ rows' = rows \cup Range(l.pending)
  /\ Goto(j, AfterCommit(j), [l EXCEPT !.pending = <<>>])
  /\ UNCHANGED <<files, query, ranking, search, edits, faults>>

\* An exception of the commit: the batch is rolled back, unless only the
\* answer was lost.  In the loop it is counted as one failed chunk; of the
\* final commit the log alone tells (lost).
CommitFails(j) ==
  LET l == sync[j].local IN
  /\ sync[j].pc \in {"commit", "final"}
  /\ IF Insertable(l.pending)
     THEN Fault /\ rows' \in {rows, rows \cup Range(l.pending)}
     ELSE UNCHANGED <<rows, faults>>
  /\ Goto(j, AfterCommit(j),
          [l EXCEPT !.pending = <<>>,
                    !.failed = IF sync[j].pc = "commit" THEN @ + 1 ELSE @,
                    !.lost = @ \/ sync[j].pc = "final"])
  /\ UNCHANGED <<files, query, ranking, search, edits>>

\* self.retry, and what is left when the attempts are used up.
RetryOrFail(j) ==
  IF sync[j].retries < MaxRetries
  THEN sync' = [sync EXCEPT ![j] = [pc |-> "queued", retries |-> @.retries + 1, local |-> Locals]]
  ELSE Goto(j, "failed", Locals)

\* The vectors, or the existing hashes, cannot be had.
Raise(j) ==
  /\ sync[j].pc \in {"embed", "hashes"}
  /\ Fault
  /\ RetryOrFail(j)
  /\ UNCHANGED <<files, rows, query, ranking, search, edits>>

Running(j) == sync[j].pc \in {"embed", "hashes", "index", "commit", "final"}

\* A lost process: the message is delivered again, from the start.
LoseWorker(j) ==
  /\ Running(j) /\ Fault
  /\ Goto(j, "queued", Locals)
  /\ UNCHANGED <<files, rows, query, ranking, search, edits>>

\* The hard limit acknowledges the message.
TimeLimit(j) ==
  /\ Running(j) /\ Fault
  /\ Goto(j, "killed", Locals)
  /\ UNCHANGED <<files, rows, query, ranking, search, edits>>

Sync(j) ==
  \/ Load(j) \/ Embed(j) \/ FetchHashes(j) \/ AddChunk(j) \/ LoopEnds(j)
  \/ Commit(j) \/ CommitFails(j) \/ Raise(j) \/ LoseWorker(j) \/ TimeLimit(j)

------------------------------------------------------------------------------
(* vector_tools.py: search_knowledge_base                                  *)

\* The first n rows in an order.
Found(order, n) == Top(Only(order, rows), n)

DenseSearch ==
  /\ search.pc = "idle"
  /\ \E k \in TopKs :
       search' = [Idle EXCEPT !.pc = "sparse", !.top_k = k,
                              !.dense = Found(query.dense, DENSE_TOP_N)]
  /\ UNCHANGED <<files, rows, sync, query, ranking, edits, faults>>

\* Without the query's vector there is no search.  A dense search that fails
\* is caught, but nobody rolls back, and the sparse one fails in the aborted
\* transaction: the answer is empty either way.
DenseFails ==
  /\ search.pc = "idle" /\ Fault
  /\ search' = [Idle EXCEPT !.pc = "answered"]
  /\ UNCHANGED <<files, rows, sync, query, ranking, edits>>

\* The second search and the fusion; if it fails, the first still counts.
\* Without a candidate the answer is empty.
SparseSearch ==
  /\ search.pc = "sparse"
  /\ \E sparse \in {Found(query.sparse, SPARSE_TOP_N), <<>>} :
       /\ IF sparse = Found(query.sparse, SPARSE_TOP_N) THEN UNCHANGED faults ELSE Fault
       /\ \E fused \in Fusions(search.dense, sparse) :
            search' = [search EXCEPT !.pc = IF fused = <<>> THEN "answered" ELSE "rerank",
                                     !.sparse = sparse,
                                     !.candidates = Top(fused, FINAL_TOP_N)]
  /\ UNCHANGED <<files, rows, sync, query, ranking, edits>>

\* A cached ranking orders the candidates it names, for any top_k.
RerankHit ==
  /\ search.pc = "rerank" /\ ranking # NoRanking
  /\ search' = [search EXCEPT
       !.pc = "answered", !.hit = TRUE,
       !.context = BuildContext(Only(ranking, Range(search.candidates)))]
  /\ UNCHANGED <<files, rows, sync, query, ranking, edits, faults>>

\* Otherwise, or if Redis fails, the best top_k are taken, and cached.
RerankMiss ==
  /\ search.pc = "rerank"
  /\ IF ranking = NoRanking THEN UNCHANGED faults ELSE Fault
  /\ search' = [search EXCEPT !.pc = "store"]
  /\ UNCHANGED <<files, rows, sync, query, ranking, edits>>

StoreRanking ==
  LET best == Top(search.candidates, search.top_k) IN
  /\ search.pc = "store"
  /\ \/ ranking' = best /\ UNCHANGED faults
     \/ Fault /\ UNCHANGED ranking
  /\ search' = [search EXCEPT !.pc = "answered", !.context = BuildContext(best)]
  /\ UNCHANGED <<files, rows, sync, query, edits>>

Return ==
  /\ search.pc = "answered"
  /\ search' = Idle
  /\ UNCHANGED <<files, rows, sync, query, ranking, edits, faults>>

Expire ==
  /\ ranking # NoRanking
  /\ ranking' = NoRanking
  /\ UNCHANGED <<files, rows, sync, query, search, edits, faults>>

Search ==
  DenseSearch \/ DenseFails \/ SparseSearch \/ RerankHit \/ RerankMiss \/ StoreRanking \/ Return \/ Expire

------------------------------------------------------------------------------

\* Somebody updates a document.
Edit ==
  /\ edits < MaxEdits
  /\ edits' = edits + 1
  /\ \E f \in Files, doc \in Documents : files' = [files EXCEPT ![f] = doc]
  /\ UNCHANGED <<rows, sync, query, ranking, search, faults>>

Next == Edit \/ Search \/ \E j \in Syncs : Sync(j)

Spec == Init /\ [][Next]_vars

------------------------------------------------------------------------------

\* The rows that wait for a commit are those counted since the last one.
PendingCounted(j) ==
  LET l == sync[j].local IN
  Len(l.pending) = CASE sync[j].pc = "commit" -> BATCH
                     [] sync[j].pc \in {"index", "final"} -> l.new % BATCH
                     [] OTHER -> 0

\* Types of the variables.
TypeOK ==
  /\ files \in [Files -> Documents]
  /\ \A x \in rows : x \in Chunks
  /\ \A j \in Syncs :
       /\ sync[j].pc \in {"queued", "embed", "hashes", "index", "commit", "final",
                          "done", "failed", "killed"}
       /\ sync[j].retries \in 0..MaxRetries
       /\ sync[j].local.chunks \in Seq(Chunks)
       /\ sync[j].local.next \in 1..(Len(sync[j].local.chunks) + 1)
       /\ sync[j].local.new \in 0..Len(sync[j].local.chunks)
       /\ PendingCounted(j)
  /\ ranking = NoRanking \/ ranking \in Seq(Chunks)
  /\ query \in Queries
  /\ search.pc \in {"idle", "sparse", "rerank", "store", "answered"}
  /\ edits \in 0..MaxEdits /\ faults \in 0..MaxFaults

\* Whatever the files are edited to, an execution that has just read them
\* chunks them well: nothing lost or out of order, no paragraph cut without
\* need (chunker.py:4-8).
FilesAreWellChunked ==
  (\E j \in Syncs : sync[j].pc = "embed") =>
    \A f \in Files : WellChunked(files[f], ChunkDocument(files[f]))

\* The chunks an execution has gone past and that are not in the table.
Missing(j) ==
  {i \in 1..(sync[j].local.next - 1) : sync[j].local.chunks[i] \notin rows}

\* "Makes the pipeline safe to re-run" (indexer.py:6): an execution is ahead
\* of the table by what it has not committed yet, by a batch for each failure
\* it reports, and by less than a batch if its final commit failed.
LossesAreBounded ==
  \A j \in Syncs :
    LET l == sync[j].local IN
    Cardinality(Missing(j)) <= (IF Running(j) THEN Len(l.pending) ELSE 0)
                                 + BATCH * l.failed + (IF l.lost THEN BATCH - 1 ELSE 0)

\* An answer that was not taken from the cache is the best that fits: a
\* chunk left out does not beat one that is in, and only the last block may
\* pass the budget.  An answer never shows what its own search did not find.
AnswerIsBestThatFits ==
  search.pc = "answered" =>
    /\ Range(search.context) \subseteq Range(search.candidates)
    /\ search.context # <<>> =>
         ContextTokens(Top(search.context, Len(search.context) - 1)) <= MAX_CONTEXT_TOKENS
    /\ ~search.hit =>
         \A x \in Range(search.context),
            y \in (Range(search.dense) \cup Range(search.sparse)) \ Range(search.context) :
           ~Beats(y, x, search.dense, search.sparse)

==============================================================================

------------------------ MODULE KnowledgeBaseProofs ------------------------
(***************************************************************************)
(* What KnowledgeBase keeps, for any files, edits, batch size, queries and *)
(* number of messages, whatever fails, races or is delivered again:        *)
(*   LossesBounded        what an execution of the sync lost, it reports;  *)
(*   FilesChunkedWell     every document is chunked well;                  *)
(*   AnswersAreBest       an answer is the best that fits;                 *)
(*   KnowledgeTypeCorrect the types, with the count of the rows to commit. *)
(*                                                                         *)
(* The chunker and the searches compute over sequences of any length. What *)
(* they compute is proved by induction on sets of sequences (SeqInduct),   *)
(* with the laws of the two folds they are written with.                   *)
(***************************************************************************)
EXTENDS KnowledgeBase, FiniteSetTheorems, SequenceTheorems, WellFoundedInduction, TLAPS

------------------------------------------------------------------------------
(* Counting modulo a batch.                                                *)

LEMMA Division ==
  ASSUME NEW n \in Nat, NEW b \in Nat \ {0}
  PROVE  n % b \in 0..(b - 1) /\ n \div b \in Int /\ n = b * (n \div b) + (n % b)
  OBVIOUS

LEMMA QuotientOrders ==
  ASSUME NEW b \in Nat \ {0}, NEW q1 \in Int, NEW q2 \in Int, q1 < q2,
         NEW r1 \in 0..(b - 1), NEW r2 \in 0..(b - 1)
  PROVE  b * q1 + r1 < b * q2 + r2
  <1> DEFINE d == q2 - q1 - 1
  <1>1. d \in Nat /\ q2 = q1 + 1 + d  OBVIOUS
  <1>2. b * q2 = b * q1 + b + b * d  BY <1>1
  <1>3. b * d \in Nat  BY <1>1
  <1> HIDE DEF d
  <1>4. b * q1 \in Int /\ b * q2 \in Int  OBVIOUS
  <1> QED  BY <1>2, <1>3, <1>4

LEMMA RemainderUnique ==
  ASSUME NEW b \in Nat \ {0}, NEW q1 \in Int, NEW q2 \in Int,
         NEW r1 \in 0..(b - 1), NEW r2 \in 0..(b - 1), b * q1 + r1 = b * q2 + r2
  PROVE  r1 = r2
  <1>1. b * q1 \in Int /\ b * q2 \in Int  OBVIOUS
  <1>2. ~(q1 < q2)  BY QuotientOrders, <1>1
  <1>3. ~(q2 < q1)  BY QuotientOrders, <1>1
  <1>4. q1 = q2  BY <1>2, <1>3
  <1> QED  BY <1>1, <1>4

\* One more either fills the batch or is one more in it.
LEMMA RemainderOfNext ==
  ASSUME NEW n \in Nat, NEW b \in Nat \ {0}
  PROVE  IF (n + 1) % b = 0 THEN (n % b) + 1 = b ELSE (n + 1) % b = (n % b) + 1
  <1> DEFINE q == n \div b
             r == n % b
             p == (n + 1) \div b
             s == (n + 1) % b
  <1>1. q \in Int /\ r \in 0..(b - 1) /\ n = b * q + r  BY Division
  <1>2. p \in Int /\ s \in 0..(b - 1) /\ n + 1 = b * p + s  BY Division
  <1>3. b * q \in Int /\ b * p \in Int  BY <1>1, <1>2
  <1> HIDE DEF q, r, p, s
  <1>4. CASE r + 1 = b
    <2>1. n + 1 = b * (q + 1) + 0  BY <1>1, <1>3, <1>4
    <2>2. s = 0  BY <1>1, <1>2, <2>1, RemainderUnique
    <2> QED  BY <1>4, <2>2 DEF r, s
  <1>5. CASE r + 1 < b
    <2>1. n + 1 = b * q + (r + 1)  BY <1>1, <1>3
    <2>2. s = r + 1  BY <1>1, <1>2, <1>5, <2>1, RemainderUnique
    <2>3. s # 0  BY <1>1, <2>2
    <2> QED  BY <2>2, <2>3 DEF r, s
  <1> QED  BY <1>1, <1>4, <1>5

------------------------------------------------------------------------------
(* The invariant of one execution x, when R is in the table.               *)

Past(l) == 1..(l.next - 1)

Passed(l) == {l.chunks[i] : i \in Past(l)}

\* The chunks it has gone past and that are not in the table.
Behind(l, R) == {i \in Past(l) : l.chunks[i] \notin R}

Reported(l) == BATCH * l.failed + (IF l.lost THEN BATCH - 1 ELSE 0)

\* The chunks at the positions P wait for the next commit, and what else is
\* behind is reported.
Accounted(l, P, R) ==
  /\ P \subseteq Past(l)
  /\ Cardinality(P) = Len(l.pending)
  /\ \A i \in P : l.chunks[i] \in Range(l.pending)
  /\ Cardinality(Behind(l, R) \ P) <= Reported(l)

Shape(x) ==
  /\ DOMAIN x = {"pc", "retries", "local"}
  /\ DOMAIN x.local = {"chunks", "hashes", "next", "pending", "new", "failed", "lost"}
  /\ x.local.next \in Nat \ {0}
  /\ x.local.new \in Nat
  /\ x.local.failed \in Nat
  /\ x.local.lost \in BOOLEAN
  /\ x.local.pending \in Seq(Passed(x.local))

\* How many wait where.
Waiting(x) ==
  /\ x.pc = "commit" => Len(x.local.pending) = BATCH /\ x.local.new % BATCH = 0
  /\ x.pc \in {"index", "final"} => Len(x.local.pending) = x.local.new % BATCH
  /\ x.pc \notin {"index", "commit", "final"} => x.local.pending = <<>>
  /\ x.pc \in {"embed", "hashes"} => x.local.new = 0

JobOK(x, R) ==
  /\ Shape(x)
  /\ Waiting(x)
  /\ x.local.hashes \subseteq R
  /\ x.local.lost => x.pc = "done"
  /\ \E P : Accounted(x.local, P, R)

JobsOK == DOMAIN sync = Syncs /\ \A j \in Syncs : JobOK(sync[j], rows)

\* A union is no larger than its parts together.
LEMMA UnionBound ==
  ASSUME NEW S, NEW T, IsFiniteSet(S), IsFiniteSet(T)
  PROVE  /\ IsFiniteSet(S \cup T)
         /\ {Cardinality(S), Cardinality(T), Cardinality(S \cup T)} \subseteq Nat
         /\ Cardinality(S \cup T) <= Cardinality(S) + Cardinality(T)
  <1>1. IsFiniteSet(S \cup T) /\ IsFiniteSet(S \cap T)  BY FS_Union, FS_Intersection
  <1>2. /\ Cardinality(S) \in Nat /\ Cardinality(T) \in Nat
        /\ Cardinality(S \cup T) \in Nat /\ Cardinality(S \cap T) \in Nat
    BY <1>1, FS_CardinalityType
  <1>3. Cardinality(S \cup T) = Cardinality(S) + Cardinality(T) - Cardinality(S \cap T)
    BY FS_Union
  <1> QED  BY <1>1, <1>2, <1>3

\* What Append does to the elements of a sequence.
LEMMA AppendRange ==
  ASSUME NEW S, NEW seq \in Seq(S), NEW e \in S
  PROVE  /\ Append(seq, e) \in Seq(S)
         /\ Len(Append(seq, e)) = Len(seq) + 1
         /\ Range(Append(seq, e)) = Range(seq) \cup {e}
  <1> DEFINE t == Append(seq, e)
  <1>1. /\ t \in Seq(S) /\ Len(t) = Len(seq) + 1 /\ Len(seq) \in Nat
        /\ \A i \in 1..Len(seq) : t[i] = seq[i]
        /\ t[Len(seq) + 1] = e
    OBVIOUS
  <1>2. DOMAIN t = 1..(Len(seq) + 1) /\ DOMAIN seq = 1..Len(seq)
    BY <1>1
  <1> HIDE DEF t
  <1>3. DOMAIN t = DOMAIN seq \cup {Len(seq) + 1}  BY <1>1, <1>2
  <1>4. Range(t) = Range(seq) \cup {e}
    BY <1>1, <1>2, <1>3 DEF Range
  <1> QED  BY <1>1, <1>4 DEF t

LEMMA BatchIsPositive == BATCH \in Nat \ {0}
  BY KnowledgeAssumption

\* What is behind is finite, and there is less of it when the table grows.
LEMMA BehindFinite ==
  ASSUME NEW l, l.next \in Nat, NEW R, NEW Q, R \subseteq Q, NEW P
  PROVE  /\ IsFiniteSet(Past(l))
         /\ IsFiniteSet(Behind(l, R) \ P)
         /\ Cardinality(Behind(l, R) \ P) \in Nat
         /\ Cardinality(Behind(l, Q) \ P) \in Nat
         /\ Cardinality(Behind(l, Q) \ P) <= Cardinality(Behind(l, R) \ P)
  <1>1. IsFiniteSet(Past(l))  BY FS_Interval DEF Past
  <1>2. Behind(l, R) \ P \subseteq Past(l)  BY DEF Behind
  <1>3. IsFiniteSet(Behind(l, R) \ P)  BY <1>1, <1>2, FS_Subset
  <1>4. Behind(l, Q) \ P \subseteq Behind(l, R) \ P  BY DEF Behind
  <1>5. /\ IsFiniteSet(Behind(l, Q) \ P)
        /\ Cardinality(Behind(l, Q) \ P) <= Cardinality(Behind(l, R) \ P)
    BY <1>3, <1>4, FS_Subset
  <1> QED  BY <1>1, <1>3, <1>5, FS_CardinalityType

LEMMA ReportedType ==
  ASSUME NEW x, Shape(x)
  PROVE  Reported(x.local) \in Nat
  <1>1. BATCH * x.local.failed \in Nat  BY BatchIsPositive DEF Shape
  <1> QED  BY <1>1, BatchIsPositive DEF Reported

\* Rows that others commit only help.
LEMMA RowsGrow ==
  ASSUME NEW x, NEW R, NEW Q, R \subseteq Q, JobOK(x, R)
  PROVE  JobOK(x, Q)
  <1>1. PICK P : Accounted(x.local, P, R)  BY DEF JobOK
  <1>2. Cardinality(Behind(x.local, Q) \ P) <= Reported(x.local)
    <2>1. Shape(x) /\ x.local.next \in Nat  BY DEF JobOK, Shape
    <2>2. /\ Cardinality(Behind(x.local, R) \ P) \in Nat
          /\ Cardinality(Behind(x.local, Q) \ P) \in Nat
          /\ Cardinality(Behind(x.local, Q) \ P) <= Cardinality(Behind(x.local, R) \ P)
      BY <2>1, BehindFinite
    <2>3. Reported(x.local) \in Nat  BY <2>1, ReportedType
    <2> QED  BY <1>1, <2>2, <2>3 DEF Accounted
  <1>3. Accounted(x.local, P, Q)  BY <1>1, <1>2 DEF Accounted
  <1> QED  BY <1>3 DEF JobOK

\* An execution that moves leaves the others as they are.
LEMMA OneJobMoves ==
  ASSUME JobsOK, NEW j \in Syncs, rows \subseteq rows', DOMAIN sync' = Syncs,
         \A i \in Syncs \ {j} : sync'[i] = sync[i],
         JobOK(sync'[j], rows')
  PROVE  JobsOK'
  BY RowsGrow DEF JobsOK

LEMMA GotoMoves ==
  ASSUME JobsOK, NEW j \in Syncs, NEW pc, NEW l, Goto(j, pc, l)
  PROVE  /\ DOMAIN sync' = Syncs
         /\ \A i \in Syncs \ {j} : sync'[i] = sync[i]
         /\ DOMAIN sync'[j] = {"pc", "retries", "local"}
         /\ sync'[j].pc = pc
         /\ sync'[j].local = l
  BY DEF JobsOK, JobOK, Shape, Goto

\* An execution that starts from the beginning owes nothing.
LEMMA NothingBehind ==
  ASSUME NEW x, NEW chunks, NEW R,
         DOMAIN x = {"pc", "retries", "local"},
         x.pc \notin {"index", "commit", "final"},
         x.local = [Locals EXCEPT !.chunks = chunks]
  PROVE  JobOK(x, R)
  <1>1. /\ DOMAIN x.local = {"chunks", "hashes", "next", "pending", "new", "failed", "lost"}
        /\ x.local.next = 1 /\ x.local.new = 0 /\ x.local.failed = 0
        /\ x.local.hashes = {} /\ x.local.lost = FALSE /\ x.local.pending = <<>>
    BY DEF Locals
  <1>2. Past(x.local) = {} /\ x.local.pending = <<>> /\ Reported(x.local) = BATCH * 0
    BY <1>1, BatchIsPositive DEF Past, Reported
  <1>3. Shape(x) /\ Waiting(x)
    <2>1. <<>> \in Seq(Passed(x.local))  OBVIOUS
    <2>2. x.local.pending \in Seq(Passed(x.local))  BY <1>1, <2>1
    <2>3. x.local.next \in Nat \ {0} /\ x.local.new \in Nat /\ x.local.failed \in Nat  BY <1>1
    <2>4. x.local.lost \in BOOLEAN  BY <1>1
    <2>5. Shape(x)  BY <1>1, <2>2, <2>3, <2>4, Zenon DEF Shape
    <2>6. Waiting(x)  BY <1>1 DEF Waiting
    <2> QED  BY <2>5, <2>6
  <1>4. Behind(x.local, R) = {}  BY <1>2 DEF Behind
  <1>5. Accounted(x.local, {}, R)
    BY <1>2, <1>4, FS_EmptySet, BatchIsPositive DEF Accounted
  <1> QED  BY <1>1, <1>3, <1>5 DEF JobOK

------------------------------------------------------------------------------
(* The steps of an execution.                                              *)

LEMMA InitOK == Init => JobsOK
  <1> SUFFICES ASSUME Init  PROVE JobsOK
    OBVIOUS
  <1>1. Locals = [Locals EXCEPT !.chunks = <<>>]  BY DEF Locals
  <1>2. ASSUME NEW j \in Syncs  PROVE JobOK(sync[j], rows)
    <2>1. sync[j] = [pc |-> "queued", retries |-> 0, local |-> Locals]  BY DEF Init
    <2>2. DOMAIN sync[j] = {"pc", "retries", "local"} /\ sync[j].pc = "queued" /\ sync[j].local = Locals
      BY <2>1
    <2> QED  BY <1>1, <2>2, NothingBehind
  <1> QED  BY <1>2 DEF Init, JobsOK

\* The steps that start over, or give up.
LEMMA RestartOK ==
  ASSUME JobsOK, NEW j \in Syncs, Load(j) \/ Raise(j) \/ LoseWorker(j) \/ TimeLimit(j)
  PROVE  JobsOK'
  <1>1. Locals = [Locals EXCEPT !.chunks = <<>>]  BY DEF Locals
  <1>2. UNCHANGED rows  BY DEF Load, Raise, LoseWorker, TimeLimit
  <1>3. ASSUME NEW pc \in {"queued", "embed", "done", "failed", "killed"}, NEW chunks,
               Goto(j, pc, [Locals EXCEPT !.chunks = chunks])
        PROVE  JobsOK'
    <2>1. JobOK(sync'[j], rows')  BY <1>3, GotoMoves, NothingBehind
    <2> QED  BY <1>2, <1>3, <2>1, GotoMoves, OneJobMoves
  <1>4. CASE Load(j)
    <2>1. PICK loaded : Goto(j, IF loaded = {} THEN "done" ELSE "embed",
                             [Locals EXCEPT !.chunks = ChunksOf(loaded)])
      BY <1>4 DEF Load
    <2> QED  BY <1>3, <2>1
  <1>5. CASE LoseWorker(j) \/ TimeLimit(j)
    BY <1>1, <1>3, <1>5 DEF LoseWorker, TimeLimit
  <1>6. CASE Raise(j)
    <2>1. CASE Goto(j, "failed", Locals)  BY <1>1, <1>3, <2>1
    <2> DEFINE y == [pc |-> "queued", retries |-> sync[j].retries + 1, local |-> Locals]
    <2>2. CASE sync' = [sync EXCEPT ![j] = y]
      <3>1. DOMAIN y = {"pc", "retries", "local"} /\ y.pc = "queued" /\ y.local = Locals
        OBVIOUS
      <3> HIDE DEF y
      <3>2. JobOK(y, rows')  BY <1>1, <3>1, NothingBehind
      <3>3. DOMAIN sync' = Syncs /\ sync'[j] = y /\ \A i \in Syncs \ {j} : sync'[i] = sync[i]
        BY <2>2 DEF JobsOK
      <3> QED  BY <1>2, <3>2, <3>3, OneJobMoves
    <2> QED  BY <1>6, <2>1, <2>2 DEF Raise, RetryOrFail
  <1> QED  BY <1>4, <1>5, <1>6

\* What is accounted for does not depend on the rest of the locals.
LEMMA SameAccount ==
  ASSUME NEW x, NEW y, NEW R, Shape(x),
         DOMAIN y = DOMAIN x, DOMAIN y.local = DOMAIN x.local,
         y.local.chunks = x.local.chunks, y.local.next = x.local.next,
         y.local.pending = x.local.pending, y.local.new = x.local.new,
         y.local.failed = x.local.failed, y.local.lost = x.local.lost
  PROVE  Shape(y) /\ \A P : Accounted(x.local, P, R) => Accounted(y.local, P, R)
  <1>1. Past(y.local) = Past(x.local)  BY DEF Past
  <1>2. Passed(y.local) = Passed(x.local) /\ Behind(y.local, R) = Behind(x.local, R)
    BY <1>1 DEF Passed, Behind
  <1>3. Reported(y.local) = Reported(x.local)  BY DEF Reported
  <1> QED  BY <1>1, <1>2, <1>3, Zenon DEF Shape, Accounted

\* Before the loop, and at its end, nothing is gone past.
LEMMA PrepareOK ==
  ASSUME JobsOK, NEW j \in Syncs, Embed(j) \/ FetchHashes(j) \/ LoopEnds(j)
  PROVE  JobsOK'
  <1> DEFINE x == sync[j]
             y == sync'[j]
  <1>1. UNCHANGED rows  BY DEF Embed, FetchHashes, LoopEnds
  <1>2. JobOK(x, rows)  BY DEF JobsOK
  <1>3. DOMAIN x.local = {"chunks", "hashes", "next", "pending", "new", "failed", "lost"}
    BY <1>2 DEF JobOK, Shape
  <1>4. /\ DOMAIN sync' = Syncs
        /\ \A i \in Syncs \ {j} : sync'[i] = sync[i]
        /\ DOMAIN y = {"pc", "retries", "local"}
        /\ y.pc = IF Embed(j) THEN "hashes" ELSE IF FetchHashes(j) THEN "index"
                  ELSE IF x.local.new % BATCH # 0 THEN "final" ELSE "done"
        /\ y.local = IF FetchHashes(j) THEN [x.local EXCEPT !.hashes = rows] ELSE x.local
        /\ x.pc = IF Embed(j) THEN "embed" ELSE IF FetchHashes(j) THEN "hashes" ELSE "index"
    BY GotoMoves DEF Embed, FetchHashes, LoopEnds
  <1>5. /\ DOMAIN y.local = DOMAIN x.local
        /\ y.local.chunks = x.local.chunks /\ y.local.next = x.local.next
        /\ y.local.pending = x.local.pending /\ y.local.new = x.local.new
        /\ y.local.failed = x.local.failed /\ y.local.lost = x.local.lost
        /\ y.local.hashes \in {x.local.hashes, rows}
    BY <1>3, <1>4
  <1>6. Shape(x) /\ DOMAIN y = DOMAIN x  BY <1>2, <1>4 DEF JobOK, Shape
  <1>7. Shape(y) /\ \E P : Accounted(y.local, P, rows)
    BY <1>2, <1>5, <1>6, SameAccount DEF JobOK
  <1>8. ~ x.local.lost  BY <1>2, <1>4 DEF JobOK
  <1>9. Waiting(y)
    <2>1. x.local.new \in Nat /\ Waiting(x)  BY <1>2 DEF JobOK, Shape
    <2>2. 0 % BATCH = 0  BY BatchIsPositive
    <2>3. CASE Embed(j)  BY <1>4, <1>5, <2>1, <2>3 DEF Waiting
    <2>4. CASE ~Embed(j) /\ FetchHashes(j)
      <3>1. x.local.new = 0 /\ x.local.pending = <<>>  BY <1>4, <2>1, <2>4 DEF Waiting
      <3> QED  BY <1>4, <1>5, <2>2, <2>4, <3>1 DEF Waiting
    <2>5. CASE ~Embed(j) /\ ~FetchHashes(j)
      <3>1. Len(x.local.pending) = x.local.new % BATCH  BY <1>4, <2>1, <2>5 DEF Waiting
      <3>2. Len(x.local.pending) = 0 => x.local.pending = <<>>
        BY <1>6 DEF Shape
      <3> QED  BY <1>4, <1>5, <2>5, <3>1, <3>2 DEF Waiting
    <2> QED  BY <2>3, <2>4, <2>5
  <1>10. JobOK(y, rows')
    BY <1>1, <1>2, <1>5, <1>7, <1>8, <1>9 DEF JobOK
  <1> QED  BY <1>1, <1>4, <1>10, OneJobMoves

\* A chunk that is skipped is in the table; one that is added waits.
LEMMA AddOK ==
  ASSUME JobsOK, NEW j \in Syncs, AddChunk(j)
  PROVE  JobsOK'
  <1> DEFINE x == sync[j]
             y == sync'[j]
             l == x.local
             chunk == l.chunks[l.next]
  <1>1. UNCHANGED rows /\ x.pc = "index"  BY DEF AddChunk
  <1>2. JobOK(x, rows)  BY DEF JobsOK
  <1>3. /\ DOMAIN l = {"chunks", "hashes", "next", "pending", "new", "failed", "lost"}
        /\ l.next \in Nat \ {0} /\ l.new \in Nat /\ l.pending \in Seq(Passed(l))
        /\ ~ l.lost /\ l.hashes \subseteq rows /\ Len(l.pending) = l.new % BATCH
    BY <1>1, <1>2 DEF JobOK, Shape, Waiting
  <1>4. PICK P : Accounted(l, P, rows)  BY <1>2 DEF JobOK
  <1>5. CASE chunk \in l.hashes
    <2> DEFINE m == [l EXCEPT !.next = @ + 1]
    <2>1. Goto(j, "index", m)  BY <1>5 DEF AddChunk
    <2>2. /\ DOMAIN m = DOMAIN l /\ m.next = l.next + 1 /\ m.chunks = l.chunks
          /\ m.pending = l.pending /\ m.new = l.new /\ m.failed = l.failed
          /\ m.lost = l.lost /\ m.hashes = l.hashes
      BY <1>3
    <2> HIDE DEF m
    <2>3. y.pc = "index" /\ y.local = m /\ DOMAIN y = {"pc", "retries", "local"}
      BY <2>1, GotoMoves
    <2>4. Past(l) \subseteq Past(m) /\ Past(m) \subseteq Past(l) \cup {l.next}
      BY <1>3, <2>2 DEF Past
    <2>5. Passed(l) \subseteq Passed(m)  BY <2>2, <2>4 DEF Passed
    <2>6. m.pending \in Seq(Passed(m))  BY <1>3, <2>2, <2>5
    <2>7. Shape(y)  BY <1>2, <1>3, <2>2, <2>3, <2>6 DEF JobOK, Shape
    <2>8. Waiting(y)  BY <1>3, <2>2, <2>3 DEF Waiting
    <2>9. Behind(m, rows) = Behind(l, rows)
      BY <1>3, <1>5, <2>2, <2>4 DEF Behind
    <2>10. Accounted(m, P, rows)
      BY <1>4, <2>2, <2>4, <2>9 DEF Accounted, Reported
    <2>11. JobOK(y, rows')
      BY <1>1, <1>3, <2>2, <2>3, <2>7, <2>8, <2>10 DEF JobOK
    <2> QED  BY <1>1, <2>1, <2>11, GotoMoves, OneJobMoves
  <1>6. CASE chunk \notin l.hashes
    <2> DEFINE m == [l EXCEPT !.next = @ + 1, !.pending = Append(@, chunk), !.new = @ + 1]
               pc == IF (l.new + 1) % BATCH = 0 THEN "commit" ELSE "index"
    <2>1. Goto(j, pc, m)  BY <1>6 DEF AddChunk
    <2>2. /\ DOMAIN m = DOMAIN l /\ m.next = l.next + 1 /\ m.chunks = l.chunks
          /\ m.pending = Append(l.pending, chunk) /\ m.new = l.new + 1 /\ m.failed = l.failed
          /\ m.lost = l.lost /\ m.hashes = l.hashes
      BY <1>3
    <2> HIDE DEF m
    <2>3. y.pc = pc /\ y.local = m /\ DOMAIN y = {"pc", "retries", "local"}
      BY <2>1, GotoMoves
    <2>4. Past(m) = Past(l) \cup {l.next} /\ l.next \notin Past(l)
      BY <1>3, <2>2 DEF Past
    <2>5. Passed(m) = Passed(l) \cup {chunk}  BY <2>2, <2>4 DEF Passed
    <2>6. /\ m.pending \in Seq(Passed(m))
          /\ Len(m.pending) = Len(l.pending) + 1
          /\ Range(m.pending) = Range(l.pending) \cup {chunk}
      <3>1. l.pending \in Seq(Passed(m)) /\ chunk \in Passed(m)  BY <1>3, <2>5
      <3> QED  BY <2>2, <3>1, AppendRange
    <2>7. Shape(y)
      <3>1. m.next \in Nat \ {0} /\ m.new \in Nat  BY <1>3, <2>2
      <3>2. m.failed \in Nat /\ m.lost \in BOOLEAN  BY <1>2, <2>2 DEF JobOK, Shape
      <3> QED  BY <1>3, <2>2, <2>3, <2>6, <3>1, <3>2, Zenon DEF Shape
    <2>8. Waiting(y)
      <3>1. IF (l.new + 1) % BATCH = 0 THEN (l.new % BATCH) + 1 = BATCH
            ELSE (l.new + 1) % BATCH = (l.new % BATCH) + 1
        BY <1>3, BatchIsPositive, RemainderOfNext
      <3>2. CASE (l.new + 1) % BATCH = 0
        <4>1. y.pc = "commit" /\ Len(m.pending) = BATCH /\ m.new % BATCH = 0
          BY <1>3, <2>2, <2>3, <2>6, <3>1, <3>2
        <4> QED  BY <2>3, <4>1 DEF Waiting
      <3>3. CASE (l.new + 1) % BATCH # 0
        <4>1. y.pc = "index" /\ Len(m.pending) = m.new % BATCH
          BY <1>3, <2>2, <2>3, <2>6, <3>1, <3>3
        <4> QED  BY <2>3, <4>1 DEF Waiting
      <3> QED  BY <3>2, <3>3
    <2>9. Accounted(m, P \cup {l.next}, rows)
      <3>1. IsFiniteSet(Past(l)) /\ IsFiniteSet(P)
        BY <1>3, <1>4, BehindFinite, FS_Subset DEF Accounted
      <3>2. Cardinality(P \cup {l.next}) = Len(l.pending) + 1
        BY <1>4, <2>4, <3>1, FS_AddElement DEF Accounted
      <3>3. Behind(m, rows) \ (P \cup {l.next}) = Behind(l, rows) \ P
        BY <2>2, <2>4 DEF Behind
      <3>4. Reported(m) = Reported(l)  BY <2>2 DEF Reported
      <3>5. \A i \in P \cup {l.next} : m.chunks[i] \in Range(m.pending)
        BY <1>4, <2>2, <2>6 DEF Accounted
      <3> QED  BY <1>4, <2>4, <2>6, <3>2, <3>3, <3>4, <3>5 DEF Accounted
    <2>10. JobOK(y, rows')
      BY <1>1, <1>3, <2>2, <2>3, <2>7, <2>8, <2>9 DEF JobOK
    <2> QED  BY <1>1, <2>1, <2>10, GotoMoves, OneJobMoves
  <1> QED  BY <1>5, <1>6

\* A commit takes what waits into the table, or drops it and reports that.
LEMMA CommitOK ==
  ASSUME JobsOK, NEW j \in Syncs, Commit(j) \/ CommitFails(j)
  PROVE  JobsOK'
  <1> DEFINE x == sync[j]
             y == sync'[j]
             l == x.local
             m == y.local
  <1>1. JobOK(x, rows) /\ x.pc \in {"commit", "final"}  BY DEF JobsOK, Commit, CommitFails
  <1>2. /\ DOMAIN l = {"chunks", "hashes", "next", "pending", "new", "failed", "lost"}
        /\ l.next \in Nat \ {0} /\ l.new \in Nat /\ l.failed \in Nat /\ l.lost = FALSE
        /\ l.hashes \subseteq rows /\ Len(l.pending) \in Nat
        /\ x.pc = "commit" => Len(l.pending) = BATCH /\ l.new % BATCH = 0
        /\ x.pc = "final" => Len(l.pending) = l.new % BATCH
    BY <1>1 DEF JobOK, Shape, Waiting
  <1>3. PICK P : Accounted(l, P, rows)  BY <1>1 DEF JobOK
  <1>4. rows \subseteq rows'  BY DEF Commit, CommitFails
  <1>5. /\ DOMAIN sync' = Syncs
        /\ \A i \in Syncs \ {j} : sync'[i] = sync[i]
        /\ DOMAIN y = {"pc", "retries", "local"}
        /\ y.pc = IF x.pc = "commit" THEN "index" ELSE "done"
    BY GotoMoves DEF Commit, CommitFails, AfterCommit
  <1>6. /\ DOMAIN m = DOMAIN l /\ m.next = l.next /\ m.chunks = l.chunks
        /\ m.pending = <<>> /\ m.new = l.new /\ m.hashes = l.hashes
        /\ \/ rows' = rows \cup Range(l.pending) /\ m.failed = l.failed /\ m.lost = l.lost
           \/ /\ m.failed = IF x.pc = "commit" THEN l.failed + 1 ELSE l.failed
              /\ m.lost = (x.pc = "final")
    <2>1. CASE Commit(j)
      <3>1. m = [l EXCEPT !.pending = <<>>]  BY <2>1, GotoMoves DEF Commit
      <3> QED  BY <1>2, <2>1, <3>1 DEF Commit
    <2>2. CASE CommitFails(j)
      <3>1. m = [l EXCEPT !.pending = <<>>,
                          !.failed = IF x.pc = "commit" THEN @ + 1 ELSE @,
                          !.lost = @ \/ x.pc = "final"]
        BY <2>2, GotoMoves DEF CommitFails
      <3> QED  BY <1>2, <3>1
    <2> QED  BY <2>1, <2>2
  <1> HIDE DEF y, m
  <1>7. Shape(y)
    <2>1. Past(m) = Past(l) /\ Passed(m) = Passed(l)  BY <1>6 DEF Past, Passed
    <2>2. <<>> \in Seq(Passed(m))  OBVIOUS
    <2>3. m.pending \in Seq(Passed(m))  BY <1>6, <2>2
    <2>4. m.failed \in Nat  BY <1>2, <1>6
    <2>6. m.lost \in BOOLEAN
      <3>1. (x.pc = "final") \in BOOLEAN  OBVIOUS
      <3>2. m.lost = FALSE \/ m.lost = (x.pc = "final")  BY <1>2, <1>6
      <3> QED  BY <3>1, <3>2
    <2>5. m.next \in Nat \ {0} /\ m.new \in Nat  BY <1>2, <1>6
    <2> QED  BY <1>2, <1>5, <1>6, <2>3, <2>4, <2>5, <2>6, Zenon DEF Shape, m
  <1>8. Waiting(y)
    <2>1. Len(<<>>) = 0  OBVIOUS
    <2> QED  BY <1>1, <1>2, <1>5, <1>6, <2>1 DEF Waiting, m
  <1>9. Accounted(m, {}, rows')
    <2>1. Past(m) = Past(l)  BY <1>6 DEF Past
    <2>2. Behind(m, rows') = Behind(l, rows')  BY <1>6, <2>1 DEF Behind
    <2>3. /\ IsFiniteSet(Past(l))
          /\ IsFiniteSet(Behind(l, rows) \ P)
          /\ Cardinality(Behind(l, rows) \ P) \in Nat
          /\ Cardinality(Behind(l, rows') \ {}) \in Nat
      BY <1>2, <1>4, BehindFinite
    <2>4. BATCH * l.failed \in Nat /\ BATCH * (l.failed + 1) = BATCH * l.failed + BATCH
      BY <1>2, BatchIsPositive
    <2>5. Reported(l) = BATCH * l.failed  BY <1>2, <2>4 DEF Reported
    <2>6. IsFiniteSet(P) /\ Cardinality(P) = Len(l.pending)
      BY <1>3, <2>3, FS_Subset DEF Accounted
    <2>7. Cardinality(Behind(l, rows') \ {}) <= Reported(m)
      <3>1. CASE rows' = rows \cup Range(l.pending) /\ m.failed = l.failed /\ m.lost = l.lost
        <4>1. Behind(l, rows') \ {} \subseteq Behind(l, rows) \ P
          BY <1>3, <3>1 DEF Accounted, Behind
        <4>2. Cardinality(Behind(l, rows') \ {}) <= Cardinality(Behind(l, rows) \ P)
          BY <2>3, <4>1, FS_Subset
        <4>3. Reported(m) = Reported(l)  BY <3>1 DEF Reported
        <4> QED  BY <1>3, <2>3, <2>4, <2>5, <4>2, <4>3 DEF Accounted
      <3>2. CASE /\ m.failed = IF x.pc = "commit" THEN l.failed + 1 ELSE l.failed
                 /\ m.lost = (x.pc = "final")
        <4>1. Behind(l, rows') \ {} \subseteq (Behind(l, rows) \ P) \cup P
          BY <1>4 DEF Behind
        <4>2. /\ IsFiniteSet((Behind(l, rows) \ P) \cup P)
              /\ Cardinality((Behind(l, rows) \ P) \cup P)
                   <= Cardinality(Behind(l, rows) \ P) + Len(l.pending)
          BY <2>3, <2>6, UnionBound
        <4>3. Cardinality((Behind(l, rows) \ P) \cup P) \in Nat
          BY <4>2, FS_CardinalityType
        <4>4. Cardinality(Behind(l, rows') \ {}) <= Cardinality(Behind(l, rows) \ P) + Len(l.pending)
          <5>1. Cardinality(Behind(l, rows') \ {}) <= Cardinality((Behind(l, rows) \ P) \cup P)
            BY <4>1, <4>2, FS_Subset
          <5> QED  BY <1>2, <2>3, <4>2, <4>3, <5>1
        <4>5. Cardinality(Behind(l, rows') \ {}) <= BATCH * l.failed + Len(l.pending)
          BY <1>2, <1>3, <2>3, <2>4, <2>5, <4>4 DEF Accounted
        <4>6. CASE x.pc = "commit"
          <5>1. m.failed = l.failed + 1 /\ ~ m.lost  BY <3>2, <4>6
          <5>2. Reported(m) = BATCH * (l.failed + 1)
            BY <2>4, <5>1, BatchIsPositive DEF Reported
          <5> QED  BY <1>2, <2>4, <4>5, <4>6, <5>2
        <4>7. CASE x.pc = "final"
          <5>1. Reported(m) = BATCH * l.failed + (BATCH - 1)
            BY <3>2, <4>7 DEF Reported
          <5>2. Len(l.pending) <= BATCH - 1
            <6>1. l.new % BATCH \in 0..(BATCH - 1)  BY <1>2, BatchIsPositive, Division
            <6> QED  BY <1>2, <4>7, <6>1, BatchIsPositive
          <5> DEFINE c == Cardinality(Behind(l, rows') \ {})
                     b == BATCH * l.failed
                     n == Len(l.pending)
          <5>3. c \in Nat /\ b \in Nat /\ n \in Nat /\ c <= b + n /\ n <= BATCH - 1
            BY <1>2, <2>3, <2>4, <4>5, <5>2
          <5>4. Reported(m) = b + (BATCH - 1)  BY <5>1
          <5> HIDE DEF c, b, n
          <5>5. c <= Reported(m)  BY <5>3, <5>4, BatchIsPositive
          <5> QED  BY <5>5 DEF c
        <4> QED  BY <1>1, <4>6, <4>7
      <3> QED  BY <1>6, <3>1, <3>2
    <2>8. Len(m.pending) = 0  BY <1>6
    <2> QED  BY <2>2, <2>7, <2>8, FS_EmptySet DEF Accounted
  <1>10. m.lost => y.pc = "done"
    BY <1>1, <1>2, <1>5, <1>6
  <1>11. JobOK(y, rows')
    BY <1>2, <1>4, <1>6, <1>7, <1>8, <1>9, <1>10 DEF JobOK, m
  <1> QED  BY <1>4, <1>5, <1>11, OneJobMoves DEF y

LEMMA StepOK == JobsOK /\ [Next]_vars => JobsOK'
  <1> SUFFICES ASSUME JobsOK, [Next]_vars  PROVE JobsOK'
    OBVIOUS
  <1>1. CASE UNCHANGED <<sync, rows>>
    BY <1>1 DEF JobsOK
  <1>2. CASE Edit \/ Search \/ UNCHANGED vars
    BY <1>1, <1>2 DEF Edit, Search, DenseSearch, DenseFails, SparseSearch, RerankHit, RerankMiss,
                      StoreRanking, Return, Expire, vars
  <1>3. ASSUME NEW j \in Syncs, Sync(j)  PROVE JobsOK'
    BY <1>3, RestartOK, PrepareOK, AddOK, CommitOK DEF Sync
  <1> QED  BY <1>2, <1>3 DEF Next

LEMMA JobsAlwaysOK == Spec => []JobsOK
  BY InitOK, StepOK, PTL DEF Spec

\* "Makes the pipeline safe to re-run" (indexer.py:6): what an execution has
\* gone past and the table does not hold is waiting for its next commit, or
\* reported: a batch for every failure, less than one if the last commit
\* failed.
THEOREM LossesBounded == Spec => []LossesAreBounded
  <1>1. ASSUME JobsOK  PROVE LossesAreBounded
    <2> SUFFICES ASSUME NEW j \in Syncs
                 PROVE  Cardinality(Missing(j)) <=
                          (IF Running(j) THEN Len(sync[j].local.pending) ELSE 0)
                            + BATCH * sync[j].local.failed
                            + (IF sync[j].local.lost THEN BATCH - 1 ELSE 0)
      BY DEF LossesAreBounded
    <2> DEFINE x == sync[j]
               l == x.local
               waits == IF Running(j) THEN Len(l.pending) ELSE 0
    <2>1. JobOK(x, rows)  BY <1>1 DEF JobsOK
    <2>2. PICK P : Accounted(l, P, rows)  BY <2>1 DEF JobOK
    <2>3. Missing(j) = Behind(l, rows)  BY DEF Missing, Behind, Past
    <2>4. waits = Len(l.pending)
      <3>1. x.pc \notin {"index", "commit", "final"} => Len(l.pending) = 0
        BY <2>1 DEF JobOK, Waiting
      <3> QED  BY <3>1 DEF Running
    <2>5. /\ IsFiniteSet(P) /\ Cardinality(P) = Len(l.pending)
          /\ IsFiniteSet(Behind(l, rows) \ P)
          /\ Cardinality(Behind(l, rows) \ P) \in Nat
          /\ Cardinality(P) \in Nat
      <3>1. l.next \in Nat  BY <2>1 DEF JobOK, Shape
      <3>2. IsFiniteSet(Past(l)) /\ IsFiniteSet(Behind(l, rows) \ P)
        BY <3>1, BehindFinite
      <3>3. IsFiniteSet(P)  BY <2>2, <3>2, FS_Subset DEF Accounted
      <3> QED  BY <2>2, <3>2, <3>3, FS_CardinalityType DEF Accounted
    <2>6. Behind(l, rows) \subseteq (Behind(l, rows) \ P) \cup P  OBVIOUS
    <2>7. /\ IsFiniteSet((Behind(l, rows) \ P) \cup P)
          /\ Cardinality((Behind(l, rows) \ P) \cup P)
               <= Cardinality(Behind(l, rows) \ P) + Len(l.pending)
      BY <2>5, UnionBound
    <2>8. /\ Cardinality(Behind(l, rows)) <= Cardinality((Behind(l, rows) \ P) \cup P)
          /\ Cardinality(Behind(l, rows)) \in Nat
          /\ Cardinality((Behind(l, rows) \ P) \cup P) \in Nat
      BY <2>6, <2>7, FS_Subset, FS_CardinalityType
    <2>9. Reported(l) \in Nat  BY <2>1, ReportedType DEF JobOK
    <2>10. Cardinality(Missing(j)) <= waits + Reported(l)
      BY <2>2, <2>3, <2>4, <2>5, <2>7, <2>8, <2>9 DEF Accounted
    <2>11. /\ BATCH * l.failed \in Nat
           /\ (IF l.lost THEN BATCH - 1 ELSE 0) \in Nat
      BY <2>1, BatchIsPositive DEF JobOK, Shape
    <2> QED  BY <2>4, <2>5, <2>10, <2>11 DEF Reported
  <1> QED  BY <1>1, JobsAlwaysOK, PTL

------------------------------------------------------------------------------
(* Induction.  A set of numbers has a least one, so the set of the numbers *)
(* that have a property is all of them.                                    *)

Below == {ss \in Nat \X Nat : ss[1] < ss[2]}

LEMMA BelowIsWellFounded == IsWellFoundedOn(Below, Nat)
  BY NatLessThanWellFounded DEF OpToRel, Below

LEMMA LeastOf ==
  ASSUME NEW T, T \subseteq Nat, T # {}
  PROVE  \E m \in T : \A k \in T : m <= k
  <1>1. IsWellFoundedOn(Below, Nat)  BY BelowIsWellFounded
  <1>2. \A x, y \in Nat : x < y => <<x, y>> \in Below  BY DEF Below
  <1>3. PICK x \in T : \A y \in T : ~ (<<y, x>> \in Below)  BY <1>1, WFMin, Zenon
  <1>4. \A y \in T : ~ (y < x)  BY <1>2, <1>3
  <1> QED  BY <1>4

LEMMA Induct ==
  ASSUME NEW S, 0 \in S, \A n \in Nat : n \in S => n + 1 \in S
  PROVE  \A n \in Nat : n \in S
  <1> SUFFICES ASSUME NEW b \in Nat, b \notin S  PROVE FALSE
    OBVIOUS
  <1> DEFINE T == {n \in Nat : n \notin S}
  <1>1. T \subseteq Nat /\ T # {}  OBVIOUS
  <1>2. PICK m \in T : \A k \in T : m <= k  BY <1>1, LeastOf
  <1>3. m \in Nat \ {0} /\ m \notin S  OBVIOUS
  <1>4. m - 1 \in Nat /\ m - 1 \in S  BY <1>2, <1>3
  <1>5. (m - 1) + 1 \in S  BY <1>4
  <1> QED  BY <1>3, <1>5

------------------------------------------------------------------------------
(* Folds.  FoldLeft applies its operator along a recursive function on the *)
(* sets of positions; here the operator is a function F of what was        *)
(* computed before, in A, and of the next element, in X.                   *)

LEMMA MaxInSet ==
  ASSUME NEW n \in Nat, NEW t, t \subseteq 1..n, t # {}
  PROVE  Max(t) \in t /\ \A k \in t : k <= Max(t)
  <1> DEFINE T == {n - k : k \in t}
  <1>1. T \subseteq Nat /\ T # {}
    <2>1. \A k \in t : k \in Nat /\ n - k \in Nat  OBVIOUS
    <2>2. T # {}  OBVIOUS
    <2> QED  BY <2>1, <2>2
  <1>2. PICK m \in T : \A k \in T : m <= k  BY <1>1, LeastOf
  <1>3. PICK b \in t : m = n - b  OBVIOUS
  <1>4. \A k \in t : b >= k
    <2> TAKE k \in t
    <2>1. n - k \in T /\ k \in 1..n /\ b \in 1..n  OBVIOUS
    <2> QED  BY <1>2, <1>3, <2>1
  <1>5. Max(t) \in t /\ \A k \in t : Max(t) >= k  BY <1>3, <1>4, Zenon DEF Max
  <1> QED  BY <1>5

LEMMA MaxOfPrefix ==
  ASSUME NEW n \in Nat, NEW m \in 1..n, NEW t, t \subseteq 1..m, m \in t
  PROVE  Max(t) = m
  <1>1. m \in Nat /\ t # {}  OBVIOUS
  <1>2. Max(t) \in t /\ m <= Max(t)  BY <1>1, MaxInSet
  <1>3. Max(t) \in 1..m  BY <1>2
  <1> QED  BY <1>2, <1>3

IsIteration(h, n, base, F, s) ==
  \A t \in SUBSET (1..n) :
    h[t] = IF t = {} THEN base ELSE F[<<h[t \ {Max(t)}], s[Max(t)]>>]

LEMMA IterationExists ==
  ASSUME NEW A, NEW base \in A, NEW X, NEW F \in [A \X X -> A], NEW n \in Nat, NEW s \in [1..n -> X]
  PROVE  \E h \in [SUBSET (1..n) -> A] : IsIteration(h, n, base, F, s)
  <1> DEFINE Has(m) == \E h \in [SUBSET (1..m) -> A] : IsIteration(h, m, base, F, s)
             S == {m \in Nat : m <= n => Has(m)}
  <1>1. 0 \in S
    <2>1. SUBSET (1..0) = {{}}  OBVIOUS
    <2>2. [t \in {{}} |-> base] \in [SUBSET (1..0) -> A]  BY <2>1
    <2>3. IsIteration([t \in {{}} |-> base], 0, base, F, s)  BY <2>1 DEF IsIteration
    <2> QED  BY <2>2, <2>3
  <1>2. ASSUME NEW m \in Nat, m \in S  PROVE m + 1 \in S
    <2> HIDE DEF Has
    <2> SUFFICES ASSUME m + 1 <= n  PROVE Has(m + 1)
      OBVIOUS
    <2>0. Has(m)  BY <1>2
    <2>1. PICK h \in [SUBSET (1..m) -> A] : IsIteration(h, m, base, F, s)
      BY <2>0 DEF Has
    <2> DEFINE k == m + 1
               g == [t \in SUBSET (1..k) |-> IF k \in t THEN F[<<h[t \ {k}], s[k]>>] ELSE h[t]]
    <2>2. k \in 1..n /\ s[k] \in X  OBVIOUS
    <2>3. \A t \in SUBSET (1..k) : t \ {k} \in SUBSET (1..m)  OBVIOUS
    <2>4. \A t \in SUBSET (1..k) : k \notin t => t \in SUBSET (1..m)  OBVIOUS
    <2> HIDE DEF k
    <2>5. \A t \in SUBSET (1..k) : g[t] \in A
      BY <2>2, <2>3, <2>4
    <2>6. g \in [SUBSET (1..k) -> A]  BY <2>5
    <2>7. ASSUME NEW t \in SUBSET (1..k)
          PROVE  g[t] = IF t = {} THEN base ELSE F[<<g[t \ {Max(t)}], s[Max(t)]>>]
      <3>1. CASE k \in t
        <4>1. Max(t) = k  BY <2>2, <3>1, MaxOfPrefix
        <4>2. t \ {k} \in SUBSET (1..k) /\ k \notin t \ {k}  OBVIOUS
        <4>3. g[t \ {k}] = h[t \ {k}]  BY <4>2
        <4> QED  BY <3>1, <4>1, <4>3
      <3>2. CASE k \notin t
        <4>1. t \in SUBSET (1..m)  BY <2>4, <3>2
        <4>2. t \ {Max(t)} \in SUBSET (1..k) /\ k \notin t \ {Max(t)}  BY <3>2
        <4>3. g[t] = h[t] /\ g[t \ {Max(t)}] = h[t \ {Max(t)}]  BY <3>2, <4>2
        <4>4. h[t] = IF t = {} THEN base ELSE F[<<h[t \ {Max(t)}], s[Max(t)]>>]
          BY <2>1, <4>1 DEF IsIteration
        <4> QED  BY <4>3, <4>4
      <3> QED  BY <3>1, <3>2
    <2> HIDE DEF g
    <2>8. IsIteration(g, k, base, F, s)  BY <2>7 DEF IsIteration
    <2> QED  BY <2>6, <2>8 DEF k, Has
  <1> HIDE DEF S, Has
  <1>3. n \in S  BY <1>1, <1>2, Induct
  <1>4. Has(n)  BY <1>3 DEF S
  <1> QED  BY <1>4 DEF Has

\* What is computed after each element, as long as it is in A.
IsRun(v, s, base, F, A) ==
  /\ v[0] = base
  /\ \A k \in 1..Len(s) : v[k - 1] \in A => v[k] = F[<<v[k - 1], s[k]>>]

\* Runs over the same elements agree, wherever they end.
LEMMA RunsAgree ==
  ASSUME NEW A, NEW base \in A, NEW X, NEW F \in [A \X X -> A],
         NEW s, NEW t, Len(s) \in Nat, Len(t) \in Nat, Len(s) <= Len(t),
         \A k \in 1..Len(s) : s[k] \in X /\ s[k] = t[k],
         NEW v, IsRun(v, s, base, F, A), NEW w, IsRun(w, t, base, F, A)
  PROVE  \A k \in 0..Len(s) : v[k] = w[k] /\ v[k] \in A
  <1> DEFINE Agree(k) == v[k] = w[k] /\ v[k] \in A
             S == {k \in Nat : k <= Len(s) => Agree(k)}
  <1>1. 0 \in S  BY DEF IsRun
  <1>2. ASSUME NEW k \in Nat, k \in S  PROVE k + 1 \in S
    <2> SUFFICES ASSUME k + 1 <= Len(s)  PROVE Agree(k + 1)
      OBVIOUS
    <2>1. Agree(k) /\ k + 1 \in 1..Len(s) /\ k + 1 \in 1..Len(t) /\ (k + 1) - 1 = k
      BY <1>2
    <2>2. v[k + 1] = F[<<v[k], s[k + 1]>>]  BY <2>1 DEF IsRun
    <2>3. w[k + 1] = F[<<w[k], t[k + 1]>>]  BY <2>1 DEF IsRun
    <2>4. s[k + 1] \in X /\ s[k + 1] = t[k + 1]  BY <2>1
    <2> QED  BY <2>1, <2>2, <2>3, <2>4
  <1> HIDE DEF S, Agree
  <1>3. \A k \in Nat : k \in S  BY <1>1, <1>2, Induct
  <1>4. \A k \in 0..Len(s) : Agree(k)  BY <1>3 DEF S
  <1> QED  BY <1>4 DEF Agree

\* What a recursive function on the sets of positions of s computes, as long
\* as it is in A.
IsPartialFold(g, s, base, F, A) ==
  /\ g[{}] = base
  /\ \A t \in SUBSET DOMAIN s :
       t # {} /\ g[t \ {Max(t)}] \in A => g[t] = F[<<g[t \ {Max(t)}], s[Max(t)]>>]

\* The positions that FoldLeft chooses.
LEMMA Positions ==
  ASSUME NEW X, NEW s, s \in Seq(X)
  PROVE  /\ Len(s) \in Nat /\ DOMAIN s = 1..Len(s) /\ s \in [1..Len(s) -> X]
         /\ \A t \in SUBSET DOMAIN s :
              t # {} => Max(t) \in t /\ s[Max(t)] \in X /\ t \ {Max(t)} \in SUBSET DOMAIN s
         /\ \A k \in 1..Len(s) : /\ 1..k \in SUBSET DOMAIN s /\ 1..k # {}
                                 /\ Max(1..k) = k /\ (1..k) \ {k} = 1..(k - 1)
  <1>1. Len(s) \in Nat /\ DOMAIN s = 1..Len(s) /\ s \in [1..Len(s) -> X]  OBVIOUS
  <1>2. \A t \in SUBSET DOMAIN s : t # {} => Max(t) \in t  BY <1>1, MaxInSet
  <1>3. ASSUME NEW k \in 1..Len(s)
        PROVE  /\ 1..k \in SUBSET DOMAIN s /\ 1..k # {}
               /\ Max(1..k) = k /\ (1..k) \ {k} = 1..(k - 1)
    <2>1. k \in 1..k /\ 1..k \subseteq 1..Len(s)  BY <1>1
    <2>2. Max(1..k) = k  BY <1>1, <2>1, MaxOfPrefix
    <2>3. (1..k) \ {k} = 1..(k - 1)  BY <1>1
    <2>4. 1..k \in SUBSET DOMAIN s /\ 1..k # {}  BY <1>1, <2>1
    <2> QED  BY <2>2, <2>3, <2>4
  <1> QED  BY <1>1, <1>2, <1>3

LEMMA PartialFoldRuns ==
  ASSUME NEW A, NEW base, NEW F, NEW X, NEW s, s \in Seq(X), NEW g, IsPartialFold(g, s, base, F, A)
  PROVE  \E v : IsRun(v, s, base, F, A) /\ g[DOMAIN s] = v[Len(s)]
  <1> DEFINE v == [k \in 0..Len(s) |-> g[1..k]]
  <1>1. Len(s) \in Nat /\ DOMAIN s = 1..Len(s) /\ 1..0 = {}  OBVIOUS
  <1>2. \A k \in 1..Len(s) : v[k] = g[1..k] /\ v[k - 1] = g[1..(k - 1)]  BY <1>1
  <1>3. v[0] = base /\ v[Len(s)] = g[DOMAIN s]  BY <1>1 DEF IsPartialFold
  <1> HIDE DEF v
  <1>4. ASSUME NEW k \in 1..Len(s), v[k - 1] \in A
        PROVE  v[k] = F[<<v[k - 1], s[k]>>]
    <2>1. /\ 1..k \in SUBSET DOMAIN s /\ 1..k # {}
          /\ Max(1..k) = k /\ (1..k) \ {k} = 1..(k - 1)
      BY Positions
    <2>2. g[(1..k) \ {Max(1..k)}] = v[k - 1]  BY <1>2, <2>1
    <2>3. g[1..k] = F[<<g[(1..k) \ {Max(1..k)}], s[Max(1..k)]>>]
      BY <1>4, <2>1, <2>2 DEF IsPartialFold
    <2> QED  BY <1>2, <2>1, <2>2, <2>3
  <1>5. IsRun(v, s, base, F, A)  BY <1>3, <1>4 DEF IsRun
  <1> QED  BY <1>3, <1>5

\* The value f of a fold: base for no elements, and one step for each more.
Steps(f, base, F, A, X) ==
  /\ f[<<>>] = base
  /\ \A s \in Seq(X) : f[s] \in A
  /\ \A s \in Seq(X), x \in X : f[Append(s, x)] = F[<<f[s], x>>]

EndsRuns(f, base, F, A, X) ==
  /\ base \in A
  /\ F \in [A \X X -> A]
  /\ \A s \in Seq(X) : \E v : IsRun(v, s, base, F, A) /\ f[s] = v[Len(s)]

LEMMA RunSteps ==
  ASSUME NEW A, NEW base, NEW X, NEW F, NEW f, EndsRuns(f, base, F, A, X)
  PROVE  Steps(f, base, F, A, X)
  <1>0. /\ base \in A
        /\ F \in [A \X X -> A]
        /\ \A s \in Seq(X) : \E v : IsRun(v, s, base, F, A) /\ f[s] = v[Len(s)]
    BY DEF EndsRuns
  <1>1. f[<<>>] = base
    <2>1. <<>> \in Seq(X) /\ Len(<<>>) = 0  OBVIOUS
    <2>2. PICK v : IsRun(v, <<>>, base, F, A) /\ f[<<>>] = v[Len(<<>>)]  BY <1>0, <2>1
    <2> QED  BY <2>1, <2>2 DEF IsRun
  <1>2. \A s \in Seq(X) : f[s] \in A
    <2> TAKE s \in Seq(X)
    <2>1. PICK v : IsRun(v, s, base, F, A) /\ f[s] = v[Len(s)]  BY <1>0
    <2>2. Len(s) \in Nat /\ Len(s) <= Len(s) /\ \A k \in 1..Len(s) : s[k] \in X /\ s[k] = s[k]
      OBVIOUS
    <2>3. \A k \in 0..Len(s) : v[k] = v[k] /\ v[k] \in A  BY <1>0, <2>1, <2>2, RunsAgree, Zenon
    <2> QED  BY <2>1, <2>2, <2>3
  <1>3. ASSUME NEW s \in Seq(X), NEW x \in X
        PROVE  f[Append(s, x)] = F[<<f[s], x>>]
    <2>0. Append(s, x) \in Seq(X)  OBVIOUS
    <2>1. PICK t \in Seq(X) : t = Append(s, x)  BY <2>0
    <2>2. /\ Len(s) \in Nat /\ Len(t) = Len(s) + 1
          /\ \A k \in 1..Len(s) : s[k] \in X /\ s[k] = t[k]
          /\ t[Len(s) + 1] = x
      BY <2>1
    <2>3. PICK v : IsRun(v, s, base, F, A) /\ f[s] = v[Len(s)]  BY <1>0
    <2>4. PICK w : IsRun(w, t, base, F, A) /\ f[t] = w[Len(t)]  BY <1>0
    <2>5. Len(t) \in Nat /\ Len(s) <= Len(t)  BY <2>2
    <2>6. \A k \in 0..Len(s) : v[k] = w[k] /\ v[k] \in A
      BY <1>0, <2>2, <2>3, <2>4, <2>5, RunsAgree
    <2>7. Len(s) \in 0..Len(s) /\ Len(t) \in 1..Len(t) /\ Len(t) - 1 = Len(s)  BY <2>2
    <2>8. f[s] = w[Len(t) - 1] /\ w[Len(t) - 1] \in A  BY <2>3, <2>6, <2>7
    <2>9. w[Len(t)] = F[<<w[Len(t) - 1], t[Len(t)]>>]  BY <2>4, <2>7, <2>8 DEF IsRun
    <2> QED  BY <2>1, <2>2, <2>4, <2>8, <2>9
  <1> QED  BY <1>1, <1>2, <1>3 DEF Steps

IsFold(f, base, F, A, X) ==
  /\ base \in A
  /\ F \in [A \X X -> A]
  /\ \A s \in Seq(X) : \E g : IsPartialFold(g, s, base, F, A) /\ f[s] = g[DOMAIN s]

LEMMA FoldSteps ==
  ASSUME NEW A, NEW base, NEW X, NEW F, NEW f, IsFold(f, base, F, A, X)
  PROVE  Steps(f, base, F, A, X)
  <1>1. ASSUME NEW s \in Seq(X)
        PROVE  \E v : IsRun(v, s, base, F, A) /\ f[s] = v[Len(s)]
    <2>1. PICK g : IsPartialFold(g, s, base, F, A) /\ f[s] = g[DOMAIN s]  BY DEF IsFold
    <2> QED  BY <2>1, PartialFoldRuns
  <1>2. EndsRuns(f, base, F, A, X)  BY <1>1 DEF IsFold, EndsRuns
  <1> QED  BY <1>2, RunSteps

\* A recursive definition by the steps of F has a solution.
Solves(h, s, base, F, A, X) ==
  /\ h \in [SUBSET DOMAIN s -> A]
  /\ h[{}] = base
  /\ \A t \in SUBSET DOMAIN s :
       t # {} => /\ h[t \ {Max(t)}] \in A /\ s[Max(t)] \in X
                 /\ h[t] = F[<<h[t \ {Max(t)}], s[Max(t)]>>]

LEMMA FoldSolvable ==
  ASSUME NEW A, NEW base, base \in A, NEW X, NEW F, F \in [A \X X -> A], NEW s, s \in Seq(X)
  PROVE  \E h : Solves(h, s, base, F, A, X)
  <1>1. PICK h \in [SUBSET (1..Len(s)) -> A] : IsIteration(h, Len(s), base, F, s)
    BY Positions, IterationExists
  <1>2. DOMAIN s = 1..Len(s)  OBVIOUS
  <1>3. h[{}] = base  BY <1>1 DEF IsIteration
  <1>4. ASSUME NEW t \in SUBSET DOMAIN s, t # {}
        PROVE  /\ h[t \ {Max(t)}] \in A /\ s[Max(t)] \in X
               /\ h[t] = F[<<h[t \ {Max(t)}], s[Max(t)]>>]
    <2>1. t \ {Max(t)} \in SUBSET (1..Len(s)) /\ s[Max(t)] \in X  BY <1>2, <1>4, Positions
    <2> QED  BY <1>1, <1>2, <1>4, <2>1 DEF IsIteration
  <1> QED  BY <1>1, <1>2, <1>3, <1>4 DEF Solves

------------------------------------------------------------------------------
(* What the folds of RagAlgorithms compute, element by element.            *)

Paragraphs == Seq(Sentences)

LEMMA ParaTokensLaw ==
  /\ ParaTokens(<<>>) = 0
  /\ \A s \in Seq(Sentences) : ParaTokens(s) \in Nat
  /\ \A s \in Seq(Sentences), x \in Sentences : ParaTokens(Append(s, x)) = ParaTokens(s) + Tokens[x]
  <1> DEFINE X == Sentences
             F == [q \in Nat \X X |-> q[1] + Tokens[q[2]]]
             f == [s \in Seq(X) |-> ParaTokens(s)]
  <1>1. 0 \in Nat /\ F \in [Nat \X X -> Nat]  BY ParametersAssumption
  <1>2. \A a \in Nat, x \in X : F[<<a, x>>] = a + Tokens[x]  OBVIOUS
  <1>3. \A s \in Seq(X) : f[s] = ParaTokens(s)  OBVIOUS
  <1> HIDE DEF F, f
  <1>4. ASSUME NEW s \in Seq(X)
        PROVE  \E g : IsPartialFold(g, s, 0, F, Nat) /\ f[s] = g[DOMAIN s]
    <2> DEFINE Step(h) == [t \in SUBSET DOMAIN s |->
                 IF t = {} THEN 0 ELSE h[t \ {Max(t)}] + Tokens[s[Max(t)]]]
    <2>1. PICK h : Solves(h, s, 0, F, Nat, X)
      BY <1>1, FoldSolvable
    <2>2. h = Step(h)
      <3>1. \A t \in SUBSET DOMAIN s :
              h[t] = IF t = {} THEN 0 ELSE h[t \ {Max(t)}] + Tokens[s[Max(t)]]
        BY <1>2, <2>1 DEF Solves
      <3> QED  BY <2>1, <3>1 DEF Solves
    <2>3. PICK g : g = Step(g) /\ ParaTokens(s) = g[DOMAIN s]
      <3>1. ParaTokens(s) = (CHOOSE g : g = Step(g))[DOMAIN s]
        BY DEF ParaTokens, FoldLeft, MapThenFoldSet
      <3> QED  BY <2>2, <3>1
    <2>4. \A t \in SUBSET DOMAIN s : t # {} => s[Max(t)] \in X  BY Positions
    <2>5. IsPartialFold(g, s, 0, F, Nat)
      BY <1>2, <2>3, <2>4 DEF IsPartialFold
    <2> QED  BY <1>3, <2>3, <2>5
  <1>5. IsFold(f, 0, F, Nat, X)  BY <1>1, <1>4 DEF IsFold
  <1>6. Steps(f, 0, F, Nat, X)  BY <1>5, FoldSteps
  <1>7. <<>> \in Seq(X) /\ \A s \in Seq(X), x \in X : Append(s, x) \in Seq(X)  OBVIOUS
  <1>8. \A s \in Seq(X) : ParaTokens(s) \in Nat  BY <1>3, <1>6 DEF Steps
  <1>9. ASSUME NEW s \in Seq(X), NEW x \in X
        PROVE  ParaTokens(Append(s, x)) = ParaTokens(s) + Tokens[x]
    <2>1. f[Append(s, x)] = F[<<f[s], x>>] /\ f[s] \in Nat  BY <1>6 DEF Steps
    <2>2. Append(s, x) \in Seq(X)  BY <1>7
    <2> QED  BY <1>2, <1>3, <2>1, <2>2
  <1>10. ParaTokens(<<>>) = 0  BY <1>3, <1>6, <1>7 DEF Steps
  <1> QED  BY <1>8, <1>9, <1>10

LEMMA ChunkTokensLaw ==
  /\ ChunkTokens(<<>>) = 0
  /\ \A s \in Seq(Paragraphs) : ChunkTokens(s) \in Nat
  /\ \A s \in Seq(Paragraphs), x \in Paragraphs : ChunkTokens(Append(s, x)) = ChunkTokens(s) + ParaTokens(x)
  <1> DEFINE X == Paragraphs
             F == [q \in Nat \X X |-> q[1] + ParaTokens(q[2])]
             f == [s \in Seq(X) |-> ChunkTokens(s)]
  <1>1. 0 \in Nat /\ F \in [Nat \X X -> Nat]  BY ParaTokensLaw DEF Paragraphs
  <1>2. \A a \in Nat, x \in X : F[<<a, x>>] = a + ParaTokens(x)  OBVIOUS
  <1>3. \A s \in Seq(X) : f[s] = ChunkTokens(s)  OBVIOUS
  <1> HIDE DEF F, f
  <1>4. ASSUME NEW s \in Seq(X)
        PROVE  \E g : IsPartialFold(g, s, 0, F, Nat) /\ f[s] = g[DOMAIN s]
    <2> DEFINE Step(h) == [t \in SUBSET DOMAIN s |->
                 IF t = {} THEN 0 ELSE h[t \ {Max(t)}] + ParaTokens(s[Max(t)])]
    <2>1. PICK h : Solves(h, s, 0, F, Nat, X)
      BY <1>1, FoldSolvable
    <2>2. h = Step(h)
      <3>1. \A t \in SUBSET DOMAIN s :
              h[t] = IF t = {} THEN 0 ELSE h[t \ {Max(t)}] + ParaTokens(s[Max(t)])
        BY <1>2, <2>1 DEF Solves
      <3> QED  BY <2>1, <3>1 DEF Solves
    <2>3. PICK g : g = Step(g) /\ ChunkTokens(s) = g[DOMAIN s]
      <3>1. ChunkTokens(s) = (CHOOSE g : g = Step(g))[DOMAIN s]
        BY DEF ChunkTokens, FoldLeft, MapThenFoldSet
      <3> QED  BY <2>2, <3>1
    <2>4. \A t \in SUBSET DOMAIN s : t # {} => s[Max(t)] \in X  BY Positions
    <2>5. IsPartialFold(g, s, 0, F, Nat)
      BY <1>2, <2>3, <2>4 DEF IsPartialFold
    <2> QED  BY <1>3, <2>3, <2>5
  <1>5. IsFold(f, 0, F, Nat, X)  BY <1>1, <1>4 DEF IsFold
  <1>6. Steps(f, 0, F, Nat, X)  BY <1>5, FoldSteps
  <1>7. <<>> \in Seq(X) /\ \A s \in Seq(X), x \in X : Append(s, x) \in Seq(X)  OBVIOUS
  <1>8. \A s \in Seq(X) : ChunkTokens(s) \in Nat  BY <1>3, <1>6 DEF Steps
  <1>9. ASSUME NEW s \in Seq(X), NEW x \in X
        PROVE  ChunkTokens(Append(s, x)) = ChunkTokens(s) + ParaTokens(x)
    <2>1. f[Append(s, x)] = F[<<f[s], x>>] /\ f[s] \in Nat  BY <1>6 DEF Steps
    <2>2. Append(s, x) \in Seq(X)  BY <1>7
    <2> QED  BY <1>2, <1>3, <2>1, <2>2
  <1>10. ChunkTokens(<<>>) = 0  BY <1>3, <1>6, <1>7 DEF Steps
  <1> QED  BY <1>8, <1>9, <1>10

LEMMA BlockTokensType == \A chunk \in Seq(Paragraphs) : BlockTokens(chunk) \in Nat
  BY ChunkTokensLaw, ParametersAssumption DEF BlockTokens

LEMMA ContextTokensLaw ==
  /\ ContextTokens(<<>>) = 0
  /\ \A s \in Seq(Seq(Paragraphs)) : ContextTokens(s) \in Nat
  /\ \A s \in Seq(Seq(Paragraphs)), x \in Seq(Paragraphs) : ContextTokens(Append(s, x)) = ContextTokens(s) + BlockTokens(x)
  <1> DEFINE X == Seq(Paragraphs)
             F == [q \in Nat \X X |-> q[1] + BlockTokens(q[2])]
             f == [s \in Seq(X) |-> ContextTokens(s)]
  <1>1. 0 \in Nat /\ F \in [Nat \X X -> Nat]  BY BlockTokensType
  <1>2. \A a \in Nat, x \in X : F[<<a, x>>] = a + BlockTokens(x)  OBVIOUS
  <1>3. \A s \in Seq(X) : f[s] = ContextTokens(s)  OBVIOUS
  <1> HIDE DEF F, f
  <1>4. ASSUME NEW s \in Seq(X)
        PROVE  \E g : IsPartialFold(g, s, 0, F, Nat) /\ f[s] = g[DOMAIN s]
    <2> DEFINE Step(h) == [t \in SUBSET DOMAIN s |->
                 IF t = {} THEN 0 ELSE h[t \ {Max(t)}] + BlockTokens(s[Max(t)])]
    <2>1. PICK h : Solves(h, s, 0, F, Nat, X)
      BY <1>1, FoldSolvable
    <2>2. h = Step(h)
      <3>1. \A t \in SUBSET DOMAIN s :
              h[t] = IF t = {} THEN 0 ELSE h[t \ {Max(t)}] + BlockTokens(s[Max(t)])
        BY <1>2, <2>1 DEF Solves
      <3> QED  BY <2>1, <3>1 DEF Solves
    <2>3. PICK g : g = Step(g) /\ ContextTokens(s) = g[DOMAIN s]
      <3>1. ContextTokens(s) = (CHOOSE g : g = Step(g))[DOMAIN s]
        BY DEF ContextTokens, FoldLeft, MapThenFoldSet
      <3> QED  BY <2>2, <3>1
    <2>4. \A t \in SUBSET DOMAIN s : t # {} => s[Max(t)] \in X  BY Positions
    <2>5. IsPartialFold(g, s, 0, F, Nat)
      BY <1>2, <2>3, <2>4 DEF IsPartialFold
    <2> QED  BY <1>3, <2>3, <2>5
  <1>5. IsFold(f, 0, F, Nat, X)  BY <1>1, <1>4 DEF IsFold
  <1>6. Steps(f, 0, F, Nat, X)  BY <1>5, FoldSteps
  <1>7. <<>> \in Seq(X) /\ \A s \in Seq(X), x \in X : Append(s, x) \in Seq(X)  OBVIOUS
  <1>8. \A s \in Seq(X) : ContextTokens(s) \in Nat  BY <1>3, <1>6 DEF Steps
  <1>9. ASSUME NEW s \in Seq(X), NEW x \in X
        PROVE  ContextTokens(Append(s, x)) = ContextTokens(s) + BlockTokens(x)
    <2>1. f[Append(s, x)] = F[<<f[s], x>>] /\ f[s] \in Nat  BY <1>6 DEF Steps
    <2>2. Append(s, x) \in Seq(X)  BY <1>7
    <2> QED  BY <1>2, <1>3, <2>1, <2>2
  <1>10. ContextTokens(<<>>) = 0  BY <1>3, <1>6, <1>7 DEF Steps
  <1> QED  BY <1>8, <1>9, <1>10

\* Only keeps to the list and to the set.
LEMMA OnlyLaw ==
  ASSUME NEW S, NEW Y
  PROVE
  /\ Only(<<>>, S) = <<>>
  /\ \A s \in Seq(Y) : Only(s, S) \in Seq(Y \cap S)
  /\ \A s \in Seq(Y), x \in Y : Only(Append(s, x), S) = (IF x \in S THEN Append(Only(s, S), x) ELSE Only(s, S))
  <1> DEFINE X == Y
             F == [q \in Seq(Y \cap S) \X X |-> (IF q[2] \in S THEN Append(q[1], q[2]) ELSE q[1])]
             f == [s \in Seq(X) |-> Only(s, S)]
  <1>1. <<>> \in Seq(Y \cap S) /\ F \in [Seq(Y \cap S) \X X -> Seq(Y \cap S)]  OBVIOUS
  <1>2. \A a \in Seq(Y \cap S), x \in X : F[<<a, x>>] = (IF x \in S THEN Append(a, x) ELSE a)  OBVIOUS
  <1>3. \A s \in Seq(X) : f[s] = Only(s, S)  OBVIOUS
  <1> HIDE DEF F, f
  <1>4. ASSUME NEW s \in Seq(X)
        PROVE  \E g : IsPartialFold(g, s, <<>>, F, Seq(Y \cap S)) /\ f[s] = g[DOMAIN s]
    <2> DEFINE Step(h) == [t \in SUBSET DOMAIN s |->
                 IF t = {} THEN <<>> ELSE (IF s[Max(t)] \in S THEN Append(h[t \ {Max(t)}], s[Max(t)]) ELSE h[t \ {Max(t)}])]
    <2>1. PICK h : Solves(h, s, <<>>, F, Seq(Y \cap S), X)
      BY <1>1, FoldSolvable
    <2>2. h = Step(h)
      <3>1. \A t \in SUBSET DOMAIN s :
              h[t] = IF t = {} THEN <<>> ELSE (IF s[Max(t)] \in S THEN Append(h[t \ {Max(t)}], s[Max(t)]) ELSE h[t \ {Max(t)}])
        BY <1>2, <2>1 DEF Solves
      <3> QED  BY <2>1, <3>1 DEF Solves
    <2>3. PICK g : g = Step(g) /\ Only(s, S) = g[DOMAIN s]
      <3>1. Only(s, S) = (CHOOSE g : g = Step(g))[DOMAIN s]
        BY DEF Only, FoldLeft, MapThenFoldSet
      <3> QED  BY <2>2, <3>1
    <2>4. \A t \in SUBSET DOMAIN s : t # {} => s[Max(t)] \in X  BY Positions
    <2>5. IsPartialFold(g, s, <<>>, F, Seq(Y \cap S))
      BY <1>2, <2>3, <2>4 DEF IsPartialFold
    <2> QED  BY <1>3, <2>3, <2>5
  <1>5. IsFold(f, <<>>, F, Seq(Y \cap S), X)  BY <1>1, <1>4 DEF IsFold
  <1>6. Steps(f, <<>>, F, Seq(Y \cap S), X)  BY <1>5, FoldSteps
  <1>7. <<>> \in Seq(X) /\ \A s \in Seq(X), x \in X : Append(s, x) \in Seq(X)  OBVIOUS
  <1>8. \A s \in Seq(X) : Only(s, S) \in Seq(Y \cap S)  BY <1>3, <1>6 DEF Steps
  <1>9. ASSUME NEW s \in Seq(X), NEW x \in X
        PROVE  Only(Append(s, x), S) = (IF x \in S THEN Append(Only(s, S), x) ELSE Only(s, S))
    <2>1. f[Append(s, x)] = F[<<f[s], x>>] /\ f[s] \in Seq(Y \cap S)  BY <1>6 DEF Steps
    <2>2. Append(s, x) \in Seq(X)  BY <1>7
    <2> QED  BY <1>2, <1>3, <2>1, <2>2
  <1>10. Only(<<>>, S) = <<>>  BY <1>3, <1>6, <1>7 DEF Steps
  <1> QED  BY <1>8, <1>9, <1>10

\* The buffers of the two levels of the chunker.
Buffers(S, T) == [merged : S, current : T, tokens : Nat]

SentenceBuffers == Buffers(Seq(Paragraphs), Paragraphs)

GatheredSentences(para) == FoldLeft(AddSentence, EmptyBuffer, para)

\* What flushing a buffer and putting an item into it do to its fields.
Buffer(M, C, N) == [merged |-> M, current |-> C, tokens |-> N]

LEMMA BufferFields ==
  ASSUME NEW M, NEW C, NEW N
  PROVE  /\ Buffer(M, C, N).merged = M
         /\ Buffer(M, C, N).current = C
         /\ Buffer(M, C, N).tokens = N
         /\ Flush(Buffer(M, C, N)) = IF C = <<>> THEN Buffer(M, C, N) ELSE Buffer(Append(M, C), <<>>, 0)
         /\ \A item, n : Put(Buffer(M, C, N), item, n) = Buffer(M, Append(C, item), N + n)
  <1>1. Buffer(M, C, N).merged = M /\ Buffer(M, C, N).current = C /\ Buffer(M, C, N).tokens = N
    BY DEF Buffer
  <1>2. ASSUME NEW D  PROVE [EmptyBuffer EXCEPT !.merged = D] = Buffer(D, <<>>, 0)
    BY DEF EmptyBuffer, Buffer
  <1>3. Flush(Buffer(M, C, N)) = IF C = <<>> THEN Buffer(M, C, N) ELSE Buffer(Append(M, C), <<>>, 0)
    BY <1>1, <1>2 DEF Flush
  <1>4. ASSUME NEW item, NEW n
        PROVE  Put(Buffer(M, C, N), item, n) = Buffer(M, Append(C, item), N + n)
    <2>1. PICK D, k : D = Append(C, item) /\ k = N + n  OBVIOUS
    <2>2. [Buffer(M, C, N) EXCEPT !.current = D] = Buffer(M, D, N)  BY DEF Buffer
    <2>3. [Buffer(M, D, N) EXCEPT !.tokens = k] = Buffer(M, D, k)  BY DEF Buffer
    <2>4. Put(Buffer(M, C, N), item, n)
            = [[Buffer(M, C, N) EXCEPT !.current = Append(Buffer(M, C, N).current, item)]
                 EXCEPT !.tokens = Buffer(M, C, N).tokens + n]
      BY <1>1, <2>2, <2>1, <2>3 DEF Put
    <2> QED  BY <1>1, <2>1, <2>2, <2>3, <2>4
  <1> QED  BY <1>1, <1>3, <1>4

LEMMA BufferType ==
  ASSUME NEW S, NEW T
  PROVE  /\ \A M \in S, C \in T, N \in Nat : Buffer(M, C, N) \in Buffers(S, T)
         /\ \A b \in Buffers(S, T) :
              \E M \in S, C \in T, N \in Nat : b = Buffer(M, C, N)
  <1>1. ASSUME NEW b \in Buffers(S, T)
        PROVE  \E M \in S, C \in T, N \in Nat : b = Buffer(M, C, N)
    <2>1. b.merged \in S /\ b.current \in T /\ b.tokens \in Nat
      BY DEF Buffers
    <2>2. b = Buffer(b.merged, b.current, b.tokens)  BY DEF Buffer, Buffers
    <2> QED  BY <2>1, <2>2
  <1> QED  BY <1>1 DEF Buffer, Buffers

LEMMA AddSentenceType ==
  /\ EmptyBuffer \in SentenceBuffers
  /\ \A b \in SentenceBuffers : Flush(b) \in SentenceBuffers
  /\ \A b \in SentenceBuffers, x \in Sentences : AddSentence(b, x) \in SentenceBuffers
  <1>1. EmptyBuffer \in SentenceBuffers
    <2>1. <<>> \in Seq(Paragraphs) /\ <<>> \in Paragraphs /\ 0 \in Nat  BY DEF Paragraphs
    <2> QED  BY <2>1 DEF EmptyBuffer, SentenceBuffers, Buffers
  <1>2. ASSUME NEW b \in SentenceBuffers
        PROVE  Flush(b) \in SentenceBuffers
    <2>1. PICK M \in Seq(Paragraphs), C \in Paragraphs, N \in Nat : b = Buffer(M, C, N)
      BY BufferType DEF SentenceBuffers
    <2>2. Append(M, C) \in Seq(Paragraphs) /\ <<>> \in Paragraphs  BY DEF Paragraphs
    <2>3. Buffer(Append(M, C), <<>>, 0) \in SentenceBuffers  BY <2>2, BufferType DEF SentenceBuffers
    <2> QED  BY <2>1, <2>3, BufferFields
  <1>3. ASSUME NEW b \in SentenceBuffers, NEW x \in Sentences
        PROVE  AddSentence(b, x) \in SentenceBuffers
    <2>1. PICK c \in SentenceBuffers : AddSentence(b, x) = Put(c, x, Tokens[x])
      BY <1>2 DEF AddSentence
    <2>2. PICK M \in Seq(Paragraphs), C \in Paragraphs, N \in Nat : c = Buffer(M, C, N)
      BY BufferType DEF SentenceBuffers
    <2>3. Tokens[x] \in Nat  BY ParametersAssumption
    <2>4. Append(C, x) \in Paragraphs /\ N + Tokens[x] \in Nat  BY <2>3 DEF Paragraphs
    <2>5. Buffer(M, Append(C, x), N + Tokens[x]) \in SentenceBuffers
      BY <2>4, BufferType, Zenon DEF SentenceBuffers
    <2> QED  BY <2>1, <2>2, <2>5, BufferFields
  <1> QED  BY <1>1, <1>2, <1>3

LEMMA GatheredSentencesLaw ==
  /\ GatheredSentences(<<>>) = EmptyBuffer
  /\ \A s \in Seq(Sentences) : GatheredSentences(s) \in SentenceBuffers
  /\ \A s \in Seq(Sentences), x \in Sentences : GatheredSentences(Append(s, x)) = AddSentence(GatheredSentences(s), x)
  <1> DEFINE X == Sentences
             F == [q \in SentenceBuffers \X X |-> AddSentence(q[1], q[2])]
             f == [s \in Seq(X) |-> GatheredSentences(s)]
  <1>1. EmptyBuffer \in SentenceBuffers /\ F \in [SentenceBuffers \X X -> SentenceBuffers]  BY AddSentenceType
  <1>2. \A a \in SentenceBuffers, x \in X : F[<<a, x>>] = AddSentence(a, x)  OBVIOUS
  <1>3. \A s \in Seq(X) : f[s] = GatheredSentences(s)  OBVIOUS
  <1> HIDE DEF F, f
  <1>4. ASSUME NEW s \in Seq(X)
        PROVE  \E g : IsPartialFold(g, s, EmptyBuffer, F, SentenceBuffers) /\ f[s] = g[DOMAIN s]
    <2> DEFINE Step(h) == [t \in SUBSET DOMAIN s |->
                 IF t = {} THEN EmptyBuffer ELSE AddSentence(h[t \ {Max(t)}], s[Max(t)])]
    <2>1. PICK h : Solves(h, s, EmptyBuffer, F, SentenceBuffers, X)
      BY <1>1, FoldSolvable
    <2>2. h = Step(h)
      <3>1. \A t \in SUBSET DOMAIN s :
              h[t] = IF t = {} THEN EmptyBuffer ELSE AddSentence(h[t \ {Max(t)}], s[Max(t)])
        BY <1>2, <2>1 DEF Solves
      <3> QED  BY <2>1, <3>1 DEF Solves
    <2>3. PICK g : g = Step(g) /\ GatheredSentences(s) = g[DOMAIN s]
      <3>1. GatheredSentences(s) = (CHOOSE g : g = Step(g))[DOMAIN s]
        BY DEF GatheredSentences, FoldLeft, MapThenFoldSet
      <3> QED  BY <2>2, <3>1
    <2>4. \A t \in SUBSET DOMAIN s : t # {} => s[Max(t)] \in X  BY Positions
    <2>5. IsPartialFold(g, s, EmptyBuffer, F, SentenceBuffers)
      BY <1>2, <2>3, <2>4 DEF IsPartialFold
    <2> QED  BY <1>3, <2>3, <2>5
  <1>5. IsFold(f, EmptyBuffer, F, SentenceBuffers, X)  BY <1>1, <1>4 DEF IsFold
  <1>6. Steps(f, EmptyBuffer, F, SentenceBuffers, X)  BY <1>5, FoldSteps
  <1>7. <<>> \in Seq(X) /\ \A s \in Seq(X), x \in X : Append(s, x) \in Seq(X)  OBVIOUS
  <1>8. \A s \in Seq(X) : GatheredSentences(s) \in SentenceBuffers  BY <1>3, <1>6 DEF Steps
  <1>9. ASSUME NEW s \in Seq(X), NEW x \in X
        PROVE  GatheredSentences(Append(s, x)) = AddSentence(GatheredSentences(s), x)
    <2>1. f[Append(s, x)] = F[<<f[s], x>>] /\ f[s] \in SentenceBuffers  BY <1>6 DEF Steps
    <2>2. Append(s, x) \in Seq(X)  BY <1>7
    <2> QED  BY <1>2, <1>3, <2>1, <2>2
  <1>10. GatheredSentences(<<>>) = EmptyBuffer  BY <1>3, <1>6, <1>7 DEF Steps
  <1> QED  BY <1>8, <1>9, <1>10

LEMMA FlattenLaw ==
  ASSUME NEW Y
  PROVE  /\ FlattenSeq(<<>>) = <<>>
         /\ \A s \in Seq(Seq(Y)) : FlattenSeq(s) \in Seq(Y)
         /\ \A s \in Seq(Seq(Y)), x \in Seq(Y) : FlattenSeq(Append(s, x)) = FlattenSeq(s) \o x
  <1> DEFINE A == Seq(Y)
             F == [q \in A \X A |-> q[1] \o q[2]]
             f == [s \in Seq(A) |-> FlattenSeq(s)]
  <1>1. <<>> \in A /\ F \in [A \X A -> A]  OBVIOUS
  <1>2. \A a \in A, x \in A : F[<<a, x>>] = a \o x  OBVIOUS
  <1>3. \A s \in Seq(A) : f[s] = FlattenSeq(s)  OBVIOUS
  <1>0. \A x \in A : <<>> \o x = x  OBVIOUS
  <1>4. <<>> \in Seq(A) /\ Len(<<>>) = 0 /\ \A s \in Seq(A), x \in A : Append(s, x) \in Seq(A)
    OBVIOUS
  <1> HIDE DEF F, f, A
  <1>5. ASSUME NEW s \in Seq(A)
        PROVE  \E v : IsRun(v, s, <<>>, F, A) /\ f[s] = v[Len(s)]
    <2>1. Len(s) \in Nat /\ \A i \in 1..Len(s) : s[i] \in A  OBVIOUS
    <2>2. CASE Len(s) = 0
      <3> DEFINE v == [i \in {0} |-> <<>>]
      <3>1. v[0] = <<>> /\ \A k \in 1..0 : FALSE  OBVIOUS
      <3> HIDE DEF v
      <3>2. IsRun(v, s, <<>>, F, A)  BY <2>2, <3>1 DEF IsRun
      <3>3. s = <<>>  BY <2>2
      <3>4. f[s] = <<>>  BY <1>3, <1>4, <3>3 DEF FlattenSeq
      <3> QED  BY <2>2, <3>1, <3>2, <3>4
    <2>3. CASE Len(s) # 0
      <3> DEFINE Step(h) == [i \in 1..Len(s) |-> IF i = 1 THEN s[i] ELSE h[i - 1] \o s[i]]
      <3>1. PICK h : Solves(h, s, <<>>, F, A, A)  BY <1>1, FoldSolvable
      <3> DEFINE w == [i \in 1..Len(s) |-> h[1..i]]
      <3>2. ASSUME NEW i \in 1..Len(s)
            PROVE  /\ h[1..i] = h[1..(i - 1)] \o s[i] /\ h[1..(i - 1)] \in A
                   /\ i = 1 => h[1..(i - 1)] = <<>>
        <4>1. /\ 1..i \in SUBSET DOMAIN s /\ 1..i # {}
              /\ Max(1..i) = i /\ (1..i) \ {i} = 1..(i - 1)
          BY Positions
        <4>2. h[1..(i - 1)] \in A /\ h[1..i] = F[<<h[1..(i - 1)], s[i]>>]
          BY <3>1, <4>1 DEF Solves
        <4>3. i = 1 => 1..(i - 1) = {}  OBVIOUS
        <4> QED  BY <1>2, <2>1, <3>1, <4>2, <4>3 DEF Solves
      <3>3. w = Step(w)
        <4>1. \A i \in 1..Len(s) : w[i] = IF i = 1 THEN s[i] ELSE w[i - 1] \o s[i]
          <5> TAKE i \in 1..Len(s)
          <5>1. CASE i = 1  BY <1>0, <2>1, <3>2, <5>1
          <5>2. CASE i # 1
            <6>1. i - 1 \in 1..Len(s)  BY <2>1, <5>2
            <6> QED  BY <3>2, <5>2, <6>1
          <5> QED  BY <5>1, <5>2
        <4> QED  BY <4>1
      <3>4. PICK g : g = Step(g) /\ FlattenSeq(s) = g[Len(s)]
        <4>1. FlattenSeq(s) = (CHOOSE g : g = Step(g))[Len(s)]  BY <2>3 DEF FlattenSeq
        <4> HIDE DEF w
        <4> QED  BY <3>3, <4>1
      <3> DEFINE v == [i \in 0..Len(s) |-> IF i = 0 THEN <<>> ELSE g[i]]
      <3>8. v[0] = <<>> /\ \A i \in 1..Len(s) : v[i] = g[i]  BY <2>1
      <3> HIDE DEF v
      <3>5. v[0] = <<>> /\ v[Len(s)] = f[s]
        <4>1. Len(s) \in 1..Len(s)  BY <2>1, <2>3
        <4> QED  BY <1>3, <3>4, <3>8, <4>1
      <3>6. ASSUME NEW k \in 1..Len(s), v[k - 1] \in A  PROVE v[k] = F[<<v[k - 1], s[k]>>]
        <4>1. v[k] = g[k] /\ (k # 1 => v[k - 1] = g[k - 1]) /\ (k = 1 => k - 1 = 0)  BY <2>1, <3>8
        <4>2. g[k] = IF k = 1 THEN s[k] ELSE g[k - 1] \o s[k]  BY <3>4
        <4>3. v[k] = v[k - 1] \o s[k]
          <5>1. CASE k = 1
            <6>1. v[k - 1] = <<>> /\ v[k] = s[k] /\ s[k] \in A  BY <2>1, <3>5, <4>1, <4>2, <5>1
            <6> QED  BY <1>0, <6>1
          <5>2. CASE k # 1  BY <4>1, <4>2, <5>2
          <5> QED  BY <5>1, <5>2
        <4> QED  BY <1>2, <2>1, <3>6, <4>3
      <3>7. IsRun(v, s, <<>>, F, A)  BY <3>5, <3>6 DEF IsRun
      <3> QED  BY <3>5, <3>7
    <2> QED  BY <2>2, <2>3
  <1>6. EndsRuns(f, <<>>, F, A, A)  BY <1>1, <1>5 DEF EndsRuns
  <1>7. Steps(f, <<>>, F, A, A)  BY <1>6, RunSteps
  <1>8. \A s \in Seq(A) : FlattenSeq(s) \in A  BY <1>3, <1>7 DEF Steps
  <1>9. ASSUME NEW s \in Seq(A), NEW x \in A
        PROVE  FlattenSeq(Append(s, x)) = FlattenSeq(s) \o x
    <2>1. f[Append(s, x)] = F[<<f[s], x>>] /\ f[s] \in A  BY <1>7 DEF Steps
    <2>2. Append(s, x) \in Seq(A)  BY <1>4
    <2> QED  BY <1>2, <1>3, <2>1, <2>2
  <1>10. FlattenSeq(<<>>) = <<>>  BY <1>3, <1>4, <1>7 DEF Steps
  <1> QED  BY <1>8, <1>9, <1>10 DEF A

------------------------------------------------------------------------------
(* Sequences, element by element.                                          *)

LEMMA SeqInduct ==
  ASSUME NEW X, NEW S, <<>> \in S,
         \A s \in Seq(X), x \in X : s \in S => Append(s, x) \in S
  PROVE  \A s \in Seq(X) : s \in S
  <1> DEFINE N == {n \in Nat : \A s \in Seq(X) : Len(s) = n => s \in S}
  <1>1. 0 \in N
    <2>1. \A s \in Seq(X) : Len(s) = 0 => s = <<>>  OBVIOUS
    <2> QED  BY <2>1
  <1>2. ASSUME NEW n \in Nat, n \in N  PROVE n + 1 \in N
    <2> SUFFICES ASSUME NEW s \in Seq(X), Len(s) = n + 1  PROVE s \in S
      OBVIOUS
    <2> DEFINE t == SubSeq(s, 1, n)
               x == s[n + 1]
    <2>1. t \in Seq(X) /\ Len(t) = n /\ x \in X  OBVIOUS
    <2>2. s = Append(t, x)
      <3>1. /\ Append(t, x) \in Seq(X) /\ Len(Append(t, x)) = n + 1
            /\ \A i \in 1..n : Append(t, x)[i] = s[i]
            /\ Append(t, x)[n + 1] = s[n + 1]
        BY <2>1
      <3> QED  BY <3>1
    <2> HIDE DEF t, x
    <2>3. t \in S  BY <1>2, <2>1
    <2> QED  BY <2>1, <2>2, <2>3
  <1> HIDE DEF N
  <1>3. \A n \in Nat : n \in N  BY <1>1, <1>2, Induct
  <1> QED  BY <1>3 DEF N

LEMMA SeqFacts ==
  ASSUME NEW X
  PROVE  /\ <<>> \in Seq(X)
         /\ \A x \in X : <<x>> \in Seq(X) /\ <<x>> = Append(<<>>, x) /\ Len(<<x>>) = 1 /\ <<x>>[1] = x
         /\ \A s \in Seq(X) : <<>> \o s = s /\ s \o <<>> = s
         /\ \A s \in Seq(X), t \in Seq(X) : s \o t \in Seq(X) /\ Len(s \o t) = Len(s) + Len(t)
         /\ \A s \in Seq(X), t \in Seq(X), r \in Seq(X) : (s \o t) \o r = s \o (t \o r)
         /\ \A s \in Seq(X), t \in Seq(X), x \in X : s \o Append(t, x) = Append(s \o t, x)
         /\ \A s \in Seq(X), x \in X : Append(s, x) = s \o <<x>>
  <1>1. ASSUME NEW x \in X
        PROVE  <<x>> \in Seq(X) /\ <<x>> = Append(<<>>, x) /\ Len(<<x>>) = 1 /\ <<x>>[1] = x
    OBVIOUS
  <1>2. ASSUME NEW s \in Seq(X)
        PROVE  <<>> \o s = s /\ s \o <<>> = s
    OBVIOUS
  <1>3. ASSUME NEW s \in Seq(X), NEW t \in Seq(X)
        PROVE  s \o t \in Seq(X) /\ Len(s \o t) = Len(s) + Len(t)
    OBVIOUS
  <1>4. ASSUME NEW s \in Seq(X), NEW t \in Seq(X), NEW r \in Seq(X)
        PROVE  (s \o t) \o r = s \o (t \o r)
    BY ConcatAssociative
  <1>5. ASSUME NEW s \in Seq(X), NEW t \in Seq(X), NEW x \in X
        PROVE  s \o Append(t, x) = Append(s \o t, x)
    OBVIOUS
  <1>6. ASSUME NEW s \in Seq(X), NEW x \in X
        PROVE  Append(s, x) = s \o <<x>>
    OBVIOUS
  <1> QED  BY <1>1, <1>2, <1>3, <1>4, <1>5, <1>6

LEMMA FlattenOne ==
  ASSUME NEW Y, NEW x, x \in Seq(Y)
  PROVE  FlattenSeq(<<x>>) = x
  <1>1. <<x>> = Append(<<>>, x) /\ <<>> \in Seq(Seq(Y))  BY SeqFacts
  <1>2. FlattenSeq(Append(<<>>, x)) = <<>> \o x  BY <1>1, FlattenLaw
  <1> QED  BY <1>1, <1>2, SeqFacts

LEMMA FlattenConcat ==
  ASSUME NEW Y, NEW s, s \in Seq(Seq(Y)), NEW t, t \in Seq(Seq(Y))
  PROVE  FlattenSeq(s \o t) = FlattenSeq(s) \o FlattenSeq(t)
  <1> DEFINE S == {r \in Seq(Seq(Y)) : FlattenSeq(s \o r) = FlattenSeq(s) \o FlattenSeq(r)}
  <1>0. FlattenSeq(s) \in Seq(Y)  BY FlattenLaw
  <1>1. <<>> \in S
    <2>1. s \o <<>> = s /\ <<>> \in Seq(Seq(Y))  BY SeqFacts
    <2>2. FlattenSeq(s) \o <<>> = FlattenSeq(s)  BY <1>0, SeqFacts
    <2>3. FlattenSeq(<<>>) = <<>>  BY FlattenLaw
    <2> QED  BY <2>1, <2>2, <2>3
  <1>2. ASSUME NEW r \in Seq(Seq(Y)), NEW x \in Seq(Y), r \in S
        PROVE  Append(r, x) \in S
    <2>1. s \o Append(r, x) = Append(s \o r, x) /\ s \o r \in Seq(Seq(Y))  BY SeqFacts
    <2>2. FlattenSeq(Append(s \o r, x)) = FlattenSeq(s \o r) \o x  BY <2>1, FlattenLaw
    <2>3. FlattenSeq(Append(r, x)) = FlattenSeq(r) \o x /\ FlattenSeq(r) \in Seq(Y)  BY FlattenLaw
    <2>4. (FlattenSeq(s) \o FlattenSeq(r)) \o x = FlattenSeq(s) \o (FlattenSeq(r) \o x)
      BY <1>0, <2>3, SeqFacts
    <2>5. Append(r, x) \in Seq(Seq(Y))  OBVIOUS
    <2> QED  BY <1>2, <2>1, <2>2, <2>3, <2>4, <2>5
  <1> HIDE DEF S
  <1>3. t \in S  BY <1>1, <1>2, SeqInduct
  <1> QED  BY <1>3 DEF S

\* Each element in a sequence of its own.
LEMMA FlattenSingles ==
  ASSUME NEW Y, NEW s, s \in Seq(Y)
  PROVE  /\ [i \in DOMAIN s |-> <<s[i]>>] \in Seq(Seq(Y))
         /\ FlattenSeq([i \in DOMAIN s |-> <<s[i]>>]) = s
  <1> DEFINE Singles(r) == [i \in DOMAIN r |-> <<r[i]>>]
             S == {r \in Seq(Y) : Singles(r) \in Seq(Seq(Y)) /\ FlattenSeq(Singles(r)) = r}
  <1>1. <<>> \in S
    <2>1. Singles(<<>>) = <<>> /\ <<>> \in Seq(Y) /\ <<>> \in Seq(Seq(Y))  OBVIOUS
    <2>2. FlattenSeq(<<>>) = <<>>  BY FlattenLaw
    <2> QED  BY <2>1, <2>2
  <1>2. ASSUME NEW r \in Seq(Y), NEW x \in Y, r \in S
        PROVE  Append(r, x) \in S
    <2>1. Singles(Append(r, x)) = Append(Singles(r), <<x>>)
      <3>1. DOMAIN r = 1..Len(r) /\ Len(r) \in Nat /\ DOMAIN Append(r, x) = 1..(Len(r) + 1)  OBVIOUS
      <3>2. PICK q \in Seq(Seq(Y)) : q = Singles(r) /\ Len(q) = Len(r) /\ \A i \in 1..Len(r) : q[i] = <<r[i]>>
        <4>1. Singles(r) \in Seq(Seq(Y))  BY <1>2
        <4>2. Len(Singles(r)) = Len(r) /\ \A i \in 1..Len(r) : Singles(r)[i] = <<r[i]>>  BY <3>1, <4>1
        <4> QED  BY <4>1, <4>2
      <3>3. PICK z \in Seq(Y) : z = <<x>>  BY SeqFacts
      <3>4. /\ Append(q, z) \in Seq(Seq(Y)) /\ Len(Append(q, z)) = Len(r) + 1
            /\ \A i \in 1..Len(r) : Append(q, z)[i] = q[i]
            /\ Append(q, z)[Len(r) + 1] = z
        BY <3>2
      <3>5. DOMAIN Append(q, z) = 1..(Len(r) + 1)  BY <3>1, <3>4
      <3>6. \A i \in 1..(Len(r) + 1) : Append(q, z)[i] = <<Append(r, x)[i]>>
        <4> TAKE i \in 1..(Len(r) + 1)
        <4>1. CASE i \in 1..Len(r)  BY <3>2, <3>4, <4>1
        <4>2. CASE i = Len(r) + 1  BY <3>1, <3>3, <3>4, <4>2
        <4>3. i \in 1..Len(r) \/ i = Len(r) + 1  BY <3>1
        <4> QED  BY <4>1, <4>2, <4>3
      <3> QED  BY <3>1, <3>2, <3>3, <3>4, <3>5, <3>6
    <2>2. <<x>> \in Seq(Y) /\ Append(r, x) \in Seq(Y) /\ r \o <<x>> = Append(r, x)  BY SeqFacts
    <2>3. Append(Singles(r), <<x>>) \in Seq(Seq(Y))  BY <1>2, <2>2
    <2>4. FlattenSeq(Append(Singles(r), <<x>>)) = r \o <<x>>  BY <1>2, <2>2, FlattenLaw
    <2> QED  BY <2>1, <2>2, <2>3, <2>4
  <1> HIDE DEF S
  <1>3. s \in S  BY <1>1, <1>2, SeqInduct
  <1> QED  BY <1>3 DEF S

------------------------------------------------------------------------------
(* The chunker, sentence by sentence.                                      *)

\* A part of a paragraph: not empty, in one piece, and above the maximum only
\* if a single sentence is.
GoodPart(x, para) ==
  /\ x # <<>>
  /\ PartOf(x, para)
  /\ ParaTokens(x) > MAX_CHUNK_TOKENS => Len(x) = 1

\* The sentences of para are in the parts M and in what is gathered, C.
Gathered(M, C, N, para) ==
  /\ FlattenSeq(M) \o C = para
  /\ N = ParaTokens(C)
  /\ \A i \in 1..Len(M) : GoodPart(M[i], para)
  /\ para = <<>> => C = <<>>
  /\ para # <<>> =>
       /\ GoodPart(C, para)
       /\ \E first \in 1..Len(para) : C = SubSeq(para, first, Len(para))

LEMMA AppendSubSeq ==
  ASSUME NEW X, NEW s \in Seq(X), NEW x \in X, NEW first \in 1..Len(s)
  PROVE  /\ SubSeq(Append(s, x), first, Len(s) + 1) = Append(SubSeq(s, first, Len(s)), x)
         /\ SubSeq(Append(s, x), Len(s) + 1, Len(s) + 1) = <<x>>
         /\ \A last \in 1..Len(s) : SubSeq(Append(s, x), first, last) = SubSeq(s, first, last)
  <1> DEFINE t == Append(s, x)
             n == Len(s)
  <1>1. /\ n \in Nat /\ t \in Seq(X) /\ Len(t) = n + 1
        /\ \A i \in 1..n : t[i] = s[i] /\ s[i] \in X
        /\ t[n + 1] = x /\ first \in Nat \ {0}
    OBVIOUS
  <1>0. \A i \in 1..(n + 1) : t[i] \in X  BY <1>1
  <1> HIDE DEF t, n
  <1>2. SubSeq(t, first, n + 1) = Append(SubSeq(s, first, n), x)
    <2> DEFINE l == SubSeq(t, first, n + 1)
               r == SubSeq(s, first, n)
    <2>1. /\ l \in Seq(X) /\ Len(l) = n + 1 - first + 1
          /\ \A i \in 1..(n + 1 - first + 1) : l[i] = t[first + i - 1]
      BY <1>0, <1>1, SubSeqProperties DEF n
    <2>2. /\ r \in Seq(X) /\ Len(r) = n - first + 1
          /\ \A i \in 1..(n - first + 1) : r[i] = s[first + i - 1]
      BY <1>1, SubSeqProperties DEF n
    <2> HIDE DEF l, r
    <2>3. /\ Append(r, x) \in Seq(X) /\ Len(Append(r, x)) = Len(r) + 1
          /\ \A i \in 1..Len(r) : Append(r, x)[i] = r[i]
          /\ Append(r, x)[Len(r) + 1] = x
      BY <2>2
    <2>4. Len(l) = Len(Append(r, x))  BY <1>1, <2>1, <2>2, <2>3 DEF n
    <2>5. \A i \in 1..Len(l) : l[i] = Append(r, x)[i]
      <3> TAKE i \in 1..Len(l)
      <3>1. CASE i = Len(r) + 1
        <4>1. first + i - 1 = n + 1 /\ i \in 1..(n + 1 - first + 1)  BY <1>1, <2>1, <2>2, <3>1 DEF n
        <4> QED  BY <1>1, <2>1, <2>3, <3>1, <4>1
      <3>2. CASE i \in 1..Len(r)
        <4>0. i \in 1..(n - first + 1)  BY <2>2, <3>2
        <4>1. i \in 1..(n + 1 - first + 1) /\ first + i - 1 \in 1..n
          <5>1. n \in Nat /\ first \in 1..n  BY DEF n
          <5> HIDE DEF n
          <5> QED  BY <4>0, <5>1
        <4> QED  BY <1>1, <2>1, <2>2, <2>3, <3>2, <4>0, <4>1
      <3>3. i = Len(r) + 1 \/ i \in 1..Len(r)  BY <1>1, <2>1, <2>2 DEF n
      <3> QED  BY <3>1, <3>2, <3>3
    <2>6. l = Append(r, x)  BY <2>1, <2>3, <2>4, <2>5, SeqEqual
    <2> QED  BY <2>6 DEF l, r
  <1>3. SubSeq(t, n + 1, n + 1) = <<x>>
    <2> DEFINE l == SubSeq(t, n + 1, n + 1)
    <2>1. \A i \in (n + 1)..(n + 1) : t[i] \in X  BY <1>1
    <2>2. /\ l \in Seq(X) /\ Len(l) = 1 /\ \A i \in 1..((n + 1) - (n + 1) + 1) : l[i] = t[(n + 1) + i - 1]
      BY <1>1, <2>1, SubSeqProperties
    <2>3. l[1] = x
      <3>1. 1 \in 1..((n + 1) - (n + 1) + 1) /\ (n + 1) + 1 - 1 = n + 1  BY <1>1
      <3> QED  BY <1>1, <2>2, <3>1
    <2> HIDE DEF l
    <2>4. l = <<x>>  BY <2>2, <2>3
    <2> QED  BY <2>4 DEF l
  <1>4. ASSUME NEW last \in 1..n  PROVE SubSeq(t, first, last) = SubSeq(s, first, last)
    <2>1. \A i \in first..last : t[i] = s[i] /\ s[i] \in X  BY <1>1
    <2>2. last \in Int /\ first \in Int  BY <1>1
    <2>3. /\ SubSeq(t, first, last) \in Seq(X)
          /\ Len(SubSeq(t, first, last)) = IF first <= last THEN last - first + 1 ELSE 0
          /\ \A i \in 1..(last - first + 1) : SubSeq(t, first, last)[i] = t[first + i - 1]
      BY <2>1, <2>2, SubSeqProperties
    <2>4. /\ SubSeq(s, first, last) \in Seq(X)
          /\ Len(SubSeq(s, first, last)) = IF first <= last THEN last - first + 1 ELSE 0
          /\ \A i \in 1..(last - first + 1) : SubSeq(s, first, last)[i] = s[first + i - 1]
      BY <2>1, <2>2, SubSeqProperties
    <2>5. \A i \in 1..(last - first + 1) : first + i - 1 \in first..last  BY <2>2
    <2> QED  BY <2>1, <2>2, <2>3, <2>4, <2>5, SeqEqual
  <1> QED  BY <1>2, <1>3, <1>4 DEF t, n

LEMMA PartGrows ==
  ASSUME NEW para \in Paragraphs, NEW s \in Sentences, NEW x, GoodPart(x, para)
  PROVE  GoodPart(x, Append(para, s))
  <1>1. PICK first \in DOMAIN para, last \in DOMAIN para : x = SubSeq(para, first, last)
    BY DEF GoodPart, PartOf
  <1>2. para \in Seq(Sentences) /\ first \in 1..Len(para) /\ last \in 1..Len(para)
    BY DEF Paragraphs
  <1>3. x = SubSeq(Append(para, s), first, last)  BY <1>1, <1>2, AppendSubSeq
  <1>4. first \in DOMAIN Append(para, s) /\ last \in DOMAIN Append(para, s)  BY <1>2
  <1> QED  BY <1>3, <1>4 DEF GoodPart, PartOf

LEMMA PutFields ==
  ASSUME NEW M, NEW C, NEW N, NEW item, NEW n
  PROVE  Put(Buffer(M, C, N), item, n) = Buffer(M, Append(C, item), N + n)
  BY BufferFields

\* The first sentence of a part, or one more.
LEMMA AddSentenceFields ==
  ASSUME NEW M, NEW C, NEW N \in Nat, NEW s \in Sentences
  PROVE  /\ N + Tokens[s] > MAX_CHUNK_TOKENS /\ C # <<>> =>
              AddSentence(Buffer(M, C, N), s) = Buffer(Append(M, C), Append(<<>>, s), 0 + Tokens[s])
         /\ ~(N + Tokens[s] > MAX_CHUNK_TOKENS /\ C # <<>>) =>
              AddSentence(Buffer(M, C, N), s) = Buffer(M, Append(C, s), N + Tokens[s])
  <1>0. /\ Buffer(M, C, N).tokens = N
        /\ Flush(Buffer(M, C, N)) = IF C = <<>> THEN Buffer(M, C, N) ELSE Buffer(Append(M, C), <<>>, 0)
    BY BufferFields
  <1>1. CASE N + Tokens[s] > MAX_CHUNK_TOKENS /\ C # <<>>
    <2>2. AddSentence(Buffer(M, C, N), s) = Put(Buffer(Append(M, C), <<>>, 0), s, Tokens[s])
      BY <1>0, <1>1 DEF AddSentence
    <2>3. Put(Buffer(Append(M, C), <<>>, 0), s, Tokens[s]) = Buffer(Append(M, C), Append(<<>>, s), 0 + Tokens[s])
      <3>1. PICK none, zero, flushed : none = <<>> /\ zero = 0 /\ flushed = Append(M, C)  OBVIOUS
      <3>2. Put(Buffer(flushed, none, zero), s, Tokens[s]) = Buffer(flushed, Append(none, s), zero + Tokens[s])
        BY PutFields
      <3> QED  BY <3>1, <3>2
    <2> QED  BY <1>1, <2>2, <2>3
  <1>2. CASE ~(N + Tokens[s] > MAX_CHUNK_TOKENS /\ C # <<>>)
    <2>1. AddSentence(Buffer(M, C, N), s) = Put(Buffer(M, C, N), s, Tokens[s])
      BY <1>0, <1>2 DEF AddSentence
    <2>2. Put(Buffer(M, C, N), s, Tokens[s]) = Buffer(M, Append(C, s), N + Tokens[s])
      BY PutFields
    <2> QED  BY <1>2, <2>1, <2>2
  <1> QED  BY <1>1, <1>2

LEMMA OneSentence ==
  ASSUME NEW s \in Sentences
  PROVE  /\ <<s>> \in Paragraphs /\ Append(<<>>, s) = <<s>> /\ Len(<<s>>) = 1
         /\ Tokens[s] \in Nat /\ ParaTokens(<<s>>) = 0 + Tokens[s]
  <1>1. <<s>> \in Paragraphs /\ <<s>> = Append(<<>>, s) /\ Len(<<s>>) = 1 /\ <<>> \in Paragraphs
    BY SeqFacts DEF Paragraphs
  <1>2. ParaTokens(Append(<<>>, s)) = 0 + Tokens[s]  BY <1>1, ParaTokensLaw DEF Paragraphs
  <1>3. Tokens[s] \in Nat  BY ParametersAssumption
  <1> QED  BY <1>1, <1>2, <1>3

\* A part is closed, and the next begins with the sentence.
LEMMA GatheredFlush ==
  ASSUME NEW para \in Paragraphs, NEW s \in Sentences,
         NEW M \in Seq(Paragraphs), NEW C \in Paragraphs, NEW N \in Nat,
         Gathered(M, C, N, para), C # <<>>
  PROVE  Gathered(Append(M, C), <<s>>, 0 + Tokens[s], Append(para, s))
  <1> DEFINE more == Append(para, s)
             len == Len(para)
  <1>1. /\ FlattenSeq(M) \o C = para
        /\ \A i \in 1..Len(M) : GoodPart(M[i], para)
        /\ para # <<>> => GoodPart(C, para)
        /\ para # <<>>
    BY DEF Gathered
  <1>2. len \in Nat /\ len \in 1..len /\ Len(more) = len + 1 /\ more # <<>> /\ more \in Paragraphs
        /\ DOMAIN more = 1..(len + 1)
    <2>1. para \in Seq(Sentences)  BY DEF Paragraphs
    <2>2. len \in Nat /\ Len(more) = len + 1 /\ more # <<>> /\ more \in Seq(Sentences)
          /\ DOMAIN more = 1..(len + 1)
      BY <2>1
    <2>3. len # 0  BY <1>1, <2>1
    <2>4. len \in 1..len  BY <2>2, <2>3
    <2> QED  BY <2>2, <2>4 DEF Paragraphs
  <1>3. <<s>> = SubSeq(more, len + 1, len + 1)
    BY <1>2, AppendSubSeq DEF Paragraphs
  <1> HIDE DEF len
  <1>4. GoodPart(<<s>>, more)
    <2>1. len + 1 \in DOMAIN more  BY <1>2
    <2>2. PartOf(<<s>>, more)  BY <1>3, <2>1 DEF PartOf
    <2>3. <<s>> # <<>> /\ Len(<<s>>) = 1  BY OneSentence
    <2> QED  BY <2>2, <2>3 DEF GoodPart
  <1>5. \A i \in 1..Len(Append(M, C)) : GoodPart(Append(M, C)[i], more)
    <2>1. GoodPart(C, more)  BY <1>1, PartGrows
    <2>2. \A i \in 1..Len(M) : GoodPart(M[i], more)  BY <1>1, PartGrows
    <2>3. /\ \A i \in 1..Len(M) : Append(M, C)[i] = M[i]
          /\ Append(M, C)[Len(M) + 1] = C
          /\ \A i \in 1..Len(Append(M, C)) : i \in 1..Len(M) \/ i = Len(M) + 1
      OBVIOUS
    <2> QED  BY <2>1, <2>2, <2>3
  <1>6. FlattenSeq(Append(M, C)) \o <<s>> = more
    <2>1. FlattenSeq(Append(M, C)) = para  BY <1>1, FlattenLaw DEF Paragraphs
    <2>2. para \o <<s>> = more  BY SeqFacts DEF Paragraphs
    <2> QED  BY <2>1, <2>2
  <1>7. \E first \in 1..Len(more) : <<s>> = SubSeq(more, first, Len(more))
    <2>1. len + 1 \in 1..Len(more)  BY <1>2
    <2> HIDE DEF more
    <2> QED  BY <1>2, <1>3, <2>1
  <1>8. ParaTokens(<<s>>) = 0 + Tokens[s]  BY OneSentence
  <1> HIDE DEF more
  <1>9. Gathered(Append(M, C), <<s>>, 0 + Tokens[s], more)
    BY <1>2, <1>4, <1>5, <1>6, <1>7, <1>8, Zenon DEF Gathered
  <1> QED  BY <1>9 DEF more

\* The sentence goes to the others.
LEMMA GatheredPut ==
  ASSUME NEW para \in Paragraphs, NEW s \in Sentences,
         NEW M \in Seq(Paragraphs), NEW C \in Paragraphs, NEW N \in Nat,
         Gathered(M, C, N, para), ~(N + Tokens[s] > MAX_CHUNK_TOKENS /\ C # <<>>)
  PROVE  Gathered(M, Append(C, s), N + Tokens[s], Append(para, s))
  <1> DEFINE more == Append(para, s)
             len == Len(para)
             part == Append(C, s)
  <1>1. /\ FlattenSeq(M) \o C = para /\ N = ParaTokens(C)
        /\ \A i \in 1..Len(M) : GoodPart(M[i], para)
        /\ para = <<>> => C = <<>>
        /\ para # <<>> => GoodPart(C, para) /\ \E first \in 1..len : C = SubSeq(para, first, len)
    BY DEF Gathered
  <1>2. len \in Nat /\ Len(more) = len + 1 /\ more # <<>> /\ more \in Paragraphs
        /\ DOMAIN more = 1..(len + 1)
    <2>1. para \in Seq(Sentences)  BY DEF Paragraphs
    <2>2. len \in Nat /\ Len(more) = len + 1 /\ more # <<>> /\ more \in Seq(Sentences)
          /\ DOMAIN more = 1..(len + 1)
      BY <2>1
    <2> QED  BY <2>2 DEF Paragraphs
  <1>3. part \in Paragraphs /\ part # <<>> /\ Len(part) = Len(C) + 1 /\ Len(C) \in Nat
    <2>1. C \in Seq(Sentences)  BY DEF Paragraphs
    <2>2. part \in Seq(Sentences) /\ part # <<>> /\ Len(part) = Len(C) + 1 /\ Len(C) \in Nat  BY <2>1
    <2> QED  BY <2>2 DEF Paragraphs
  <1>4. ParaTokens(part) = N + Tokens[s]  BY <1>1, ParaTokensLaw DEF Paragraphs
  <1>5. ParaTokens(part) > MAX_CHUNK_TOKENS => Len(part) = 1
    <2>1. C = <<>> => Len(C) = 0  OBVIOUS
    <2> HIDE DEF part
    <2> QED  BY <1>3, <1>4, <2>1
  <1>6. PICK first \in 1..Len(more) : part = SubSeq(more, first, Len(more))
    <2>1. CASE para = <<>>
      <3>1. part = more  BY <1>1, <2>1
      <3>2. SubSeq(more, 1, Len(more)) = more /\ 1 \in 1..Len(more)  BY <1>2 DEF Paragraphs
      <3> HIDE DEF more, part
      <3> QED  BY <3>1, <3>2
    <2>2. CASE para # <<>>
      <3>1. PICK first \in 1..len : C = SubSeq(para, first, len)  BY <1>1, <2>2
      <3>2. part = SubSeq(more, first, len + 1)  BY <3>1, AppendSubSeq DEF Paragraphs
      <3> HIDE DEF more, part, len
      <3>3. first \in 1..Len(more)  BY <1>2, <3>1
      <3> QED  BY <1>2, <3>2, <3>3
    <2> QED  BY <2>1, <2>2
  <1>7. \A i \in 1..Len(M) : GoodPart(M[i], more)  BY <1>1, PartGrows
  <1>8. FlattenSeq(M) \o part = more
    <2>1. FlattenSeq(M) \in Paragraphs  BY FlattenLaw DEF Paragraphs
    <2>2. FlattenSeq(M) \o Append(C, s) = Append(FlattenSeq(M) \o C, s)  BY <2>1, SeqFacts DEF Paragraphs
    <2> QED  BY <1>1, <2>2
  <1> HIDE DEF more, part, len
  <1>9. GoodPart(part, more)
    <2>1. first \in DOMAIN more /\ Len(more) \in DOMAIN more  BY <1>2, <1>6
    <2>2. PartOf(part, more)  BY <1>6, <2>1 DEF PartOf
    <2> QED  BY <1>3, <1>5, <2>2 DEF GoodPart
  <1>10. Gathered(M, part, N + Tokens[s], more)
    BY <1>2, <1>4, <1>6, <1>7, <1>8, <1>9, Zenon DEF Gathered
  <1> QED  BY <1>10 DEF more, part

IsGathered(b, para) ==
  \E M \in Seq(Paragraphs), C \in Paragraphs, N \in Nat : b = Buffer(M, C, N) /\ Gathered(M, C, N, para)

LEMMA AddSentenceOK ==
  ASSUME NEW para \in Paragraphs, NEW s \in Sentences, NEW b, IsGathered(b, para)
  PROVE  IsGathered(AddSentence(b, s), Append(para, s))
  <1>1. PICK M \in Seq(Paragraphs), C \in Paragraphs, N \in Nat : b = Buffer(M, C, N) /\ Gathered(M, C, N, para)
    BY DEF IsGathered
  <1>2. <<s>> \in Paragraphs /\ Append(<<>>, s) = <<s>> /\ Tokens[s] \in Nat  BY OneSentence
  <1>3. CASE N + Tokens[s] > MAX_CHUNK_TOKENS /\ C # <<>>
    <2>1. AddSentence(b, s) = Buffer(Append(M, C), <<s>>, 0 + Tokens[s])
      <3>1. AddSentence(Buffer(M, C, N), s) = Buffer(Append(M, C), Append(<<>>, s), 0 + Tokens[s])
        BY <1>3, AddSentenceFields
      <3> QED  BY <1>1, <1>2, <3>1
    <2>2. Gathered(Append(M, C), <<s>>, 0 + Tokens[s], Append(para, s))  BY <1>1, <1>3, GatheredFlush
    <2>3. Append(M, C) \in Seq(Paragraphs) /\ 0 + Tokens[s] \in Nat  BY <1>2
    <2> QED  BY <1>2, <2>1, <2>2, <2>3, Zenon DEF IsGathered
  <1>4. CASE ~(N + Tokens[s] > MAX_CHUNK_TOKENS /\ C # <<>>)
    <2>1. AddSentence(b, s) = Buffer(M, Append(C, s), N + Tokens[s])
      <3>1. AddSentence(Buffer(M, C, N), s) = Buffer(M, Append(C, s), N + Tokens[s])
        BY <1>4, AddSentenceFields
      <3> QED  BY <1>1, <3>1
    <2>2. Gathered(M, Append(C, s), N + Tokens[s], Append(para, s))  BY <1>1, <1>4, GatheredPut
    <2>3. Append(C, s) \in Paragraphs /\ N + Tokens[s] \in Nat  BY <1>2 DEF Paragraphs
    <2> QED  BY <2>1, <2>2, <2>3, Zenon DEF IsGathered
  <1> QED  BY <1>3, <1>4

\* Whatever the paragraph.
LEMMA GatheredOK == \A para \in Paragraphs : IsGathered(GatheredSentences(para), para)
  <1> DEFINE S == {para \in Paragraphs : IsGathered(GatheredSentences(para), para)}
  <1>1. <<>> \in S
    <2>1. EmptyBuffer = Buffer(<<>>, <<>>, 0)  BY DEF EmptyBuffer, Buffer
    <2>2. <<>> \in Paragraphs /\ <<>> \in Seq(Paragraphs) /\ 0 \in Nat  BY DEF Paragraphs
    <2>3. FlattenSeq(<<>>) \o <<>> = <<>>  BY <2>2, FlattenLaw, SeqFacts DEF Paragraphs
    <2>4. \A i \in 1..Len(<<>>) : GoodPart(<<>>[i], <<>>)  OBVIOUS
    <2>5. Gathered(<<>>, <<>>, 0, <<>>)  BY <2>3, <2>4, ParaTokensLaw DEF Gathered
    <2>6. IsGathered(EmptyBuffer, <<>>)  BY <2>1, <2>2, <2>5, Zenon DEF IsGathered
    <2> QED  BY <2>2, <2>6, GatheredSentencesLaw
  <1>2. ASSUME NEW para \in Seq(Sentences), NEW s \in Sentences, para \in S
        PROVE  Append(para, s) \in S
    <2>1. IsGathered(AddSentence(GatheredSentences(para), s), Append(para, s))  BY <1>2, AddSentenceOK DEF Paragraphs
    <2>2. Append(para, s) \in Paragraphs  BY DEF Paragraphs
    <2> QED  BY <2>1, <2>2, GatheredSentencesLaw
  <1> HIDE DEF S
  <1>3. \A para \in Seq(Sentences) : para \in S  BY <1>1, <1>2, SeqInduct
  <1> QED  BY <1>3 DEF S, Paragraphs

------------------------------------------------------------------------------
(* The chunker, paragraph by paragraph.                                    *)

\* An oversized paragraph is split into good parts, each a chunk, and they
\* are all of it.
LEMMA SplitLaw ==
  ASSUME NEW para \in Paragraphs
  PROVE  \E parts \in Seq(Paragraphs) :
           /\ SplitAtSentences(para) \in Seq(Seq(Paragraphs))
           /\ Len(SplitAtSentences(para)) = Len(parts)
           /\ \A i \in 1..Len(parts) : SplitAtSentences(para)[i] = <<parts[i]>> /\ GoodPart(parts[i], para)
           /\ FlattenSeq(SplitAtSentences(para)) = parts
           /\ FlattenSeq(parts) = para
           /\ para # <<>> => Len(parts) > 0
  <1> DEFINE parts == Flush(GatheredSentences(para)).merged
             split == SplitAtSentences(para)
  <1>1. split = [i \in DOMAIN parts |-> <<parts[i]>>]
    BY DEF SplitAtSentences, GatheredSentences
  <1>2. PICK M \in Seq(Paragraphs), C \in Paragraphs, N \in Nat :
          GatheredSentences(para) = Buffer(M, C, N) /\ Gathered(M, C, N, para)
    BY GatheredOK DEF IsGathered
  <1>3. parts = IF C = <<>> THEN M ELSE Append(M, C)
    <2>1. Flush(Buffer(M, C, N)) = IF C = <<>> THEN Buffer(M, C, N) ELSE Buffer(Append(M, C), <<>>, 0)
      BY BufferFields
    <2>2. Buffer(M, C, N).merged = M  BY BufferFields
    <2>3. Buffer(Append(M, C), <<>>, 0).merged = Append(M, C)  BY BufferFields, Zenon
    <2> QED  BY <1>2, <2>1, <2>2, <2>3
  <1> HIDE DEF parts, split
  <1>4. parts \in Seq(Paragraphs)
    <2>1. Append(M, C) \in Seq(Paragraphs)  OBVIOUS
    <2> QED  BY <1>3, <2>1
  <1>5. FlattenSeq(parts) = para
    <2>1. FlattenSeq(M) \o C = para  BY <1>2 DEF Gathered
    <2>2. FlattenSeq(M) \in Seq(Sentences)  BY FlattenLaw DEF Paragraphs
    <2>3. CASE C = <<>>
      <3>1. FlattenSeq(M) \o <<>> = FlattenSeq(M)  BY <2>2, SeqFacts
      <3> QED  BY <1>3, <2>1, <2>3, <3>1
    <2>4. CASE C # <<>>
      <3>1. FlattenSeq(Append(M, C)) = FlattenSeq(M) \o C  BY FlattenLaw DEF Paragraphs
      <3> QED  BY <1>3, <2>1, <2>4, <3>1
    <2> QED  BY <2>3, <2>4
  <1>6. \A i \in 1..Len(parts) : GoodPart(parts[i], para)
    <2>1. /\ \A i \in 1..Len(M) : GoodPart(M[i], para)
          /\ C # <<>> => GoodPart(C, para)
      BY <1>2 DEF Gathered
    <2>2. /\ \A i \in 1..Len(M) : Append(M, C)[i] = M[i]
          /\ Append(M, C)[Len(M) + 1] = C
          /\ \A i \in 1..Len(Append(M, C)) : i \in 1..Len(M) \/ i = Len(M) + 1
      OBVIOUS
    <2>3. CASE C = <<>>  BY <1>3, <2>1, <2>3
    <2>4. CASE C # <<>>
      <3>1. parts = Append(M, C)  BY <1>3, <2>4
      <3>2. \A i \in 1..Len(Append(M, C)) : GoodPart(Append(M, C)[i], para)  BY <2>1, <2>2, <2>4
      <3> QED  BY <3>1, <3>2
    <2> QED  BY <2>3, <2>4
  <1>7. para # <<>> => Len(parts) > 0
    <2> SUFFICES ASSUME para # <<>>  PROVE Len(parts) > 0
      OBVIOUS
    <2>1. parts # <<>>
      <3>1. FlattenSeq(<<>>) = <<>>  BY FlattenLaw
      <3> QED  BY <1>5, <3>1
    <2> QED  BY <1>4, <2>1
  <1>8. split \in Seq(Seq(Paragraphs)) /\ FlattenSeq(split) = parts
    BY <1>1, <1>4, FlattenSingles
  <1>9. DOMAIN parts = 1..Len(parts) /\ Len(parts) \in Nat  BY <1>4
  <1>10. Len(split) = Len(parts) /\ \A i \in 1..Len(parts) : split[i] = <<parts[i]>>
    BY <1>1, <1>8, <1>9
  <1> QED  BY <1>4, <1>5, <1>6, <1>7, <1>8, <1>10 DEF split

\* A piece of an oversized paragraph.
IsPiece(chunk, doc) == \E p \in Oversized(doc) : Len(chunk) = 1 /\ PartOf(chunk[1], p)

BeginsCut(chunk, doc) == \E p \in Oversized(doc) : PartOf(chunk[1], p)

GoodChunk(chunk, doc) ==
  /\ chunk # <<>>
  /\ Len(chunk) > 1 => ChunkTokens(chunk) <= TARGET_CHUNK_TOKENS
  /\ ChunkTokens(chunk) > MAX_CHUNK_TOKENS => Len(FlattenSeq(chunk)) = 1
  /\ Range(chunk) \subseteq Range(doc) \/ IsPiece(chunk, doc)

\* Two chunks that had to be cut apart.
Cut(c, d, doc) ==
  \/ ChunkTokens(c) + ParaTokens(d[1]) > TARGET_CHUNK_TOKENS
  \/ BeginsCut(c, doc) \/ BeginsCut(d, doc)

Chunked(M, doc) ==
  /\ \A i \in 1..Len(M) : GoodChunk(M[i], doc)
  /\ \A i \in 1..(Len(M) - 1) : Cut(M[i], M[i + 1], doc)

LEMMA ChunkedIsWell ==
  ASSUME NEW doc, NEW M \in Seq(Seq(Paragraphs)), Chunked(M, doc),
         FlattenSeq(FlattenSeq(M)) = FlattenSeq(doc)
  PROVE  WellChunked(doc, M)
  <1>1. DOMAIN M = 1..Len(M)  OBVIOUS
  <1>2. ASSUME NEW i \in DOMAIN M
        PROVE  /\ Len(M[i]) > 1 => ChunkTokens(M[i]) <= TARGET_CHUNK_TOKENS
               /\ ChunkTokens(M[i]) > MAX_CHUNK_TOKENS => Len(FlattenSeq(M[i])) = 1
               /\ Range(M[i]) \subseteq Range(doc)
                    \/ \E p \in Oversized(doc) : Len(M[i]) = 1 /\ PartOf(M[i][1], p)
    BY <1>1, Zenon DEF Chunked, GoodChunk, IsPiece
  <1>3. ASSUME NEW i \in 1..(Len(M) - 1)
        PROVE  \/ ChunkTokens(M[i]) + ParaTokens(M[i + 1][1]) > TARGET_CHUNK_TOKENS
               \/ \E p \in Oversized(doc), c \in {M[i], M[i + 1]} : PartOf(c[1], p)
    BY Zenon DEF Chunked, Cut, BeginsCut
  <1> QED  BY <1>2, <1>3, Zenon DEF WellChunked

\* The promises hold on when the document goes on.
LEMMA ChunkedMonotone ==
  ASSUME NEW doc, NEW more, Range(doc) \subseteq Range(more)
  PROVE  /\ \A c : IsPiece(c, doc) => IsPiece(c, more)
         /\ \A c : GoodChunk(c, doc) => GoodChunk(c, more)
         /\ \A c, d : Cut(c, d, doc) => Cut(c, d, more)
         /\ \A M : Chunked(M, doc) => Chunked(M, more)
  <1>1. Oversized(doc) \subseteq Oversized(more)  BY DEF Oversized
  <1>2. \A c : IsPiece(c, doc) => IsPiece(c, more)  BY <1>1 DEF IsPiece
  <1>3. \A c : GoodChunk(c, doc) => GoodChunk(c, more)  BY <1>2 DEF GoodChunk
  <1>4. \A c, d : Cut(c, d, doc) => Cut(c, d, more)
    <2>1. \A c : BeginsCut(c, doc) => BeginsCut(c, more)  BY <1>1 DEF BeginsCut
    <2> QED  BY <2>1 DEF Cut
  <1>5. \A M : Chunked(M, doc) => Chunked(M, more)  BY <1>3, <1>4, Zenon DEF Chunked
  <1> QED  BY <1>2, <1>3, <1>4, <1>5

LEMMA ChunkedAppend ==
  ASSUME NEW doc, NEW M \in Seq(Seq(Paragraphs)), NEW c \in Seq(Paragraphs),
         Chunked(M, doc), GoodChunk(c, doc), M # <<>> => Cut(M[Len(M)], c, doc)
  PROVE  Chunked(Append(M, c), doc)
  <1>1. /\ Len(M) \in Nat /\ Len(Append(M, c)) = Len(M) + 1
        /\ \A i \in 1..Len(M) : Append(M, c)[i] = M[i]
        /\ Append(M, c)[Len(M) + 1] = c
        /\ Len(M) > 0 => M # <<>>
    OBVIOUS
  <1>2. ASSUME NEW i \in 1..(Len(M) + 1)  PROVE GoodChunk(Append(M, c)[i], doc)
    <2>1. CASE i = Len(M) + 1  BY <1>1, <2>1
    <2>2. CASE i \in 1..Len(M)  BY <1>1, <2>2 DEF Chunked
    <2> QED  BY <1>1, <2>1, <2>2
  <1>3. ASSUME NEW i \in 1..Len(M)  PROVE Cut(Append(M, c)[i], Append(M, c)[i + 1], doc)
    <2>1. CASE i = Len(M)
      <3>1. M # <<>>  BY <1>1, <2>1
      <3>2. Append(M, c)[i] = M[Len(M)] /\ Append(M, c)[i + 1] = c  BY <1>1, <2>1
      <3> QED  BY <3>1, <3>2
    <2>2. CASE i # Len(M)
      <3>1. i \in 1..(Len(M) - 1) /\ i + 1 \in 1..Len(M)  BY <1>1, <2>2
      <3>2. Append(M, c)[i] = M[i] /\ Append(M, c)[i + 1] = M[i + 1]  BY <1>1, <3>1
      <3>3. Cut(M[i], M[i + 1], doc)  BY <3>1 DEF Chunked
      <3> QED  BY <3>2, <3>3
    <2> QED  BY <2>1, <2>2
  <1>4. Len(Append(M, c)) - 1 = Len(M)  BY <1>1
  <1> QED  BY <1>1, <1>2, <1>3, <1>4 DEF Chunked

LEMMA ChunkedConcat ==
  ASSUME NEW doc, NEW M \in Seq(Seq(Paragraphs)), NEW S \in Seq(Seq(Paragraphs)), Chunked(M, doc),
         \A i \in 1..Len(S) : GoodChunk(S[i], doc) /\ IsPiece(S[i], doc)
  PROVE  Chunked(M \o S, doc)
  <1> DEFINE all == M \o S
  <1>1. /\ Len(M) \in Nat /\ Len(S) \in Nat /\ Len(all) = Len(M) + Len(S)
        /\ \A i \in 1..Len(M) : all[i] = M[i]
        /\ \A i \in (Len(M) + 1)..(Len(M) + Len(S)) : all[i] = S[i - Len(M)] /\ i - Len(M) \in 1..Len(S)
    <2>1. Len(M) \in Nat /\ Len(S) \in Nat /\ Len(all) = Len(M) + Len(S)  OBVIOUS
    <2>2. ASSUME NEW i \in 1..Len(M)  PROVE all[i] = M[i]
      OBVIOUS
    <2>3. ASSUME NEW i \in (Len(M) + 1)..(Len(M) + Len(S))
          PROVE  all[i] = S[i - Len(M)] /\ i - Len(M) \in 1..Len(S)
      <3>1. i \in 1..(Len(M) + Len(S)) /\ ~(i <= Len(M)) /\ i - Len(M) \in 1..Len(S)  BY <2>1
      <3>2. all[i] = S[i - Len(M)]  BY <3>1
      <3> QED  BY <3>1, <3>2
    <2> QED  BY <2>1, <2>2, <2>3
  <1> HIDE DEF all
  <1>2. ASSUME NEW i \in (Len(M) + 1)..(Len(M) + Len(S))
        PROVE  GoodChunk(all[i], doc) /\ IsPiece(all[i], doc)
    BY <1>1
  <1>3. ASSUME NEW i \in 1..Len(all)  PROVE GoodChunk(all[i], doc)
    <2>1. CASE i \in 1..Len(M)  BY <1>1, <2>1 DEF Chunked
    <2>2. CASE i \in (Len(M) + 1)..(Len(M) + Len(S))  BY <1>2, <2>2
    <2>3. i \in 1..Len(M) \/ i \in (Len(M) + 1)..(Len(M) + Len(S))  BY <1>1
    <2> QED  BY <2>1, <2>2, <2>3
  <1>4. ASSUME NEW i \in 1..(Len(all) - 1)  PROVE Cut(all[i], all[i + 1], doc)
    <2>1. CASE i + 1 \in 1..Len(M)
      <3>1. i \in 1..(Len(M) - 1) /\ i \in 1..Len(M)  BY <1>1, <2>1
      <3>2. Cut(M[i], M[i + 1], doc)  BY <3>1 DEF Chunked
      <3> QED  BY <1>1, <2>1, <3>1, <3>2
    <2>2. CASE i + 1 \in (Len(M) + 1)..(Len(M) + Len(S))
      <3>1. PICK k \in (Len(M) + 1)..(Len(M) + Len(S)) : k = i + 1  BY <2>2
      <3>2. IsPiece(all[k], doc)  BY <1>2
      <3> QED  BY <3>1, <3>2 DEF Cut, IsPiece, BeginsCut
    <2>3. i + 1 \in 1..Len(M) \/ i + 1 \in (Len(M) + 1)..(Len(M) + Len(S))  BY <1>1
    <2> QED  BY <2>1, <2>2, <2>3
  <1> QED  BY <1>3, <1>4 DEF Chunked, all

\* What AddParagraph does to the fields of a buffer.
LEMMA ConcatFields ==
  ASSUME NEW M, NEW C, NEW N, NEW S
  PROVE  [Buffer(M, C, N) EXCEPT !.merged = @ \o S] = Buffer(M \o S, C, N)
  <1>1. PICK D : D = M \o S  OBVIOUS
  <1>2. [Buffer(M, C, N) EXCEPT !.merged = D] = Buffer(D, C, N)  BY DEF Buffer
  <1>3. Buffer(M, C, N).merged = M  BY BufferFields
  <1> QED  BY <1>1, <1>2, <1>3

LEMMA SplitFirst ==
  ASSUME NEW M, NEW C, NEW N \in Nat, NEW para \in Paragraphs,
         ParaTokens(para) > MAX_CHUNK_TOKENS, C = <<>>
  PROVE  AddParagraph(Buffer(M, C, N), para) = Buffer(M \o SplitAtSentences(para), C, N)
  <1>0. /\ Buffer(M, C, N).tokens = N
        /\ Flush(Buffer(M, C, N)) = IF C = <<>> THEN Buffer(M, C, N) ELSE Buffer(Append(M, C), <<>>, 0)
    BY BufferFields
  <1>1. PICK none, zero, flushed, split, num :
          /\ none = <<>> /\ zero = 0 /\ num = N
          /\ flushed = Append(M, C) /\ split = SplitAtSentences(para)
    OBVIOUS
  <1>2. AddParagraph(Buffer(M, C, N), para) = [Buffer(M, C, N) EXCEPT !.merged = @ \o split]
    BY <1>0, <1>1 DEF AddParagraph
  <1>3. [Buffer(M, C, num) EXCEPT !.merged = @ \o split] = Buffer(M \o split, C, num)  BY ConcatFields
  <1> QED  BY <1>1, <1>2, <1>3

LEMMA SplitAfter ==
  ASSUME NEW M, NEW C, NEW N \in Nat, NEW para \in Paragraphs,
         ParaTokens(para) > MAX_CHUNK_TOKENS, C # <<>>
  PROVE  AddParagraph(Buffer(M, C, N), para) = Buffer(Append(M, C) \o SplitAtSentences(para), <<>>, 0)
  <1>0. /\ Buffer(M, C, N).tokens = N
        /\ Flush(Buffer(M, C, N)) = IF C = <<>> THEN Buffer(M, C, N) ELSE Buffer(Append(M, C), <<>>, 0)
    BY BufferFields
  <1>1. PICK none, zero, flushed, split, num :
          /\ none = <<>> /\ zero = 0 /\ num = N
          /\ flushed = Append(M, C) /\ split = SplitAtSentences(para)
    OBVIOUS
  <1>2. AddParagraph(Buffer(M, C, N), para) = [Buffer(flushed, none, zero) EXCEPT !.merged = @ \o split]
    BY <1>0, <1>1 DEF AddParagraph
  <1>3. [Buffer(flushed, none, zero) EXCEPT !.merged = @ \o split] = Buffer(flushed \o split, none, zero)
    BY ConcatFields
  <1> QED  BY <1>1, <1>2, <1>3

LEMMA PutAfter ==
  ASSUME NEW M, NEW C, NEW N \in Nat, NEW para \in Paragraphs,
         ~(ParaTokens(para) > MAX_CHUNK_TOKENS),
         N + ParaTokens(para) > TARGET_CHUNK_TOKENS, C # <<>>
  PROVE  AddParagraph(Buffer(M, C, N), para) = Buffer(Append(M, C), Append(<<>>, para), 0 + ParaTokens(para))
  <1>0. /\ Buffer(M, C, N).tokens = N
        /\ Flush(Buffer(M, C, N)) = IF C = <<>> THEN Buffer(M, C, N) ELSE Buffer(Append(M, C), <<>>, 0)
    BY BufferFields
  <1>1. PICK none, zero, flushed, split, num :
          /\ none = <<>> /\ zero = 0 /\ num = N
          /\ flushed = Append(M, C) /\ split = SplitAtSentences(para)
    OBVIOUS
  <1>2. AddParagraph(Buffer(M, C, N), para) = Put(Buffer(flushed, none, zero), para, ParaTokens(para))
    BY <1>0, <1>1 DEF AddParagraph
  <1>3. Put(Buffer(flushed, none, zero), para, ParaTokens(para))
          = Buffer(flushed, Append(none, para), zero + ParaTokens(para))
    BY PutFields
  <1> QED  BY <1>1, <1>2, <1>3

LEMMA PutMore ==
  ASSUME NEW M, NEW C, NEW N \in Nat, NEW para \in Paragraphs,
         ~(ParaTokens(para) > MAX_CHUNK_TOKENS),
         ~(N + ParaTokens(para) > TARGET_CHUNK_TOKENS /\ C # <<>>)
  PROVE  AddParagraph(Buffer(M, C, N), para) = Buffer(M, Append(C, para), N + ParaTokens(para))
  <1>0. /\ Buffer(M, C, N).tokens = N
        /\ Flush(Buffer(M, C, N)) = IF C = <<>> THEN Buffer(M, C, N) ELSE Buffer(Append(M, C), <<>>, 0)
    BY BufferFields
  <1>1. PICK none, zero, flushed, split, num :
          /\ none = <<>> /\ zero = 0 /\ num = N
          /\ flushed = Append(M, C) /\ split = SplitAtSentences(para)
    OBVIOUS
  <1>2. AddParagraph(Buffer(M, C, N), para) = Put(Buffer(M, C, N), para, ParaTokens(para))
    BY <1>0, <1>1 DEF AddParagraph
  <1>3. Put(Buffer(M, C, num), para, ParaTokens(para)) = Buffer(M, Append(C, para), num + ParaTokens(para))
    BY PutFields
  <1> QED  BY <1>1, <1>2, <1>3

\* The paragraphs of doc are in the chunks M and in what waits, C.
Waits(M, C, N, doc) ==
  /\ FlattenSeq(FlattenSeq(M)) \o FlattenSeq(C) = FlattenSeq(doc)
  /\ N = ChunkTokens(C)
  /\ Chunked(M, doc)
  /\ C # <<>> => /\ GoodChunk(C, doc) /\ Range(C) \subseteq Range(doc)
                 /\ ChunkTokens(C) <= MAX_CHUNK_TOKENS
                 /\ M # <<>> => Cut(M[Len(M)], C, doc)
  /\ C = <<>> /\ M # <<>> => IsPiece(M[Len(M)], doc)

LEMMA OneParagraph ==
  ASSUME NEW para \in Paragraphs
  PROVE  /\ <<para>> \in Seq(Paragraphs) /\ Append(<<>>, para) = <<para>> /\ Len(<<para>>) = 1
         /\ <<para>> # <<>> /\ <<para>>[1] = para /\ Range(<<para>>) = {para}
         /\ ParaTokens(para) \in Nat /\ ChunkTokens(<<para>>) = 0 + ParaTokens(para)
         /\ FlattenSeq(<<para>>) = para
  <1>1. /\ <<para>> \in Seq(Paragraphs) /\ Append(<<>>, para) = <<para>> /\ Len(<<para>>) = 1
        /\ <<para>> # <<>> /\ <<para>>[1] = para
    OBVIOUS
  <1>2. Range(<<para>>) = {para}  BY DEF Range
  <1>3. ParaTokens(para) \in Nat  BY ParaTokensLaw DEF Paragraphs
  <1>4. ChunkTokens(Append(<<>>, para)) = ChunkTokens(<<>>) + ParaTokens(para)
    <2>1. <<>> \in Seq(Paragraphs)  OBVIOUS
    <2> QED  BY <2>1, ChunkTokensLaw
  <1>5. ChunkTokens(<<para>>) = 0 + ParaTokens(para)  BY <1>1, <1>4, ChunkTokensLaw
  <1>6. FlattenSeq(<<para>>) = para  BY FlattenOne DEF Paragraphs
  <1> QED  BY <1>1, <1>2, <1>3, <1>5, <1>6

LEMMA RangeAppend ==
  ASSUME NEW X, NEW s \in Seq(X), NEW x \in X
  PROVE  Range(Append(s, x)) = Range(s) \cup {x}
  <1>1. /\ DOMAIN s = 1..Len(s) /\ DOMAIN Append(s, x) = 1..(Len(s) + 1) /\ Len(s) \in Nat
        /\ \A i \in 1..Len(s) : Append(s, x)[i] = s[i]
        /\ Append(s, x)[Len(s) + 1] = x
    OBVIOUS
  <1>2. /\ Len(s) + 1 \in 1..(Len(s) + 1)
        /\ \A i \in 1..(Len(s) + 1) : i \in 1..Len(s) \/ i = Len(s) + 1
        /\ 1..Len(s) \subseteq 1..(Len(s) + 1)
    BY <1>1
  <1>3. ASSUME NEW y \in Range(Append(s, x))  PROVE y \in Range(s) \cup {x}
    BY <1>1, <1>2 DEF Range
  <1>4. ASSUME NEW y \in Range(s)  PROVE y \in Range(Append(s, x))
    BY <1>1, <1>2, Zenon DEF Range
  <1>5. x \in Range(Append(s, x))  BY <1>1, <1>2 DEF Range
  <1> QED  BY <1>3, <1>4, <1>5

LEMMA TextAssociative ==
  ASSUME NEW f \in Seq(Sentences), NEW g \in Seq(Sentences), NEW h, h \in Seq(Sentences)
  PROVE  (f \o g) \o h = f \o (g \o h)
  BY ConcatAssociative

LEMMA TextConcat ==
  ASSUME NEW s, s \in Seq(Paragraphs), NEW t, t \in Seq(Paragraphs)
  PROVE  FlattenSeq(s \o t) = FlattenSeq(s) \o FlattenSeq(t)
  BY FlattenConcat DEF Paragraphs

LEMMA TextSplit ==
  ASSUME NEW doc \in Seq(Paragraphs), NEW para \in Paragraphs,
         NEW K \in Seq(Seq(Paragraphs)), FlattenSeq(FlattenSeq(K)) = FlattenSeq(doc)
  PROVE  FlattenSeq(FlattenSeq(K \o SplitAtSentences(para))) = FlattenSeq(Append(doc, para))
  <1>1. FlattenSeq(Append(doc, para)) = FlattenSeq(doc) \o para  BY FlattenLaw DEF Paragraphs
  <1>2. PICK parts \in Seq(Paragraphs) :
          /\ SplitAtSentences(para) \in Seq(Seq(Paragraphs))
          /\ FlattenSeq(SplitAtSentences(para)) = parts
          /\ FlattenSeq(parts) = para
    BY SplitLaw
  <1>3. FlattenSeq(K) \in Seq(Paragraphs)  BY FlattenLaw
  <1>4. FlattenSeq(K \o SplitAtSentences(para)) = FlattenSeq(K) \o parts
    <2>1. PICK split \in Seq(Seq(Paragraphs)) : split = SplitAtSentences(para)  BY <1>2
    <2>2. FlattenSeq(K \o split) = FlattenSeq(K) \o FlattenSeq(split)  BY FlattenConcat
    <2> QED  BY <1>2, <2>1, <2>2
  <1>5. FlattenSeq(FlattenSeq(K) \o parts) = FlattenSeq(FlattenSeq(K)) \o FlattenSeq(parts)
    BY <1>3, TextConcat
  <1> QED  BY <1>1, <1>2, <1>4, <1>5

\* The text of the document, with one more paragraph.
LEMMA TextGrows ==
  ASSUME NEW doc \in Seq(Paragraphs), NEW para \in Paragraphs,
         NEW M \in Seq(Seq(Paragraphs)), NEW C \in Seq(Paragraphs),
         FlattenSeq(FlattenSeq(M)) \o FlattenSeq(C) = FlattenSeq(doc)
  PROVE  /\ FlattenSeq(FlattenSeq(Append(M, C))) = FlattenSeq(doc)
         /\ FlattenSeq(FlattenSeq(M)) \o FlattenSeq(Append(C, para)) = FlattenSeq(Append(doc, para))
         /\ FlattenSeq(FlattenSeq(Append(M, C))) \o FlattenSeq(<<para>>) = FlattenSeq(Append(doc, para))
         /\ C = <<>> => FlattenSeq(FlattenSeq(M \o SplitAtSentences(para))) = FlattenSeq(Append(doc, para))
  <1>1. /\ FlattenSeq(M) \in Seq(Paragraphs) /\ FlattenSeq(FlattenSeq(M)) \in Paragraphs
        /\ FlattenSeq(C) \in Paragraphs /\ FlattenSeq(doc) \in Paragraphs
    <2>1. FlattenSeq(M) \in Seq(Paragraphs)  BY FlattenLaw
    <2> QED  BY <2>1, FlattenLaw DEF Paragraphs
  <1>2. FlattenSeq(Append(doc, para)) = FlattenSeq(doc) \o para  BY FlattenLaw DEF Paragraphs
  <1>3. FlattenSeq(Append(C, para)) = FlattenSeq(C) \o para  BY FlattenLaw DEF Paragraphs
  <1>4. FlattenSeq(FlattenSeq(Append(M, C))) = FlattenSeq(doc)
    <2>1. FlattenSeq(Append(M, C)) = FlattenSeq(M) \o C  BY FlattenLaw
    <2>2. FlattenSeq(FlattenSeq(M) \o C) = FlattenSeq(FlattenSeq(M)) \o FlattenSeq(C)
      BY <1>1, TextConcat
    <2> QED  BY <2>1, <2>2
  <1>5. FlattenSeq(FlattenSeq(M)) \o FlattenSeq(Append(C, para)) = FlattenSeq(Append(doc, para))
    <2>1. PICK f \in Seq(Sentences), g \in Seq(Sentences) : f = FlattenSeq(FlattenSeq(M)) /\ g = FlattenSeq(C)
      BY <1>1 DEF Paragraphs
    <2>2. para \in Seq(Sentences)  BY DEF Paragraphs
    <2>3. (f \o g) \o para = f \o (g \o para)  BY <2>2, TextAssociative
    <2> QED  BY <1>2, <1>3, <2>1, <2>3
  <1>6. FlattenSeq(FlattenSeq(Append(M, C))) \o FlattenSeq(<<para>>) = FlattenSeq(Append(doc, para))
    BY <1>2, <1>4, OneParagraph
  <1>7. ASSUME C = <<>>
        PROVE  FlattenSeq(FlattenSeq(M \o SplitAtSentences(para))) = FlattenSeq(Append(doc, para))
    <2>1. FlattenSeq(C) = <<>>  BY <1>7, FlattenLaw
    <2>2. FlattenSeq(FlattenSeq(M)) \o <<>> = FlattenSeq(FlattenSeq(M))  BY <1>1, SeqFacts DEF Paragraphs
    <2>3. FlattenSeq(FlattenSeq(M)) = FlattenSeq(doc)  BY <2>1, <2>2
    <2> QED  BY <2>3, TextSplit
  <1> QED  BY <1>4, <1>5, <1>6, <1>7

LEMMA RangeMore ==
  ASSUME NEW doc \in Seq(Paragraphs), NEW para \in Paragraphs
  PROVE  /\ Append(doc, para) \in Seq(Paragraphs)
         /\ Range(doc) \subseteq Range(Append(doc, para)) /\ para \in Range(Append(doc, para))
  <1>1. Range(Append(doc, para)) = Range(doc) \cup {para}  BY RangeAppend
  <1>2. Append(doc, para) \in Seq(Paragraphs)  OBVIOUS
  <1> QED  BY <1>1, <1>2

\* An oversized paragraph is split, after the chunk that waits.
LEMMA WaitsSplit ==
  ASSUME NEW doc \in Seq(Paragraphs), NEW para \in Paragraphs, ParaTokens(para) > MAX_CHUNK_TOKENS,
         NEW M \in Seq(Seq(Paragraphs)), Chunked(M, Append(doc, para)),
         FlattenSeq(FlattenSeq(M \o SplitAtSentences(para))) = FlattenSeq(Append(doc, para))
  PROVE  /\ M \o SplitAtSentences(para) \in Seq(Seq(Paragraphs))
         /\ Waits(M \o SplitAtSentences(para), <<>>, 0, Append(doc, para))
  <1> DEFINE more == Append(doc, para)
             split == SplitAtSentences(para)
             all == M \o split
  <1>1. PICK parts \in Seq(Paragraphs) :
          /\ split \in Seq(Seq(Paragraphs)) /\ Len(split) = Len(parts)
          /\ \A i \in 1..Len(parts) : split[i] = <<parts[i]>> /\ GoodPart(parts[i], para)
          /\ para # <<>> => Len(parts) > 0
    BY SplitLaw
  <1> HIDE DEF split
  <1>2. para \in Oversized(more)  BY RangeMore DEF Oversized
  <1>3. ASSUME NEW i \in 1..Len(split)
        PROVE  GoodChunk(split[i], more) /\ IsPiece(split[i], more)
    <2>1. PICK part \in Paragraphs : part = parts[i]  BY <1>1
    <2>2. split[i] = <<part>> /\ GoodPart(part, para)  BY <1>1, <2>1
    <2>3. /\ Len(<<part>>) = 1 /\ <<part>> # <<>> /\ <<part>>[1] = part
          /\ ParaTokens(part) \in Nat /\ ChunkTokens(<<part>>) = 0 + ParaTokens(part)
          /\ FlattenSeq(<<part>>) = part
      BY OneParagraph
    <2>4. IsPiece(<<part>>, more)  BY <1>2, <2>2, <2>3 DEF IsPiece, GoodPart
    <2>5. GoodChunk(<<part>>, more)  BY <2>2, <2>3, <2>4 DEF GoodChunk, GoodPart
    <2> QED  BY <2>2, <2>4, <2>5
  <1>4. all \in Seq(Seq(Paragraphs))  BY <1>1
  <1>5. Chunked(all, more)
    <2> HIDE DEF more
    <2>1. Chunked(M, more)  BY DEF more
    <2>2. \A i \in 1..Len(split) : GoodChunk(split[i], more) /\ IsPiece(split[i], more)  BY <1>3
    <2> QED  BY <1>1, <2>1, <2>2, ChunkedConcat
  <1>6. all # <<>> => IsPiece(all[Len(all)], more)
    <2>1. para # <<>>
      <3>1. ParaTokens(<<>>) = 0  BY ParaTokensLaw
      <3>2. MAX_CHUNK_TOKENS \in Nat  BY ParametersAssumption
      <3> QED  BY <3>1, <3>2
    <2>2. Len(split) \in Nat /\ Len(split) > 0 /\ Len(M) \in Nat  BY <1>1, <2>1
    <2>3. Len(all) = Len(M) + Len(split) /\ all[Len(M) + Len(split)] = split[Len(split)]
      <3>1. PICK S \in Seq(Seq(Paragraphs)) : S = split  BY <1>1
      <3>2. Len(M \o S) = Len(M) + Len(S)  OBVIOUS
      <3>3. (M \o S)[Len(M) + Len(S)] = S[Len(S)]  BY <2>2, <3>1
      <3> QED  BY <3>1, <3>2, <3>3
    <2> HIDE DEF all
    <2>5. Len(split) \in 1..Len(split)  BY <2>2
    <2> QED  BY <1>3, <2>3, <2>5
  <1>7. FlattenSeq(FlattenSeq(all)) \o FlattenSeq(<<>>) = FlattenSeq(more)
    <2>1. FlattenSeq(<<>>) = <<>>  BY FlattenLaw
    <2>2. FlattenSeq(more) \in Seq(Sentences)
      <3>1. more \in Seq(Seq(Sentences))  BY RangeMore DEF Paragraphs
      <3> HIDE DEF more
      <3> QED  BY <3>1, FlattenLaw
    <2> HIDE DEF more, all
    <2>3. FlattenSeq(more) \o <<>> = FlattenSeq(more)  BY <2>2, SeqFacts
    <2> QED  BY <2>1, <2>3 DEF more, all, split
  <1>8. ChunkTokens(<<>>) = 0  BY ChunkTokensLaw
  <1> HIDE DEF more, all
  <1>9. Waits(all, <<>>, 0, more)  BY <1>5, <1>6, <1>7, <1>8 DEF Waits
  <1> QED  BY <1>4, <1>9 DEF all, more, split

\* A paragraph begins a chunk.
LEMMA WaitsNew ==
  ASSUME NEW doc \in Seq(Paragraphs), NEW para \in Paragraphs, ~(ParaTokens(para) > MAX_CHUNK_TOKENS),
         NEW M \in Seq(Seq(Paragraphs)), Chunked(M, Append(doc, para)),
         M # <<>> => Cut(M[Len(M)], <<para>>, Append(doc, para)),
         FlattenSeq(FlattenSeq(M)) \o FlattenSeq(<<para>>) = FlattenSeq(Append(doc, para))
  PROVE  Waits(M, <<para>>, 0 + ParaTokens(para), Append(doc, para))
  <1> DEFINE more == Append(doc, para)
  <1>1. /\ Len(<<para>>) = 1 /\ <<para>> # <<>> /\ Range(<<para>>) = {para}
        /\ ParaTokens(para) \in Nat /\ ChunkTokens(<<para>>) = 0 + ParaTokens(para)
        /\ MAX_CHUNK_TOKENS \in Nat
    BY OneParagraph, ParametersAssumption
  <1>2. Range(<<para>>) \subseteq Range(more)  BY <1>1, RangeMore
  <1> HIDE DEF more
  <1>3. ChunkTokens(<<para>>) <= MAX_CHUNK_TOKENS  BY <1>1
  <1>4. GoodChunk(<<para>>, more)  BY <1>1, <1>2, <1>3 DEF GoodChunk
  <1>5. Waits(M, <<para>>, 0 + ParaTokens(para), more)
    BY <1>1, <1>2, <1>3, <1>4, Zenon DEF Waits, more
  <1> QED  BY <1>5 DEF more

\* A paragraph goes to the others.
LEMMA WaitsPut ==
  ASSUME NEW doc \in Seq(Paragraphs), NEW para \in Paragraphs,
         NEW M \in Seq(Seq(Paragraphs)), NEW C \in Seq(Paragraphs), NEW N \in Nat,
         Waits(M, C, N, doc), C # <<>>, ~(N + ParaTokens(para) > TARGET_CHUNK_TOKENS)
  PROVE  Waits(M, Append(C, para), N + ParaTokens(para), Append(doc, para))
  <1> DEFINE more == Append(doc, para)
             chunk == Append(C, para)
  <1>1. /\ FlattenSeq(FlattenSeq(M)) \o FlattenSeq(C) = FlattenSeq(doc)
        /\ N = ChunkTokens(C) /\ Chunked(M, doc)
        /\ Range(C) \subseteq Range(doc)
        /\ M # <<>> => Cut(M[Len(M)], C, doc)
    BY DEF Waits
  <1>2. /\ ParaTokens(para) \in Nat /\ {TARGET_CHUNK_TOKENS, MAX_CHUNK_TOKENS} \subseteq Nat
        /\ TARGET_CHUNK_TOKENS <= MAX_CHUNK_TOKENS
    BY OneParagraph, ParametersAssumption
  <1>3. chunk \in Seq(Paragraphs) /\ chunk # <<>> /\ Len(chunk) > 1 /\ chunk[1] = C[1]
    <2>1. Len(C) \in Nat \ {0} /\ Len(chunk) = Len(C) + 1 /\ chunk \in Seq(Paragraphs)  OBVIOUS
    <2>2. 1 \in 1..Len(C)  BY <2>1
    <2>3. \A i \in 1..Len(C) : chunk[i] = C[i]  OBVIOUS
    <2> HIDE DEF chunk
    <2> QED  BY <2>1, <2>2, <2>3
  <1>4. ChunkTokens(chunk) = N + ParaTokens(para)  BY <1>1, ChunkTokensLaw
  <1>5. FlattenSeq(FlattenSeq(M)) \o FlattenSeq(chunk) = FlattenSeq(more)  BY <1>1, TextGrows
  <1>6. Range(doc) \subseteq Range(more) /\ para \in Range(more)  BY RangeMore
  <1>7. Range(chunk) = Range(C) \cup {para}  BY RangeAppend
  <1> HIDE DEF chunk, more
  <1>8. Range(chunk) \subseteq Range(more)  BY <1>1, <1>6, <1>7
  <1>9. ChunkTokens(chunk) <= TARGET_CHUNK_TOKENS /\ ChunkTokens(chunk) <= MAX_CHUNK_TOKENS
        /\ ~(ChunkTokens(chunk) > MAX_CHUNK_TOKENS)
    BY <1>2, <1>4
  <1>10. GoodChunk(chunk, more)  BY <1>3, <1>8, <1>9 DEF GoodChunk
  <1>11. Chunked(M, more)  BY <1>1, <1>6, ChunkedMonotone
  <1>12. M # <<>> => Cut(M[Len(M)], chunk, more)
    <2>1. Cut(M[Len(M)], C, doc) => Cut(M[Len(M)], C, more)  BY <1>6, ChunkedMonotone
    <2>2. Cut(M[Len(M)], C, more) => Cut(M[Len(M)], chunk, more)  BY <1>3 DEF Cut, BeginsCut
    <2> QED  BY <1>1, <2>1, <2>2
  <1> HIDE DEF chunk, more
  <1>13. Waits(M, chunk, N + ParaTokens(para), more)
    BY <1>3, <1>4, <1>5, <1>8, <1>9, <1>10, <1>11, <1>12, Zenon DEF Waits
  <1> QED  BY <1>13 DEF chunk, more

IsWaiting(b, doc) ==
  \E M \in Seq(Seq(Paragraphs)), C \in Seq(Paragraphs), N \in Nat :
    b = Buffer(M, C, N) /\ Waits(M, C, N, doc)

LEMMA AddParagraphOK ==
  ASSUME NEW doc \in Seq(Paragraphs), NEW para \in Paragraphs, NEW b, IsWaiting(b, doc)
  PROVE  IsWaiting(AddParagraph(b, para), Append(doc, para))
  <1>1. PICK M \in Seq(Seq(Paragraphs)), C \in Seq(Paragraphs), N \in Nat :
          b = Buffer(M, C, N) /\ Waits(M, C, N, doc)
    BY DEF IsWaiting
  <1> DEFINE more == Append(doc, para)
  <1>2. /\ FlattenSeq(FlattenSeq(M)) \o FlattenSeq(C) = FlattenSeq(doc)
        /\ N = ChunkTokens(C) /\ Chunked(M, doc)
        /\ C # <<>> => GoodChunk(C, doc) /\ (M # <<>> => Cut(M[Len(M)], C, doc))
        /\ C = <<>> /\ M # <<>> => IsPiece(M[Len(M)], doc)
    BY <1>1 DEF Waits
  <1>3. /\ more \in Seq(Paragraphs) /\ Range(doc) \subseteq Range(more)
        /\ Chunked(M, more)
        /\ IsPiece(M[Len(M)], doc) => IsPiece(M[Len(M)], more)
    BY <1>2, RangeMore, ChunkedMonotone
  <1>4. /\ Append(M, C) \in Seq(Seq(Paragraphs)) /\ Append(M, C)[Len(Append(M, C))] = C
        /\ Append(C, para) \in Seq(Paragraphs)
    OBVIOUS
  <1>5. C # <<>> => Chunked(Append(M, C), more)
    <2>1. C # <<>> => Chunked(Append(M, C), doc)  BY <1>2, ChunkedAppend
    <2> QED  BY <1>3, <2>1, ChunkedMonotone
  <1>6. /\ ParaTokens(para) \in Nat /\ <<para>> \in Seq(Paragraphs) /\ Append(<<>>, para) = <<para>>
        /\ <<para>>[1] = para /\ <<>> \in Seq(Paragraphs)
    BY OneParagraph, SeqFacts
  <1>7. CASE ParaTokens(para) > MAX_CHUNK_TOKENS /\ C = <<>>
    <2>1. AddParagraph(Buffer(M, C, N), para) = Buffer(M \o SplitAtSentences(para), C, N)
      BY <1>7, SplitFirst
    <2>2. N = 0  BY <1>2, <1>7, ChunkTokensLaw
    <2>3. FlattenSeq(FlattenSeq(M \o SplitAtSentences(para))) = FlattenSeq(more)  BY <1>2, <1>7, TextGrows
    <2>4. /\ M \o SplitAtSentences(para) \in Seq(Seq(Paragraphs))
          /\ Waits(M \o SplitAtSentences(para), <<>>, 0, more)
      BY <1>3, <1>7, <2>3, WaitsSplit
    <2>5. Waits(M \o SplitAtSentences(para), C, N, more)  BY <1>7, <2>2, <2>4
    <2> HIDE DEF more
    <2> QED  BY <1>1, <2>1, <2>4, <2>5, Zenon DEF IsWaiting, more
  <1>8. CASE ParaTokens(para) > MAX_CHUNK_TOKENS /\ C # <<>>
    <2>1. AddParagraph(Buffer(M, C, N), para) = Buffer(Append(M, C) \o SplitAtSentences(para), <<>>, 0)
      BY <1>8, SplitAfter
    <2>2. PICK K \in Seq(Seq(Paragraphs)) : K = Append(M, C)  BY <1>4
    <2>3. FlattenSeq(FlattenSeq(K \o SplitAtSentences(para))) = FlattenSeq(more)
      <3>1. FlattenSeq(FlattenSeq(K)) = FlattenSeq(doc)  BY <1>2, <2>2, TextGrows
      <3> QED  BY <3>1, TextSplit
    <2>4. /\ K \o SplitAtSentences(para) \in Seq(Seq(Paragraphs))
          /\ Waits(K \o SplitAtSentences(para), <<>>, 0, more)
      BY <1>5, <1>8, <2>2, <2>3, WaitsSplit
    <2>5. 0 \in Nat  OBVIOUS
    <2> HIDE DEF more
    <2> QED  BY <1>1, <1>6, <2>1, <2>2, <2>4, <2>5, Zenon DEF IsWaiting, more
  <1>9. CASE ~(ParaTokens(para) > MAX_CHUNK_TOKENS) /\ N + ParaTokens(para) > TARGET_CHUNK_TOKENS /\ C # <<>>
    <2>1. AddParagraph(Buffer(M, C, N), para) = Buffer(Append(M, C), Append(<<>>, para), 0 + ParaTokens(para))
      BY <1>9, PutAfter
    <2>2. PICK K \in Seq(Seq(Paragraphs)) : K = Append(M, C)  BY <1>4
    <2>3. FlattenSeq(FlattenSeq(K)) \o FlattenSeq(<<para>>) = FlattenSeq(more)  BY <1>2, <2>2, TextGrows
    <2>4. Cut(K[Len(K)], <<para>>, more)  BY <1>2, <1>4, <1>6, <1>9, <2>2 DEF Cut
    <2>5. Waits(K, <<para>>, 0 + ParaTokens(para), more)
      BY <1>5, <1>9, <2>2, <2>3, <2>4, WaitsNew
    <2>6. 0 + ParaTokens(para) \in Nat  BY <1>6
    <2>7. AddParagraph(b, para) = Buffer(K, <<para>>, 0 + ParaTokens(para))  BY <1>1, <1>6, <2>1, <2>2
    <2> HIDE DEF more
    <2> QED  BY <1>6, <2>5, <2>6, <2>7, Zenon DEF IsWaiting, more
  <1>10. CASE ~(ParaTokens(para) > MAX_CHUNK_TOKENS) /\ ~(N + ParaTokens(para) > TARGET_CHUNK_TOKENS /\ C # <<>>)
    <2>1. AddParagraph(Buffer(M, C, N), para) = Buffer(M, Append(C, para), N + ParaTokens(para))
      BY <1>10, PutMore
    <2>2. Waits(M, Append(C, para), N + ParaTokens(para), more)
      <3>1. CASE C # <<>>  BY <1>1, <1>10, <3>1, WaitsPut
      <3>2. CASE C = <<>>
        <4>1. N = 0 /\ Append(C, para) = <<para>>  BY <1>2, <1>6, <3>2, ChunkTokensLaw
        <4>2. FlattenSeq(FlattenSeq(M)) \o FlattenSeq(Append(C, para)) = FlattenSeq(more)
          BY <1>2, TextGrows
        <4>3. M # <<>> => Cut(M[Len(M)], <<para>>, more)
          BY <1>2, <1>3, <3>2 DEF Cut, IsPiece, BeginsCut
        <4>4. FlattenSeq(FlattenSeq(M)) \o FlattenSeq(<<para>>) = FlattenSeq(more)  BY <4>1, <4>2
        <4>5. Waits(M, <<para>>, 0 + ParaTokens(para), more)
          BY <1>3, <1>10, <4>3, <4>4, WaitsNew
        <4> QED  BY <4>1, <4>5
      <3> QED  BY <3>1, <3>2
    <2>3. N + ParaTokens(para) \in Nat  BY <1>6
    <2> HIDE DEF more
    <2> QED  BY <1>1, <1>4, <2>1, <2>2, <2>3, Zenon DEF IsWaiting, more
  <1> QED  BY <1>7, <1>8, <1>9, <1>10

MergedParagraphs(doc) == FoldLeft(AddParagraph, EmptyBuffer, doc)

ParagraphBuffers == Buffers(Seq(Seq(Paragraphs)), Seq(Paragraphs))

LEMMA ConcatTyped ==
  ASSUME NEW Y, NEW M \in Seq(Y), NEW S, S \in Seq(Y)
  PROVE  M \o S \in Seq(Y)
  OBVIOUS

LEMMA ParagraphBufferTyped ==
  ASSUME NEW M, M \in Seq(Seq(Paragraphs)), NEW C, C \in Seq(Paragraphs), NEW N, N \in Nat
  PROVE  Buffer(M, C, N) \in ParagraphBuffers
  BY DEF Buffer, Buffers, ParagraphBuffers

LEMMA AddParagraphType ==
  /\ EmptyBuffer \in ParagraphBuffers
  /\ \A b \in ParagraphBuffers, x \in Paragraphs : AddParagraph(b, x) \in ParagraphBuffers
  <1>1. EmptyBuffer \in ParagraphBuffers
    <2>1. EmptyBuffer = Buffer(<<>>, <<>>, 0)  BY DEF EmptyBuffer, Buffer
    <2>2. <<>> \in Seq(Seq(Paragraphs)) /\ <<>> \in Seq(Paragraphs) /\ 0 \in Nat  OBVIOUS
    <2> QED  BY <2>1, <2>2, ParagraphBufferTyped
  <1>2. ASSUME NEW b \in ParagraphBuffers, NEW x \in Paragraphs
        PROVE  AddParagraph(b, x) \in ParagraphBuffers
    <2>1. PICK M \in Seq(Seq(Paragraphs)), C \in Seq(Paragraphs), N \in Nat : b = Buffer(M, C, N)
      BY BufferType DEF ParagraphBuffers
    <2>2. /\ SplitAtSentences(x) \in Seq(Seq(Paragraphs))
          /\ Append(M, C) \in Seq(Seq(Paragraphs)) /\ Append(C, x) \in Seq(Paragraphs)
          /\ <<>> \in Seq(Paragraphs) /\ Append(<<>>, x) \in Seq(Paragraphs)
          /\ ParaTokens(x) \in Nat
      <3>1. SplitAtSentences(x) \in Seq(Seq(Paragraphs))  BY SplitLaw
      <3>2. Append(M, C) \in Seq(Seq(Paragraphs)) /\ Append(C, x) \in Seq(Paragraphs)  OBVIOUS
      <3>3. <<>> \in Seq(Paragraphs)  OBVIOUS
      <3>4. Append(<<>>, x) \in Seq(Paragraphs) /\ ParaTokens(x) \in Nat  BY OneParagraph
      <3> QED  BY <3>1, <3>2, <3>3, <3>4
    <2>3. /\ M \o SplitAtSentences(x) \in Seq(Seq(Paragraphs))
          /\ Append(M, C) \o SplitAtSentences(x) \in Seq(Seq(Paragraphs))
      BY <2>2, ConcatTyped
    <2>4. N + ParaTokens(x) \in Nat /\ 0 + ParaTokens(x) \in Nat /\ 0 \in Nat  BY <2>2
    <2>5. CASE ParaTokens(x) > MAX_CHUNK_TOKENS /\ C = <<>>
      <3>1. AddParagraph(Buffer(M, C, N), x) = Buffer(M \o SplitAtSentences(x), C, N)
        BY <2>5, SplitFirst
      <3> QED  BY <2>1, <2>3, <3>1, ParagraphBufferTyped
    <2>6. CASE ParaTokens(x) > MAX_CHUNK_TOKENS /\ C # <<>>
      <3>1. AddParagraph(Buffer(M, C, N), x) = Buffer(Append(M, C) \o SplitAtSentences(x), <<>>, 0)
        BY <2>6, SplitAfter
      <3> QED  BY <2>1, <2>2, <2>3, <2>4, <3>1, ParagraphBufferTyped
    <2>7. CASE ~(ParaTokens(x) > MAX_CHUNK_TOKENS) /\ N + ParaTokens(x) > TARGET_CHUNK_TOKENS /\ C # <<>>
      <3>1. AddParagraph(Buffer(M, C, N), x) = Buffer(Append(M, C), Append(<<>>, x), 0 + ParaTokens(x))
        BY <2>7, PutAfter
      <3> QED  BY <2>1, <2>2, <2>4, <3>1, ParagraphBufferTyped
    <2>8. CASE ~(ParaTokens(x) > MAX_CHUNK_TOKENS) /\ ~(N + ParaTokens(x) > TARGET_CHUNK_TOKENS /\ C # <<>>)
      <3>1. AddParagraph(Buffer(M, C, N), x) = Buffer(M, Append(C, x), N + ParaTokens(x))
        BY <2>8, PutMore
      <3> QED  BY <2>1, <2>2, <2>4, <3>1, ParagraphBufferTyped
    <2> QED  BY <2>5, <2>6, <2>7, <2>8
  <1> QED  BY <1>1, <1>2

LEMMA MergedParagraphsLaw ==
  /\ MergedParagraphs(<<>>) = EmptyBuffer
  /\ \A s \in Seq(Paragraphs) : MergedParagraphs(s) \in ParagraphBuffers
  /\ \A s \in Seq(Paragraphs), x \in Paragraphs : MergedParagraphs(Append(s, x)) = AddParagraph(MergedParagraphs(s), x)
  <1> DEFINE X == Paragraphs
             F == [q \in ParagraphBuffers \X X |-> AddParagraph(q[1], q[2])]
             f == [s \in Seq(X) |-> MergedParagraphs(s)]
  <1>1. EmptyBuffer \in ParagraphBuffers /\ F \in [ParagraphBuffers \X X -> ParagraphBuffers]  BY AddParagraphType
  <1>2. \A a \in ParagraphBuffers, x \in X : F[<<a, x>>] = AddParagraph(a, x)  OBVIOUS
  <1>3. \A s \in Seq(X) : f[s] = MergedParagraphs(s)  OBVIOUS
  <1> HIDE DEF F, f
  <1>4. ASSUME NEW s \in Seq(X)
        PROVE  \E g : IsPartialFold(g, s, EmptyBuffer, F, ParagraphBuffers) /\ f[s] = g[DOMAIN s]
    <2> DEFINE Step(h) == [t \in SUBSET DOMAIN s |->
                 IF t = {} THEN EmptyBuffer ELSE AddParagraph(h[t \ {Max(t)}], s[Max(t)])]
    <2>1. PICK h : Solves(h, s, EmptyBuffer, F, ParagraphBuffers, X)
      BY <1>1, FoldSolvable
    <2>2. h = Step(h)
      <3>1. \A t \in SUBSET DOMAIN s :
              h[t] = IF t = {} THEN EmptyBuffer ELSE AddParagraph(h[t \ {Max(t)}], s[Max(t)])
        BY <1>2, <2>1 DEF Solves
      <3> QED  BY <2>1, <3>1 DEF Solves
    <2>3. PICK g : g = Step(g) /\ MergedParagraphs(s) = g[DOMAIN s]
      <3>1. MergedParagraphs(s) = (CHOOSE g : g = Step(g))[DOMAIN s]
        BY DEF MergedParagraphs, FoldLeft, MapThenFoldSet
      <3> QED  BY <2>2, <3>1
    <2>4. \A t \in SUBSET DOMAIN s : t # {} => s[Max(t)] \in X  BY Positions
    <2>5. IsPartialFold(g, s, EmptyBuffer, F, ParagraphBuffers)
      BY <1>2, <2>3, <2>4 DEF IsPartialFold
    <2> QED  BY <1>3, <2>3, <2>5
  <1>5. IsFold(f, EmptyBuffer, F, ParagraphBuffers, X)  BY <1>1, <1>4 DEF IsFold
  <1>6. Steps(f, EmptyBuffer, F, ParagraphBuffers, X)  BY <1>5, FoldSteps
  <1>7. <<>> \in Seq(X) /\ \A s \in Seq(X), x \in X : Append(s, x) \in Seq(X)  OBVIOUS
  <1>8. \A s \in Seq(X) : MergedParagraphs(s) \in ParagraphBuffers  BY <1>3, <1>6 DEF Steps
  <1>9. ASSUME NEW s \in Seq(X), NEW x \in X
        PROVE  MergedParagraphs(Append(s, x)) = AddParagraph(MergedParagraphs(s), x)
    <2>1. f[Append(s, x)] = F[<<f[s], x>>] /\ f[s] \in ParagraphBuffers  BY <1>6 DEF Steps
    <2>2. Append(s, x) \in Seq(X)  BY <1>7
    <2> QED  BY <1>2, <1>3, <2>1, <2>2
  <1>10. MergedParagraphs(<<>>) = EmptyBuffer  BY <1>3, <1>6, <1>7 DEF Steps
  <1> QED  BY <1>8, <1>9, <1>10

LEMMA MergedOK == \A doc \in Seq(Paragraphs) : IsWaiting(MergedParagraphs(doc), doc)
  <1> DEFINE S == {doc \in Seq(Paragraphs) : IsWaiting(MergedParagraphs(doc), doc)}
  <1>1. <<>> \in S
    <2>1. EmptyBuffer = Buffer(<<>>, <<>>, 0)  BY DEF EmptyBuffer, Buffer
    <2>2. /\ <<>> \in Seq(Paragraphs) /\ <<>> \in Seq(Seq(Paragraphs)) /\ 0 \in Nat
          /\ <<>> \in Seq(Sentences) /\ Len(<<>>) = 0
      OBVIOUS
    <2>3. FlattenSeq(FlattenSeq(<<>>)) \o FlattenSeq(<<>>) = FlattenSeq(<<>>)  BY <2>2, FlattenLaw, SeqFacts
    <2>4. Chunked(<<>>, <<>>)  BY <2>2 DEF Chunked
    <2>5. Waits(<<>>, <<>>, 0, <<>>)  BY <2>3, <2>4, ChunkTokensLaw DEF Waits
    <2>6. IsWaiting(EmptyBuffer, <<>>)  BY <2>1, <2>2, <2>5, Zenon DEF IsWaiting
    <2> QED  BY <2>2, <2>6, MergedParagraphsLaw
  <1>2. ASSUME NEW doc \in Seq(Paragraphs), NEW para \in Paragraphs, doc \in S
        PROVE  Append(doc, para) \in S
    <2>1. IsWaiting(AddParagraph(MergedParagraphs(doc), para), Append(doc, para))  BY <1>2, AddParagraphOK
    <2>2. Append(doc, para) \in Seq(Paragraphs)  OBVIOUS
    <2> QED  BY <2>1, <2>2, MergedParagraphsLaw
  <1> HIDE DEF S
  <1>3. \A doc \in Seq(Paragraphs) : doc \in S  BY <1>1, <1>2, SeqInduct
  <1> QED  BY <1>3 DEF S

\* Every document is chunked well.
LEMMA ChunkDocumentOK ==
  ASSUME NEW doc \in Seq(Seq(Sentences))
  PROVE  ChunkDocument(doc) \in Seq(Chunks) /\ WellChunked(doc, ChunkDocument(doc))
  <1>0. doc \in Seq(Paragraphs)  BY DEF Paragraphs
  <1>1. PICK M \in Seq(Seq(Paragraphs)), C \in Seq(Paragraphs), N \in Nat :
          MergedParagraphs(doc) = Buffer(M, C, N) /\ Waits(M, C, N, doc)
    BY <1>0, MergedOK DEF IsWaiting
  <1>2. ChunkDocument(doc) = IF C = <<>> THEN M ELSE Append(M, C)
    <2>1. Flush(Buffer(M, C, N)) = IF C = <<>> THEN Buffer(M, C, N) ELSE Buffer(Append(M, C), <<>>, 0)
      BY BufferFields
    <2>2. Buffer(M, C, N).merged = M  BY BufferFields
    <2>3. Buffer(Append(M, C), <<>>, 0).merged = Append(M, C)  BY BufferFields, Zenon
    <2>4. ChunkDocument(doc) = Flush(MergedParagraphs(doc)).merged  BY DEF ChunkDocument, MergedParagraphs
    <2> QED  BY <1>1, <2>1, <2>2, <2>3, <2>4
  <1>3. /\ FlattenSeq(FlattenSeq(M)) \o FlattenSeq(C) = FlattenSeq(doc) /\ Chunked(M, doc)
        /\ C # <<>> => GoodChunk(C, doc) /\ (M # <<>> => Cut(M[Len(M)], C, doc))
    BY <1>1 DEF Waits
  <1>4. CASE C = <<>>
    <2>1. FlattenSeq(FlattenSeq(M)) = FlattenSeq(doc)
      <3>1. FlattenSeq(M) \in Seq(Seq(Sentences))  BY FlattenLaw DEF Paragraphs
      <3>2. FlattenSeq(FlattenSeq(M)) \in Seq(Sentences)  BY <3>1, FlattenLaw
      <3>3. FlattenSeq(FlattenSeq(M)) \o <<>> = FlattenSeq(FlattenSeq(M))  BY <3>2, SeqFacts
      <3> QED  BY <1>3, <1>4, <3>3, FlattenLaw
    <2> QED  BY <1>2, <1>3, <1>4, <2>1, ChunkedIsWell DEF Paragraphs, Chunks
  <1>5. CASE C # <<>>
    <2>1. PICK K \in Seq(Seq(Paragraphs)) : K = Append(M, C)
      <3>1. Append(M, C) \in Seq(Seq(Paragraphs))  OBVIOUS
      <3> QED  BY <3>1
    <2>2. Chunked(K, doc)  BY <1>3, <1>5, <2>1, ChunkedAppend
    <2>3. FlattenSeq(FlattenSeq(K)) = FlattenSeq(doc)
      <3>1. FlattenSeq(M) \in Seq(Paragraphs)  BY FlattenLaw
      <3>2. FlattenSeq(Append(M, C)) = FlattenSeq(M) \o C  BY FlattenLaw
      <3>3. FlattenSeq(FlattenSeq(M) \o C) = FlattenSeq(FlattenSeq(M)) \o FlattenSeq(C)
        BY <3>1, TextConcat
      <3> QED  BY <1>3, <2>1, <3>2, <3>3
    <2>4. WellChunked(doc, K)  BY <2>2, <2>3, ChunkedIsWell
    <2> QED  BY <1>2, <1>5, <2>1, <2>4 DEF Paragraphs, Chunks
  <1> QED  BY <1>4, <1>5

FilesOK == files \in [Files -> Documents]

LEMMA FilesStep ==
  ASSUME FilesOK, [Next]_vars
  PROVE  FilesOK'
  <1>1. CASE Edit  BY <1>1 DEF FilesOK, Edit
  <1>2. CASE UNCHANGED files  BY <1>2 DEF FilesOK
  <1>3. Edit \/ UNCHANGED files
    <2>1. \A j \in Syncs : Sync(j) => UNCHANGED files
      BY DEF Sync, Load, Embed, FetchHashes, AddChunk, LoopEnds, Commit, CommitFails, Raise,
             LoseWorker, TimeLimit
    <2>2. Search => UNCHANGED files
      BY Zenon DEF Search, DenseSearch, DenseFails, SparseSearch, RerankHit, RerankMiss, StoreRanking,
                   Return, Expire
    <2> QED  BY <2>1, <2>2 DEF Next, vars
  <1> QED  BY <1>1, <1>2, <1>3

\* The files hold documents, whatever is edited.
THEOREM DocumentsStay == Spec => []FilesOK
  <1>1. Init => FilesOK  BY DEF Init, FilesOK
  <1>2. FilesOK /\ [Next]_vars => FilesOK'  BY FilesStep
  <1> QED  BY <1>1, <1>2, PTL DEF Spec

\* Every document is chunked well, whatever it is edited to: its sentences
\* come out in order with nothing lost, a chunk exceeds its size only by a
\* single sentence, and nothing is cut without need (chunker.py:4-8).
THEOREM FilesChunkedWell == Spec => []FilesAreWellChunked
  <1>1. FilesOK => FilesAreWellChunked
    <2> SUFFICES ASSUME FilesOK, NEW f \in Files
                 PROVE  WellChunked(files[f], ChunkDocument(files[f]))
      BY DEF FilesAreWellChunked
    <2>1. files[f] \in Seq(Seq(Sentences))  BY KnowledgeAssumption DEF FilesOK
    <2> QED  BY <2>1, ChunkDocumentOK
  <1> QED  BY <1>1, DocumentsStay, PTL

------------------------------------------------------------------------------
(* The lists of a search.                                                  *)

LEMMA TopLaw ==
  ASSUME NEW X, NEW list \in Seq(X), NEW n \in Nat
  PROVE  /\ Top(list, n) \in Seq(X)
         /\ Len(Top(list, n)) = IF n < Len(list) THEN n ELSE Len(list)
         /\ \A i \in 1..Len(Top(list, n)) : Top(list, n)[i] = list[i] /\ i \in 1..Len(list)
         /\ Range(Top(list, n)) \subseteq Range(list)
  <1> DEFINE m == IF n < Len(list) THEN n ELSE Len(list)
             top == Top(list, n)
  <1>1. m \in Nat /\ m <= Len(list) /\ Len(list) \in Nat /\ DOMAIN list = 1..Len(list)  OBVIOUS
  <1>2. top = SubSeq(list, 1, m)  BY DEF Top
  <1> HIDE DEF m, top
  <1>3. \A i \in 1..m : list[i] \in X  BY <1>1
  <1>4. /\ top \in Seq(X) /\ Len(top) = m
        /\ \A i \in 1..m : top[i] = list[i]
    <2>1. /\ SubSeq(list, 1, m) \in Seq(X)
          /\ Len(SubSeq(list, 1, m)) = IF 1 <= m THEN m - 1 + 1 ELSE 0
          /\ \A i \in 1..(m - 1 + 1) : SubSeq(list, 1, m)[i] = list[1 + i - 1]
      BY <1>1, <1>3, SubSeqProperties
    <2>2. m - 1 + 1 = m /\ \A i \in 1..m : 1 + i - 1 = i  BY <1>1
    <2>3. (IF 1 <= m THEN m - 1 + 1 ELSE 0) = m  BY <1>1
    <2> QED  BY <1>2, <2>1, <2>2, <2>3
  <1>5. \A i \in 1..Len(top) : top[i] = list[i] /\ i \in 1..Len(list)  BY <1>1, <1>4
  <1>6. DOMAIN top = 1..Len(top)  BY <1>4
  <1>7. Range(top) \subseteq Range(list)  BY <1>1, <1>5, <1>6 DEF Range
  <1> QED  BY <1>4, <1>5, <1>7 DEF m, top

\* The beginning of the beginning.
LEMMA TopOfTop ==
  ASSUME NEW X, NEW list \in Seq(X), NEW m \in Nat, NEW n \in Nat
  PROVE  \E k \in Nat : k <= m /\ k <= n /\ Top(Top(list, m), n) = Top(list, k)
                          /\ (n <= m => k = n)
  <1>1. PICK top \in Seq(X) : top = Top(list, m)  BY TopLaw
  <1> DEFINE k == IF n < m THEN n ELSE m
  <1>2. k \in Nat /\ k <= m /\ k <= n /\ (n <= m => k = n)  OBVIOUS
  <1>3. /\ Len(top) = IF m < Len(list) THEN m ELSE Len(list)
        /\ \A i \in 1..Len(top) : top[i] = list[i]
    BY <1>1, TopLaw
  <1>4. /\ Top(top, n) \in Seq(X)
        /\ Len(Top(top, n)) = IF n < Len(top) THEN n ELSE Len(top)
        /\ \A i \in 1..Len(Top(top, n)) : Top(top, n)[i] = top[i] /\ i \in 1..Len(top)
    BY TopLaw
  <1>5. /\ Top(list, k) \in Seq(X)
        /\ Len(Top(list, k)) = IF k < Len(list) THEN k ELSE Len(list)
        /\ \A i \in 1..Len(Top(list, k)) : Top(list, k)[i] = list[i]
    BY <1>2, TopLaw
  <1>6. Len(Top(top, n)) = Len(Top(list, k))
    <2>1. Len(list) \in Nat  OBVIOUS
    <2> QED  BY <1>3, <1>4, <1>5, <2>1
  <1>7. \A i \in 1..Len(Top(top, n)) : Top(top, n)[i] = Top(list, k)[i]
    BY <1>3, <1>4, <1>5, <1>6
  <1>8. Top(top, n) = Top(list, k)  BY <1>4, <1>5, <1>6, <1>7, SeqEqual
  <1> HIDE DEF k
  <1> QED  BY <1>1, <1>2, <1>8

LEMMA TopAll ==
  ASSUME NEW X, NEW list \in Seq(X), NEW n \in Nat, Len(list) <= n
  PROVE  Top(list, n) = list
  <1>1. /\ Top(list, n) \in Seq(X)
        /\ Len(Top(list, n)) = Len(list)
        /\ \A i \in 1..Len(Top(list, n)) : Top(list, n)[i] = list[i]
    <2>1. Len(list) \in Nat /\ ~(n < Len(list))  OBVIOUS
    <2> QED  BY <2>1, TopLaw
  <1> QED  BY <1>1, SeqEqual

\* One block more takes at least as many tokens.
LEMMA ContextGrows ==
  ASSUME NEW list \in Seq(Seq(Paragraphs)), NEW n \in Nat
  PROVE  ContextTokens(Top(list, n)) <= ContextTokens(Top(list, n + 1))
  <1>1. CASE Len(list) <= n
    <2>1. Len(list) <= n + 1 /\ n + 1 \in Nat  BY <1>1
    <2>2. Top(list, n) = list /\ Top(list, n + 1) = list  BY <1>1, <2>1, TopAll
    <2>3. ContextTokens(list) \in Nat  BY ContextTokensLaw
    <2> QED  BY <2>2, <2>3
  <1>2. CASE ~(Len(list) <= n)
    <2>1. n + 1 \in 1..Len(list) /\ n + 1 \in Nat /\ n < Len(list)  BY <1>2
    <2>2. PICK small \in Seq(Seq(Paragraphs)), block \in Seq(Paragraphs) :
            small = Top(list, n) /\ block = list[n + 1]
      BY <2>1, TopLaw
    <2>3. Len(small) = n /\ \A i \in 1..n : small[i] = list[i]
      BY <2>1, <2>2, TopLaw
    <2>4. /\ Top(list, n + 1) \in Seq(Seq(Paragraphs))
          /\ Len(Top(list, n + 1)) = n + 1
          /\ \A i \in 1..(n + 1) : Top(list, n + 1)[i] = list[i]
      <3>1. PICK m \in Nat : m = n + 1  BY <2>1
      <3>2. Len(list) \in Nat /\ (IF m < Len(list) THEN m ELSE Len(list)) = m  BY <2>1, <3>1
      <3>3. /\ Top(list, m) \in Seq(Seq(Paragraphs))
            /\ Len(Top(list, m)) = m
            /\ \A i \in 1..Len(Top(list, m)) : Top(list, m)[i] = list[i]
        BY <3>2, TopLaw
      <3> QED  BY <3>1, <3>3
    <2>5. /\ Append(small, block) \in Seq(Seq(Paragraphs)) /\ Len(Append(small, block)) = n + 1
          /\ \A i \in 1..n : Append(small, block)[i] = small[i]
          /\ Append(small, block)[n + 1] = block
      BY <2>3
    <2>6. \A i \in 1..(n + 1) : Append(small, block)[i] = list[i]  BY <2>2, <2>3, <2>5
    <2>7. Top(list, n + 1) = Append(small, block)  BY <2>4, <2>5, <2>6, SeqEqual
    <2>8. ContextTokens(Append(small, block)) = ContextTokens(small) + BlockTokens(block)
          /\ ContextTokens(small) \in Nat /\ BlockTokens(block) \in Nat
      BY ContextTokensLaw, BlockTokensType
    <2>9. ContextTokens(small) <= ContextTokens(Append(small, block))  BY <2>8
    <2> QED  BY <2>2, <2>7, <2>9
  <1> QED  BY <1>1, <1>2

LEMMA ContextType ==
  ASSUME NEW list \in Seq(Seq(Paragraphs)), NEW n \in Nat
  PROVE  ContextTokens(Top(list, n)) \in Nat
  <1>1. Top(list, n) \in Seq(Seq(Paragraphs))  BY TopLaw
  <1> QED  BY <1>1, ContextTokensLaw

LEMMA ContextMonotone ==
  ASSUME NEW list \in Seq(Seq(Paragraphs)), NEW m \in Nat, NEW n \in Nat, m <= n
  PROVE  ContextTokens(Top(list, m)) <= ContextTokens(Top(list, n))
  <1> DEFINE More(d) == ContextTokens(Top(list, m)) <= ContextTokens(Top(list, m + d))
             S == {d \in Nat : More(d)}
  <1>1. 0 \in S
    <2>1. ContextTokens(Top(list, m)) \in Nat /\ m + 0 = m  BY ContextType
    <2> QED  BY <2>1
  <1>2. ASSUME NEW d \in Nat, d \in S  PROVE d + 1 \in S
    <2>1. PICK k \in Nat : k = m + d  OBVIOUS
    <2>2. m + (d + 1) = k + 1 /\ k + 1 \in Nat /\ d + 1 \in Nat  BY <2>1
    <2>3. ContextTokens(Top(list, k)) <= ContextTokens(Top(list, k + 1))  BY ContextGrows
    <2>4. ContextTokens(Top(list, m)) <= ContextTokens(Top(list, k))  BY <1>2, <2>1
    <2>5. /\ ContextTokens(Top(list, m)) \in Nat /\ ContextTokens(Top(list, k)) \in Nat
          /\ ContextTokens(Top(list, k + 1)) \in Nat
      BY <2>2, ContextType
    <2>6. ContextTokens(Top(list, m)) <= ContextTokens(Top(list, k + 1))  BY <2>3, <2>4, <2>5
    <2> QED  BY <2>2, <2>6
  <1> HIDE DEF S
  <1>3. \A d \in Nat : d \in S  BY <1>1, <1>2, Induct
  <1>4. n - m \in Nat /\ m + (n - m) = n  OBVIOUS
  <1>5. PICK d \in Nat : d = n - m  BY <1>4
  <1> QED  BY <1>3, <1>4, <1>5 DEF S

\* The last block apart, a context fits.
Fits(context) ==
  context # <<>> => ContextTokens(Top(context, Len(context) - 1)) <= MAX_CONTEXT_TOKENS

LEMMA FitsExists ==
  ASSUME NEW list \in Seq(Seq(Paragraphs))
  PROVE  \E n \in 0..Len(list) :
           /\ ContextTokens(Top(list, n)) <= MAX_CONTEXT_TOKENS
           /\ n < Len(list) => ContextTokens(Top(list, n + 1)) > MAX_CONTEXT_TOKENS
  <1> DEFINE Full(n) == n < Len(list) => ContextTokens(Top(list, n + 1)) > MAX_CONTEXT_TOKENS
             T == {n \in 0..Len(list) : Full(n)}
  <1>1. Len(list) \in Nat /\ MAX_CONTEXT_TOKENS \in Nat  BY ParametersAssumption
  <1>2. \A n \in Nat : ContextTokens(Top(list, n)) \in Nat  BY ContextType
  <1>3. Full(Len(list))  BY <1>1
  <1>4. \A n \in Nat : n < Len(list) /\ ~Full(n) => ContextTokens(Top(list, n + 1)) <= MAX_CONTEXT_TOKENS
    BY <1>1, <1>2
  <1> HIDE DEF Full
  <1>5. PICK n \in T : \A k \in T : n <= k
    <2>1. Len(list) \in T /\ T \subseteq Nat  BY <1>1, <1>3
    <2> HIDE DEF T
    <2> QED  BY <2>1, LeastOf
  <1>6. n \in 0..Len(list) /\ Full(n)  BY <1>5
  <1>7. ContextTokens(Top(list, n)) <= MAX_CONTEXT_TOKENS
    <2>1. CASE n = 0
      <3>1. Top(list, 0) \in Seq(Seq(Paragraphs)) /\ Len(Top(list, 0)) = 0
        <4>1. (IF 0 < Len(list) THEN 0 ELSE Len(list)) = 0 /\ 0 \in Nat  BY <1>1
        <4> QED  BY <4>1, TopLaw
      <3>2. Top(list, 0) = <<>>  BY <3>1
      <3> QED  BY <1>1, <2>1, <3>2, ContextTokensLaw
    <2>2. CASE n # 0
      <3>1. n - 1 \in 0..Len(list) /\ n - 1 < Len(list) /\ n - 1 \in Nat /\ n - 1 + 1 = n /\ ~(n <= n - 1)
        BY <1>1, <1>6, <2>2
      <3>2. ~Full(n - 1)  BY <1>5, <3>1
      <3>3. PICK p \in Nat : p = n - 1  BY <3>1
      <3>4. ContextTokens(Top(list, p + 1)) <= MAX_CONTEXT_TOKENS  BY <1>4, <3>1, <3>2, <3>3
      <3> QED  BY <3>1, <3>3, <3>4
    <2> QED  BY <2>1, <2>2
  <1> QED  BY <1>6, <1>7 DEF Full

\* A context is the beginning of the list, and it fits but for its last block.
LEMMA BuildContextLaw ==
  ASSUME NEW list \in Seq(Seq(Paragraphs))
  PROVE  /\ \E n \in Nat : BuildContext(list) = Top(list, n)
         /\ Fits(BuildContext(list))
  <1> DEFINE P(n) == /\ ContextTokens(Top(list, n)) <= MAX_CONTEXT_TOKENS
                     /\ n < Len(list) => ContextTokens(Top(list, n + 1)) > MAX_CONTEXT_TOKENS
             fits == CHOOSE n \in 0..Len(list) : P(n)
             room == MAX_CONTEXT_TOKENS - ContextTokens(Top(list, fits))
  <1>0. Len(list) \in Nat /\ MAX_CONTEXT_TOKENS \in Nat  BY ParametersAssumption
  <1>1. fits \in 0..Len(list) /\ P(fits)
    <2>1. \E n \in 0..Len(list) : P(n)  BY FitsExists
    <2> HIDE DEF P
    <2> QED  BY <2>1
  <1>2. BuildContext(list) = Top(list, IF room > MIN_ROOM THEN fits + 1 ELSE fits)
    BY DEF BuildContext
  <1>3. fits \in Nat /\ ContextTokens(Top(list, fits)) <= MAX_CONTEXT_TOKENS  BY <1>0, <1>1
  <1> HIDE DEF fits, room, P
  <1>4. PICK n \in {fits, fits + 1} : BuildContext(list) = Top(list, n)  BY <1>2
  <1>5. n \in Nat /\ n <= fits + 1  BY <1>3, <1>4
  <1>6. PICK context \in Seq(Seq(Paragraphs)) : context = Top(list, n)  BY <1>5, TopLaw
  <1>7. Fits(context)
    <2> SUFFICES ASSUME context # <<>>
                 PROVE  ContextTokens(Top(context, Len(context) - 1)) <= MAX_CONTEXT_TOKENS
      BY DEF Fits
    <2>1. PICK k \in Nat : k = Len(context) - 1
      <3>1. Len(context) \in Nat \ {0}  OBVIOUS
      <3>2. Len(context) - 1 \in Nat  BY <3>1
      <3> QED  BY <3>2
    <2>2. Len(context) <= n /\ Len(context) \in Nat
      <3>1. Len(context) = IF n < Len(list) THEN n ELSE Len(list)  BY <1>5, <1>6, TopLaw
      <3> QED  BY <1>0, <1>5, <3>1
    <2>3. k <= n /\ k <= fits  BY <1>3, <1>5, <2>1, <2>2
    <2>4. PICK m \in Nat : m = k /\ Top(Top(list, n), k) = Top(list, m)
      <3>1. \E m \in Nat : m <= n /\ m <= k /\ Top(Top(list, n), k) = Top(list, m) /\ (k <= n => m = k)
        BY <1>5, TopOfTop
      <3> QED  BY <2>3, <3>1
    <2>5. ContextTokens(Top(list, k)) <= MAX_CONTEXT_TOKENS
      <3>1. ContextTokens(Top(list, k)) <= ContextTokens(Top(list, fits))  BY <1>3, <2>3, ContextMonotone
      <3>2. ContextTokens(Top(list, k)) \in Nat /\ ContextTokens(Top(list, fits)) \in Nat
        BY <1>3, ContextType
      <3> QED  BY <1>0, <1>3, <3>1, <3>2
    <2> QED  BY <1>6, <2>1, <2>4, <2>5
  <1> QED  BY <1>4, <1>5, <1>6, <1>7

------------------------------------------------------------------------------
(* Scores.  1/d + 1/s for the ranks d and s, compared by cross products.   *)

Positive == Nat \ {0}

LEMMA ProductPositive == ASSUME NEW a \in Positive, NEW b \in Positive  PROVE a * b \in Positive
  BY DEF Positive

LEMMA ProductGrows ==
  ASSUME NEW a \in Positive, NEW b \in Positive, NEW c \in Positive, a <= b
  PROVE  a * c <= b * c /\ (a < b => a * c < b * c)
  <1>1. PICK d \in Nat : b = a + d  BY DEF Positive
  <1>2. (a + d) * c = a * c + d * c  BY <1>1 DEF Positive
  <1>3. d * c \in Nat /\ a * c \in Nat  BY <1>1 DEF Positive
  <1>4. ASSUME a < b  PROVE a * c < b * c
    <2>1. d \in Positive  BY <1>1, <1>4 DEF Positive
    <2>2. d * c \in Positive  BY <2>1, ProductPositive
    <2> HIDE DEF Positive
    <2> QED  BY <1>1, <1>2, <1>3, <2>2 DEF Positive
  <1> QED  BY <1>1, <1>2, <1>3, <1>4

\* The better of two ranks in each of two lists.
LEMMA BothBetter ==
  ASSUME NEW d1 \in Positive, NEW s1 \in Positive, NEW d2 \in Positive, NEW s2 \in Positive,
         d1 <= d2, s1 <= s2, d1 < d2 \/ s1 < s2
  PROVE  (d1 + s1) * (d2 * s2) > (d2 + s2) * (d1 * s1)
  <1> DEFINE dd == d1 * d2
             ss == s1 * s2
  <1>1. dd \in Positive /\ ss \in Positive  BY ProductPositive
  <1>2. (d1 + s1) * (d2 * s2) = dd * s2 + ss * d2  BY DEF Positive
  <1>3. (d2 + s2) * (d1 * s1) = dd * s1 + ss * d1  BY DEF Positive
  <1> HIDE DEF dd, ss
  <1>4. /\ s1 * dd <= s2 * dd /\ (s1 < s2 => s1 * dd < s2 * dd)
        /\ d1 * ss <= d2 * ss /\ (d1 < d2 => d1 * ss < d2 * ss)
    BY <1>1, ProductGrows
  <1>5. /\ dd * s1 = s1 * dd /\ dd * s2 = s2 * dd /\ ss * d1 = d1 * ss /\ ss * d2 = d2 * ss
        /\ {s1 * dd, s2 * dd, d1 * ss, d2 * ss} \subseteq Nat
    BY <1>1 DEF Positive
  <1> QED  BY <1>2, <1>3, <1>4, <1>5

\* No rank is worse than one, and being in a second list as well is better.
LEMMA OneMoreList ==
  ASSUME NEW d1 \in Positive, NEW s1 \in Positive, NEW d2 \in Positive, d1 <= d2
  PROVE  (d1 + s1) * d2 > 1 * (d1 * s1)
  <1>1. /\ d1 * d2 \in Positive /\ s1 * d2 \in Nat /\ d1 * s1 \in Nat
    <2>1. d1 * d2 \in Positive /\ s1 * d2 \in Positive /\ d1 * s1 \in Positive  BY ProductPositive
    <2> QED  BY <2>1 DEF Positive
  <1>2. (d1 + s1) * d2 = d1 * d2 + s1 * d2  BY DEF Positive
  <1>3. d1 * s1 <= d2 * s1  BY ProductGrows
  <1>4. d2 * s1 = s1 * d2  BY DEF Positive
  <1>5. d1 * d2 > 0 /\ d1 * d2 \in Nat  BY <1>1 DEF Positive
  <1> QED  BY <1>1, <1>2, <1>3, <1>4, <1>5

LEMMA RankType ==
  ASSUME NEW X, NEW list \in Seq(X), NEW x, IsIn(x, list)
  PROVE  RankOf(x, list) \in 1..Len(list) /\ RankOf(x, list) + RRF_K \in Positive
  <1>1. RankOf(x, list) \in DOMAIN list  BY DEF IsIn, RankOf
  <1>2. DOMAIN list = 1..Len(list) /\ Len(list) \in Nat /\ RRF_K \in Nat  BY ParametersAssumption
  <1> QED  BY <1>1, <1>2 DEF Positive

\* The chunk that beats another has the higher score.
LEMMA BeatsScores ==
  ASSUME NEW X, NEW dense \in Seq(X), NEW sparse \in Seq(X), NEW x, NEW y,
         IsIn(x, dense) \/ IsIn(x, sparse), Beats(y, x, dense, sparse)
  PROVE  HigherScore(Score(y, dense, sparse), Score(x, dense, sparse))
  <1> DEFINE dx == RankOf(x, dense) + RRF_K
             sx == RankOf(x, sparse) + RRF_K
             dy == RankOf(y, dense) + RRF_K
             sy == RankOf(y, sparse) + RRF_K
  <1>1. /\ IsIn(x, dense) => dx \in Positive /\ RankOf(x, dense) \in Nat
        /\ IsIn(x, sparse) => sx \in Positive /\ RankOf(x, sparse) \in Nat
        /\ IsIn(y, dense) => dy \in Positive /\ RankOf(y, dense) \in Nat
        /\ IsIn(y, sparse) => sy \in Positive /\ RankOf(y, sparse) \in Nat
    <2>1. ASSUME NEW z, NEW list \in Seq(X), IsIn(z, list)
          PROVE  RankOf(z, list) + RRF_K \in Positive /\ RankOf(z, list) \in Nat
      <3>1. RankOf(z, list) \in 1..Len(list) /\ RankOf(z, list) + RRF_K \in Positive
        BY <2>1, RankType
      <3>2. Len(list) \in Nat  OBVIOUS
      <3> QED  BY <3>1, <3>2
    <2> QED  BY <2>1
  <1>2. RRF_K \in Nat  BY ParametersAssumption
  <1>3. IsIn(x, dense) => IsIn(y, dense) /\ dy <= dx
    <2>1. IsIn(x, dense) => IsIn(y, dense) /\ RankOf(y, dense) <= RankOf(x, dense)
      BY DEF Beats, NotLater
    <2> QED  BY <1>1, <1>2, <2>1
  <1>4. IsIn(x, sparse) => IsIn(y, sparse) /\ sy <= sx
    <2>1. IsIn(x, sparse) => IsIn(y, sparse) /\ RankOf(y, sparse) <= RankOf(x, sparse)
      BY DEF Beats, NotLater
    <2> QED  BY <1>1, <1>2, <2>1
  <1>5. \/ IsIn(y, dense) /\ (~IsIn(x, dense) \/ dy < dx)
        \/ IsIn(y, sparse) /\ (~IsIn(x, sparse) \/ sy < sx)
    <2>1. \/ IsIn(y, dense) /\ (~IsIn(x, dense) \/ ~(RankOf(x, dense) <= RankOf(y, dense)))
          \/ IsIn(y, sparse) /\ (~IsIn(x, sparse) \/ ~(RankOf(x, sparse) <= RankOf(y, sparse)))
      BY DEF Beats, NotLater
    <2> QED  BY <1>1, <1>2, <2>1
  <1>6. /\ IsIn(x, dense) /\ IsIn(x, sparse) => Score(x, dense, sparse) = <<dx + sx, dx * sx>>
        /\ IsIn(x, dense) /\ ~IsIn(x, sparse) => Score(x, dense, sparse) = <<1, dx>>
        /\ ~IsIn(x, dense) => Score(x, dense, sparse) = <<1, sx>>
        /\ IsIn(y, dense) /\ IsIn(y, sparse) => Score(y, dense, sparse) = <<dy + sy, dy * sy>>
        /\ IsIn(y, dense) /\ ~IsIn(y, sparse) => Score(y, dense, sparse) = <<1, dy>>
        /\ ~IsIn(y, dense) => Score(y, dense, sparse) = <<1, sy>>
    BY DEF Score
  <1> HIDE DEF dx, sx, dy, sy
  <1>7. ASSUME NEW a, NEW b, NEW c, NEW d
        PROVE  HigherScore(<<a, b>>, <<c, d>>) <=> a * d > c * b
    BY DEF HigherScore
  <1>8. CASE IsIn(x, dense) /\ IsIn(x, sparse)
    <2>1. (dy + sy) * (dx * sx) > (dx + sx) * (dy * sy)  BY <1>1, <1>3, <1>4, <1>5, <1>8, BothBetter
    <2> QED  BY <1>3, <1>4, <1>6, <1>7, <1>8, <2>1, Zenon
  <1>9. CASE IsIn(x, dense) /\ ~IsIn(x, sparse) /\ IsIn(y, sparse)
    <2>1. (dy + sy) * dx > 1 * (dy * sy)  BY <1>1, <1>3, <1>9, OneMoreList
    <2> QED  BY <1>3, <1>6, <1>7, <1>9, <2>1, Zenon
  <1>10. CASE IsIn(x, dense) /\ ~IsIn(x, sparse) /\ ~IsIn(y, sparse)
    <2>1. 1 * dx > 1 * dy  BY <1>1, <1>3, <1>5, <1>10 DEF Positive
    <2> QED  BY <1>3, <1>6, <1>7, <1>10, <2>1, Zenon
  <1>11. CASE ~IsIn(x, dense) /\ IsIn(y, dense)
    <2>1. (sy + dy) * sx > 1 * (sy * dy)  BY <1>1, <1>4, <1>11, OneMoreList
    <2>2. sy + dy = dy + sy /\ sy * dy = dy * sy  BY <1>1, <1>4, <1>11 DEF Positive
    <2>3. (dy + sy) * sx > 1 * (dy * sy)  BY <2>1, <2>2
    <2> QED  BY <1>4, <1>6, <1>7, <1>11, <2>3, Zenon
  <1>12. CASE ~IsIn(x, dense) /\ ~IsIn(y, dense)
    <2>1. 1 * sx > 1 * sy  BY <1>1, <1>4, <1>5, <1>12 DEF Positive
    <2> QED  BY <1>4, <1>6, <1>7, <1>12, <2>1, Zenon
  <1> QED  BY <1>8, <1>9, <1>10, <1>11, <1>12

------------------------------------------------------------------------------
(* The fusion holds every chunk that was found.                            *)

LEMMA RangeFinite ==
  ASSUME NEW X, NEW s \in Seq(X)
  PROVE  IsFiniteSet(Range(s)) /\ Range(s) \subseteq X
  <1>1. DOMAIN s = 1..Len(s) /\ Len(s) \in Nat /\ s \in [1..Len(s) -> X]  OBVIOUS
  <1>2. s \in Surjection(1..Len(s), Range(s))
    <2>1. s \in [1..Len(s) -> Range(s)]  BY <1>1 DEF Range
    <2> QED  BY <1>1, <2>1 DEF Surjection, Range
  <1>3. IsFiniteSet(1..Len(s))  BY <1>1, FS_Interval
  <1> QED  BY <1>1, <1>2, <1>3, FS_Surjection DEF Range

LEMMA ListsOfSet ==
  ASSUME NEW S, IsFiniteSet(S), NEW list, list \in SetToSeqs(S)
  PROVE  /\ list \in Seq(S)
         /\ \A x \in S : \E i \in 1..Len(list) : list[i] = x
         /\ \A i, j \in 1..Len(list) : list[i] = list[j] => i = j
  <1> DEFINE D == 1..Cardinality(S)
  <1>1. list \in [D -> S] /\ \A i, j \in D : i # j => list[i] # list[j]  BY DEF SetToSeqs
  <1>2. Cardinality(S) \in Nat  BY FS_CardinalityType
  <1>3. Cardinality(D) = Cardinality(S)  BY <1>2, FS_Interval
  <1>4. list \in Injection(D, S)
    <2> HIDE DEF D
    <2> QED  BY <1>1 DEF Injection, IsInjective
  <1>5. list \in Surjection(D, S)  BY <1>3, <1>4, FS_Injection
  <1>6. list \in Seq(S) /\ Len(list) = Cardinality(S)  BY <1>1, <1>2
  <1> QED  BY <1>1, <1>5, <1>6 DEF Surjection

Fused(list, dense, sparse) ==
  /\ \A x \in Range(dense) \cup Range(sparse) : \E i \in 1..Len(list) : list[i] = x
  /\ \A i, j \in 1..Len(list) :
       HigherScore(Score(list[i], dense, sparse), Score(list[j], dense, sparse)) => i < j

LEMMA FusionLaw ==
  ASSUME NEW X, NEW dense \in Seq(X), NEW sparse \in Seq(X), NEW list \in Fusions(dense, sparse)
  PROVE  /\ list \in Seq(Range(dense) \cup Range(sparse)) /\ list \in Seq(X)
         /\ Fused(list, dense, sparse)
  <1> DEFINE S == Range(dense) \cup Range(sparse)
  <1>1. /\ list \in SetToSeqs(S)
        /\ \A i, j \in DOMAIN list :
             HigherScore(Score(list[i], dense, sparse), Score(list[j], dense, sparse)) => i < j
    BY DEF Fusions
  <1>2. IsFiniteSet(S) /\ S \subseteq X
    <2>1. IsFiniteSet(Range(dense)) /\ IsFiniteSet(Range(sparse)) /\ S \subseteq X  BY RangeFinite
    <2> QED  BY <2>1, FS_Union
  <1> HIDE DEF S
  <1>3. /\ list \in Seq(S)
        /\ \A x \in S : \E i \in 1..Len(list) : list[i] = x
    BY <1>1, <1>2, ListsOfSet
  <1>4. DOMAIN list = 1..Len(list) /\ list \in Seq(X)  BY <1>2, <1>3
  <1> QED  BY <1>1, <1>3, <1>4, Zenon DEF Fused, S

\* Its beginning leaves out nothing that beats what is in it.
LEMMA BeginningIsBest ==
  ASSUME NEW X, NEW dense \in Seq(X), NEW sparse \in Seq(X), NEW list \in Seq(X),
         list \in Seq(Range(dense) \cup Range(sparse)),
         Fused(list, dense, sparse), NEW n \in Nat,
         NEW x \in Range(Top(list, n)),
         NEW y \in (Range(dense) \cup Range(sparse)) \ Range(Top(list, n))
  PROVE  ~Beats(y, x, dense, sparse)
  <1> SUFFICES ASSUME Beats(y, x, dense, sparse)  PROVE FALSE
    OBVIOUS
  <1> DEFINE top == Top(list, n)
  <1>1. /\ top \in Seq(X)
        /\ Len(top) = IF n < Len(list) THEN n ELSE Len(list)
        /\ \A i \in 1..Len(top) : top[i] = list[i] /\ i \in 1..Len(list)
    BY TopLaw
  <1>2. DOMAIN top = 1..Len(top) /\ Len(list) \in Nat /\ Len(top) \in Nat /\ DOMAIN list = 1..Len(list)
    BY <1>1
  <1> HIDE DEF top
  <1>3. PICK i \in 1..Len(top) : top[i] = x  BY <1>2 DEF Range, top
  <1>4. PICK j \in 1..Len(list) : list[j] = y  BY DEF Fused
  <1>5. i \in 1..Len(list) /\ list[i] = x  BY <1>1, <1>3
  <1>6. IsIn(x, dense) \/ IsIn(x, sparse)
    <2>1. x \in Range(dense) \cup Range(sparse)  BY <1>2, <1>5
    <2> QED  BY <2>1 DEF Range, IsIn
  <1>7. HigherScore(Score(y, dense, sparse), Score(x, dense, sparse))  BY <1>6, BeatsScores
  <1>8. j < i  BY <1>4, <1>5, <1>7 DEF Fused
  <1>9. j \in 1..Len(top)  BY <1>2, <1>3, <1>4, <1>8
  <1>10. y \in Range(top)  BY <1>1, <1>2, <1>4, <1>9 DEF Range
  <1> QED  BY <1>10 DEF top

------------------------------------------------------------------------------
(* The types of the executions.                                            *)

Places == {"queued", "embed", "hashes", "index", "commit", "final", "done", "failed", "killed"}

\* A chunk is counted at most once.
LocalTyped(l) ==
  /\ l.chunks \in Seq(Chunks)
  /\ l.next \in 1..(Len(l.chunks) + 1)
  /\ l.new \in 0..(l.next - 1)

JobTyped(x) == x.pc \in Places /\ x.retries \in 0..MaxRetries /\ LocalTyped(x.local)

JobsTyped == \A j \in Syncs : JobTyped(sync[j])

RowsTyped == rows \subseteq Chunks

LEMMA LocalsTyped ==
  /\ LocalTyped(Locals)
  /\ \A chunks \in Seq(Chunks) : LocalTyped([Locals EXCEPT !.chunks = chunks])
  <1>1. ASSUME NEW chunks, chunks \in Seq(Chunks), NEW l, l.chunks = chunks, l.next = 1, l.new = 0
        PROVE  LocalTyped(l)
    <2>1. Len(chunks) \in Nat  BY <1>1
    <2> QED  BY <1>1, <2>1 DEF LocalTyped
  <1>2. <<>> \in Seq(Chunks)  OBVIOUS
  <1>3. /\ Locals.chunks = <<>> /\ Locals.next = 1 /\ Locals.new = 0
    BY DEF Locals
  <1>4. ASSUME NEW chunks
        PROVE  /\ [Locals EXCEPT !.chunks = chunks].chunks = chunks
               /\ [Locals EXCEPT !.chunks = chunks].next = 1
               /\ [Locals EXCEPT !.chunks = chunks].new = 0
    BY DEF Locals
  <1>5. LocalTyped(Locals)  BY <1>1, <1>2, <1>3
  <1>6. ASSUME NEW chunks \in Seq(Chunks)  PROVE LocalTyped([Locals EXCEPT !.chunks = chunks])
    <2>1. PICK l : l = [Locals EXCEPT !.chunks = chunks]  OBVIOUS
    <2>2. l.chunks = chunks /\ l.next = 1 /\ l.new = 0  BY <1>4, <2>1
    <2> QED  BY <1>1, <2>1, <2>2
  <1> QED  BY <1>5, <1>6

LEMMA ChunksOfTyped ==
  ASSUME FilesOK, NEW loaded
  PROVE  ChunksOf(loaded) \in Seq(Chunks)
  <1> DEFINE order == Only(FileOrder, loaded)
             chunked == [i \in DOMAIN order |-> ChunkDocument(files[order[i]])]
  <1>1. order \in Seq(Files)
    <2>1. order \in Seq(Files \cap loaded)
      <3>1. FileOrder \in Seq(Files)  BY KnowledgeAssumption DEF Files
      <3> QED  BY <3>1, OnlyLaw
    <2> QED  BY <2>1
  <1> HIDE DEF order
  <1>2. ASSUME NEW f \in Files  PROVE ChunkDocument(files[f]) \in Seq(Chunks)
    <2>1. files[f] \in Seq(Seq(Sentences))  BY KnowledgeAssumption DEF FilesOK
    <2> QED  BY <2>1, ChunkDocumentOK
  <1>3. DOMAIN order = 1..Len(order) /\ Len(order) \in Nat /\ \A i \in 1..Len(order) : order[i] \in Files
    BY <1>1
  <1>4. chunked \in [1..Len(order) -> Seq(Chunks)]  BY <1>2, <1>3
  <1>5. chunked \in Seq(Seq(Chunks))
    <2> HIDE DEF chunked
    <2> QED  BY <1>3, <1>4
  <1> HIDE DEF chunked
  <1>6. FlattenSeq(chunked) \in Seq(Chunks)  BY <1>5, FlattenLaw
  <1> QED  BY <1>6 DEF ChunksOf, order, chunked

LEMMA GotoKeeps ==
  ASSUME JobsOK, NEW j \in Syncs, NEW pc, NEW l, Goto(j, pc, l)
  PROVE  sync'[j].retries = sync[j].retries
  BY DEF JobsOK, JobOK, Shape, Goto

LEMMA GotoTyped ==
  ASSUME JobsOK, JobsTyped, NEW j \in Syncs, NEW pc, pc \in Places, NEW l, LocalTyped(l), Goto(j, pc, l)
  PROVE  JobsTyped'
  <1>1. \A i \in Syncs \ {j} : sync'[i] = sync[i]  BY GotoMoves
  <1>2. sync'[j].pc = pc /\ sync'[j].local = l /\ sync'[j].retries = sync[j].retries
    BY GotoMoves, GotoKeeps
  <1>3. sync[j].retries \in 0..MaxRetries  BY DEF JobsTyped, JobTyped
  <1>4. JobTyped(sync'[j])  BY <1>2, <1>3 DEF JobTyped
  <1>5. \A i \in Syncs : JobTyped(sync'[i])  BY <1>1, <1>4 DEF JobsTyped
  <1> QED  BY <1>5 DEF JobsTyped, JobTyped, LocalTyped

\* Nothing but next, new and the bookkeeping of failures changes in the loop.
LEMMA LocalMoves ==
  ASSUME NEW x, Shape(x), LocalTyped(x.local), NEW y, y.chunks = x.local.chunks,
         \/ y.next = x.local.next /\ y.new = x.local.new
         \/ /\ x.local.next <= Len(x.local.chunks)
            /\ y.next = x.local.next + 1
            /\ y.new \in {x.local.new, x.local.new + 1}
  PROVE  LocalTyped(y)
  <1>1. x.local.chunks \in Seq(Chunks) /\ Len(x.local.chunks) \in Nat  BY DEF LocalTyped
  <1>2. /\ x.local.next \in 1..(Len(x.local.chunks) + 1)
        /\ x.local.new \in 0..(x.local.next - 1)
    BY DEF LocalTyped
  <1>3. y.chunks \in Seq(Chunks) /\ Len(y.chunks) = Len(x.local.chunks)  BY <1>1
  <1>4. y.next \in 1..(Len(x.local.chunks) + 1) /\ y.new \in 0..(y.next - 1)
    <2>1. CASE y.next = x.local.next /\ y.new = x.local.new  BY <1>2, <2>1
    <2>2. CASE /\ x.local.next <= Len(x.local.chunks)
               /\ y.next = x.local.next + 1
               /\ y.new \in {x.local.new, x.local.new + 1}
      <3>1. /\ x.local.next \in Nat /\ x.local.next >= 1
            /\ x.local.new \in Nat /\ x.local.new <= x.local.next - 1
        BY <1>1, <1>2
      <3>2. PICK n \in Nat, w \in Nat, k \in Nat :
              n = x.local.next /\ w = x.local.new /\ k = Len(x.local.chunks)
        BY <1>1, <3>1
      <3>3. n >= 1 /\ n <= k /\ w <= n - 1  BY <2>2, <3>1, <3>2
      <3>4. PICK m \in Nat : m = n + 1  OBVIOUS
      <3>5. m \in 1..(k + 1) /\ w \in 0..(m - 1) /\ w + 1 \in 0..(m - 1)  BY <3>3, <3>4
      <3>6. y.next = m  BY <2>2, <3>2, <3>4
      <3>7. y.new = w \/ y.new = w + 1  BY <2>2, <3>2
      <3>8. y.new \in 0..(m - 1)  BY <3>5, <3>7, Zenon
      <3> QED  BY <3>2, <3>5, <3>6, <3>8
    <2> QED  BY <2>1, <2>2
  <1> QED  BY <1>3, <1>4 DEF LocalTyped

LEMMA SyncTyped ==
  ASSUME JobsOK, JobsTyped, FilesOK, NEW j \in Syncs, Sync(j)
  PROVE  JobsTyped'
  <1> DEFINE x == sync[j]
             l == x.local
  <1>1. JobOK(x, rows) /\ JobTyped(x)  BY DEF JobsOK, JobsTyped
  <1>2. Shape(x) /\ LocalTyped(l)  BY <1>1 DEF JobOK, JobTyped
  <1>3. DOMAIN l = {"chunks", "hashes", "next", "pending", "new", "failed", "lost"}  BY <1>2 DEF Shape
  <1>4. LocalTyped(Locals)  BY LocalsTyped
  <1>5. CASE Load(j)
    <2>1. PICK loaded : Goto(j, IF loaded = {} THEN "done" ELSE "embed",
                             [Locals EXCEPT !.chunks = ChunksOf(loaded)])
      BY <1>5 DEF Load
    <2>2. LocalTyped([Locals EXCEPT !.chunks = ChunksOf(loaded)])  BY ChunksOfTyped, LocalsTyped
    <2>3. (IF loaded = {} THEN "done" ELSE "embed") \in Places  BY DEF Places
    <2> QED  BY <2>1, <2>2, <2>3, GotoTyped
  <1>6. CASE Embed(j)
    <2>1. Goto(j, "hashes", l) /\ "hashes" \in Places  BY <1>6 DEF Embed, Places
    <2> QED  BY <1>2, <2>1, GotoTyped
  <1>7. CASE FetchHashes(j)
    <2> DEFINE y == [l EXCEPT !.hashes = rows]
    <2>1. Goto(j, "index", y) /\ "index" \in Places  BY <1>7 DEF FetchHashes, Places
    <2>2. y.chunks = l.chunks /\ y.next = l.next /\ y.new = l.new  BY <1>3
    <2> HIDE DEF y
    <2>3. LocalTyped(y)  BY <1>2, <2>2, LocalMoves
    <2> QED  BY <2>1, <2>3, GotoTyped
  <1>8. CASE AddChunk(j)
    <2>1. PICK pc, y :
            /\ pc \in Places /\ Goto(j, pc, y) /\ y.chunks = l.chunks /\ y.next = l.next + 1
            /\ y.new \in {l.new, l.new + 1}
      <3> DEFINE y1 == [l EXCEPT !.next = @ + 1]
                 y2 == [l EXCEPT !.next = @ + 1, !.pending = Append(@, l.chunks[l.next]), !.new = @ + 1]
                 pc2 == IF (l.new + 1) % BATCH = 0 THEN "commit" ELSE "index"
      <3>1. Goto(j, "index", y1) \/ Goto(j, pc2, y2)  BY <1>8 DEF AddChunk
      <3>2. y1.chunks = l.chunks /\ y1.next = l.next + 1 /\ y1.new = l.new  BY <1>3
      <3>3. y2.chunks = l.chunks /\ y2.next = l.next + 1 /\ y2.new = l.new + 1  BY <1>3
      <3>4. "index" \in Places /\ pc2 \in Places  BY DEF Places
      <3> HIDE DEF y1, y2, pc2
      <3> QED  BY <3>1, <3>2, <3>3, <3>4, Zenon
    <2>2. l.next <= Len(l.chunks)  BY <1>8 DEF AddChunk
    <2>3. LocalTyped(y)  BY <1>2, <2>1, <2>2, LocalMoves
    <2> QED  BY <2>1, <2>3, GotoTyped
  <1>9. CASE LoopEnds(j)
    <2> DEFINE pc == IF l.new % BATCH # 0 THEN "final" ELSE "done"
    <2>1. Goto(j, pc, l) /\ pc \in Places  BY <1>9 DEF LoopEnds, Places
    <2> HIDE DEF pc
    <2> QED  BY <1>2, <2>1, GotoTyped
  <1>10. AfterCommit(j) \in Places  BY DEF AfterCommit, Places
  <1>11. CASE Commit(j)
    <2> DEFINE y == [l EXCEPT !.pending = <<>>]
    <2>1. Goto(j, AfterCommit(j), y)  BY <1>11 DEF Commit
    <2>2. y.chunks = l.chunks /\ y.next = l.next /\ y.new = l.new  BY <1>3
    <2> HIDE DEF y
    <2>3. LocalTyped(y)  BY <1>2, <2>2, LocalMoves
    <2> QED  BY <1>10, <2>1, <2>3, GotoTyped
  <1>12. CASE CommitFails(j)
    <2> DEFINE y == [l EXCEPT !.pending = <<>>,
                              !.failed = IF sync[j].pc = "commit" THEN @ + 1 ELSE @,
                              !.lost = @ \/ sync[j].pc = "final"]
    <2>1. Goto(j, AfterCommit(j), y)  BY <1>12 DEF CommitFails
    <2>2. y.chunks = l.chunks /\ y.next = l.next /\ y.new = l.new  BY <1>3
    <2> HIDE DEF y
    <2>3. LocalTyped(y)  BY <1>2, <2>2, LocalMoves
    <2> QED  BY <1>10, <2>1, <2>3, GotoTyped
  <1>13. CASE LoseWorker(j)
    <2>1. Goto(j, "queued", Locals) /\ "queued" \in Places  BY <1>13 DEF LoseWorker, Places
    <2> QED  BY <1>4, <2>1, GotoTyped
  <1>14. CASE TimeLimit(j)
    <2>1. Goto(j, "killed", Locals) /\ "killed" \in Places  BY <1>14 DEF TimeLimit, Places
    <2> QED  BY <1>4, <2>1, GotoTyped
  <1>15. CASE Raise(j)
    <2>1. CASE sync[j].retries < MaxRetries
      <3> DEFINE y == [pc |-> "queued", retries |-> sync[j].retries + 1, local |-> Locals]
      <3>1. sync' = [sync EXCEPT ![j] = y]  BY <1>15, <2>1 DEF Raise, RetryOrFail
      <3>2. y.pc = "queued" /\ y.retries = sync[j].retries + 1 /\ y.local = Locals  OBVIOUS
      <3> HIDE DEF y
      <3>3. sync'[j] = y /\ \A i \in Syncs \ {j} : sync'[i] = sync[i]  BY <3>1 DEF JobsOK
      <3>4. sync[j].retries + 1 \in 0..MaxRetries
        <4>1. sync[j].retries \in 0..MaxRetries /\ MaxRetries \in Nat
          BY <1>1, KnowledgeAssumption DEF JobTyped
        <4> QED  BY <2>1, <4>1
      <3>5. JobTyped(sync'[j])  BY <1>4, <3>2, <3>3, <3>4 DEF JobTyped, Places
      <3>6. \A i \in Syncs : JobTyped(sync'[i])  BY <3>3, <3>5 DEF JobsTyped
      <3> QED  BY <3>6 DEF JobsTyped, JobTyped, LocalTyped
    <2>2. CASE ~(sync[j].retries < MaxRetries)
      <3>1. Goto(j, "failed", Locals) /\ "failed" \in Places  BY <1>15, <2>2 DEF Raise, RetryOrFail, Places
      <3> QED  BY <1>4, <3>1, GotoTyped
    <2> QED  BY <2>1, <2>2
  <1> QED  BY <1>5, <1>6, <1>7, <1>8, <1>9, <1>11, <1>12, <1>13, <1>14, <1>15 DEF Sync

\* What is committed was chunked.
LEMMA RowsStayTyped ==
  ASSUME JobsOK, JobsTyped, RowsTyped, [Next]_vars
  PROVE  RowsTyped'
  <1>1. CASE UNCHANGED rows  BY <1>1 DEF RowsTyped
  <1>2. ASSUME NEW j \in Syncs, Commit(j) \/ CommitFails(j)  PROVE RowsTyped'
    <2>1. rows' \in {rows, rows \cup Range(sync[j].local.pending)}  BY <1>2, Zenon DEF Commit, CommitFails
    <2>2. Shape(sync[j]) /\ LocalTyped(sync[j].local)  BY DEF JobsOK, JobOK, JobsTyped, JobTyped
    <2>3. Range(sync[j].local.pending) \subseteq Passed(sync[j].local)
      <3>1. sync[j].local.pending \in Seq(Passed(sync[j].local))  BY <2>2 DEF Shape
      <3> QED  BY <3>1, RangeFinite
    <2>4. Passed(sync[j].local) \subseteq Chunks
      <3>1. /\ sync[j].local.chunks \in Seq(Chunks)
            /\ sync[j].local.next \in 1..(Len(sync[j].local.chunks) + 1)
        BY <2>2 DEF LocalTyped
      <3>2. Past(sync[j].local) \subseteq 1..Len(sync[j].local.chunks)
        <4>1. Len(sync[j].local.chunks) \in Nat  BY <3>1
        <4>2. sync[j].local.next - 1 <= Len(sync[j].local.chunks) /\ sync[j].local.next \in Nat
          BY <3>1, <4>1
        <4> QED  BY <4>1, <4>2 DEF Past
      <3> QED  BY <3>1, <3>2 DEF Passed
    <2> QED  BY <2>1, <2>3, <2>4 DEF RowsTyped
  <1>3. UNCHANGED rows \/ \E j \in Syncs : Commit(j) \/ CommitFails(j)
    <2>1. \A j \in Syncs : Sync(j) => UNCHANGED rows \/ Commit(j) \/ CommitFails(j)
      BY Zenon DEF Sync, Load, Embed, FetchHashes, AddChunk, LoopEnds, Raise, LoseWorker, TimeLimit
    <2>2. Search => UNCHANGED rows
      BY Zenon DEF Search, DenseSearch, DenseFails, SparseSearch, RerankHit, RerankMiss, StoreRanking,
                   Return, Expire
    <2>3. Edit => UNCHANGED rows  BY DEF Edit
    <2> QED  BY <2>1, <2>2, <2>3 DEF Next, vars
  <1> QED  BY <1>1, <1>2, <1>3

------------------------------------------------------------------------------
(* The searches.                                                           *)

LEMMA ChunksAre == Chunks = Seq(Paragraphs)
  BY DEF Chunks, Paragraphs

\* The candidates begin a fusion of what was found.
FromFusion(s) == \E fused \in Fusions(s.dense, s.sparse) : s.candidates = Top(fused, FINAL_TOP_N)

\* The answer fits, and without the cache it begins a fusion, too.
GoodAnswer(s) ==
  /\ Range(s.context) \subseteq Range(s.candidates)
  /\ Fits(s.context)
  /\ ~s.hit => \/ s.context = <<>>
               \/ \E fused \in Fusions(s.dense, s.sparse), n \in Nat : s.context = Top(fused, n)

SearchFields == {"pc", "top_k", "dense", "sparse", "candidates", "hit", "context"}

SearchOK(s) ==
  /\ DOMAIN s = SearchFields
  /\ s.pc \in {"idle", "sparse", "rerank", "store", "answered"}
  /\ s.top_k \in Nat
  /\ s.dense \in Seq(Chunks) /\ s.sparse \in Seq(Chunks) /\ s.candidates \in Seq(Chunks)
  /\ s.pc = "sparse" => s.context = <<>>
  /\ s.pc \in {"rerank", "store"} => FromFusion(s)
  /\ s.pc = "answered" => GoodAnswer(s)

RankingOK == ranking = NoRanking \/ ranking \in Seq(Chunks)

SearchesOK == SearchOK(search) /\ RankingOK /\ query \in Queries

LEMMA EmptyAnswer ==
  ASSUME NEW s, s.context = <<>>
  PROVE  GoodAnswer(s)
  <1>1. Range(<<>>) = {}  BY DEF Range
  <1> QED  BY <1>1 DEF GoodAnswer, Fits

LEMMA FoundTyped ==
  ASSUME NEW order \in Seq(Chunks), NEW n \in Nat
  PROVE  Found(order, n) \in Seq(Chunks)
  <1>1. PICK list \in Seq(Chunks) : list = Only(order, rows)
    <2>1. Only(order, rows) \in Seq(Chunks \cap rows)  BY OnlyLaw
    <2> QED  BY <2>1
  <1>2. Top(list, n) \in Seq(Chunks)  BY TopLaw
  <1> QED  BY <1>1, <1>2 DEF Found

LEMMA ContextLaw ==
  ASSUME NEW list, list \in Seq(Chunks)
  PROVE  /\ \E n \in Nat : BuildContext(list) = Top(list, n)
         /\ Fits(BuildContext(list))
         /\ Range(BuildContext(list)) \subseteq Range(list)
  <1>1. /\ \E n \in Nat : BuildContext(list) = Top(list, n)
        /\ Fits(BuildContext(list))
    BY ChunksAre, BuildContextLaw
  <1>2. PICK n \in Nat : BuildContext(list) = Top(list, n)  BY <1>1
  <1>3. Range(Top(list, n)) \subseteq Range(list)  BY TopLaw
  <1> QED  BY <1>1, <1>2, <1>3

LEMMA IdleOK ==
  /\ SearchOK(Idle)
  /\ \A k \in Nat, list \in Seq(Chunks) :
       SearchOK([Idle EXCEPT !.pc = "sparse", !.top_k = k, !.dense = list])
  /\ SearchOK([Idle EXCEPT !.pc = "answered"])
  <1>0. <<>> \in Seq(Chunks)  OBVIOUS
  <1>1. SearchOK(Idle)
    <2>1. /\ DOMAIN Idle = SearchFields
          /\ Idle.pc = "idle" /\ Idle.top_k = 0 /\ Idle.dense = <<>> /\ Idle.sparse = <<>>
          /\ Idle.candidates = <<>>
      BY DEF Idle, SearchFields
    <2> QED  BY <1>0, <2>1 DEF SearchOK
  <1>2. ASSUME NEW k \in Nat, NEW list \in Seq(Chunks)
        PROVE  SearchOK([Idle EXCEPT !.pc = "sparse", !.top_k = k, !.dense = list])
    <2> DEFINE s == [Idle EXCEPT !.pc = "sparse", !.top_k = k, !.dense = list]
    <2>1. /\ DOMAIN s = SearchFields
          /\ s.pc = "sparse" /\ s.top_k = k /\ s.dense = list /\ s.sparse = <<>>
          /\ s.candidates = <<>> /\ s.context = <<>>
      BY DEF Idle, SearchFields
    <2> HIDE DEF s
    <2> QED  BY <1>0, <2>1 DEF SearchOK, s
  <1>3. SearchOK([Idle EXCEPT !.pc = "answered"])
    <2>0. PICK s : s = [Idle EXCEPT !.pc = "answered"]  OBVIOUS
    <2>1. /\ DOMAIN s = SearchFields
          /\ s.pc = "answered" /\ s.top_k = 0 /\ s.dense = <<>> /\ s.sparse = <<>>
          /\ s.candidates = <<>> /\ s.context = <<>>
      BY <2>0 DEF Idle, SearchFields
    <2>2. GoodAnswer(s)  BY <2>1, EmptyAnswer
    <2>3. SearchOK(s)  BY <1>0, <2>1, <2>2 DEF SearchOK
    <2> QED  BY <2>0, <2>3, Zenon
  <1> QED  BY <1>1, <1>2, <1>3

LEMMA SparseOK ==
  ASSUME SearchesOK, SparseSearch
  PROVE  SearchOK(search')
  <1>1. /\ DOMAIN search = SearchFields /\ search.pc = "sparse" /\ search.context = <<>>
        /\ search.top_k \in Nat /\ search.dense \in Seq(Chunks)
    BY DEF SearchesOK, SearchOK, SparseSearch
  <1>2. PICK sparse \in {Found(query.sparse, SPARSE_TOP_N), <<>>} :
          \E fused \in Fusions(search.dense, sparse) :
            search' = [search EXCEPT !.pc = IF fused = <<>> THEN "answered" ELSE "rerank",
                                     !.sparse = sparse,
                                     !.candidates = Top(fused, FINAL_TOP_N)]
    BY Zenon DEF SparseSearch
  <1>3. PICK fused \in Fusions(search.dense, sparse) :
          search' = [search EXCEPT !.pc = IF fused = <<>> THEN "answered" ELSE "rerank",
                                   !.sparse = sparse,
                                   !.candidates = Top(fused, FINAL_TOP_N)]
    BY <1>2, Zenon
  <1>4. sparse \in Seq(Chunks)
    <2>1. query.sparse \in Seq(Chunks) /\ SPARSE_TOP_N \in Nat
      BY KnowledgeAssumption DEF SearchesOK
    <2>2. Found(query.sparse, SPARSE_TOP_N) \in Seq(Chunks)  BY <2>1, FoundTyped
    <2>3. <<>> \in Seq(Chunks)  OBVIOUS
    <2> QED  BY <1>2, <2>2, <2>3
  <1>5. fused \in Seq(Chunks)  BY <1>1, <1>4, FusionLaw
  <1>6. PICK top \in Seq(Chunks), pc \in {"answered", "rerank"} :
          top = Top(fused, FINAL_TOP_N) /\ search' = [search EXCEPT !.pc = pc, !.sparse = sparse, !.candidates = top]
    <2>1. FINAL_TOP_N \in Nat  BY ParametersAssumption
    <2>2. PICK top \in Seq(Chunks) : top = Top(fused, FINAL_TOP_N)
      <3>1. Top(fused, FINAL_TOP_N) \in Seq(Chunks)  BY <1>5, <2>1, TopLaw
      <3> QED  BY <3>1
    <2>3. PICK pc \in {"answered", "rerank"} : pc = IF fused = <<>> THEN "answered" ELSE "rerank"
      OBVIOUS
    <2>4. search' = [search EXCEPT !.pc = pc, !.sparse = sparse, !.candidates = top]
      BY <1>3, <2>2, <2>3, Zenon
    <2> QED  BY <2>2, <2>4, Zenon
  <1>7. /\ DOMAIN search' = SearchFields
        /\ search'.pc = pc /\ search'.top_k = search.top_k /\ search'.dense = search.dense
        /\ search'.sparse = sparse /\ search'.candidates = top /\ search'.context = <<>>
    BY <1>1, <1>6 DEF SearchFields
  <1>8. FromFusion(search')  BY <1>6, <1>7 DEF FromFusion
  <1>9. GoodAnswer(search')  BY <1>7, EmptyAnswer
  <1> QED  BY <1>1, <1>4, <1>6, <1>7, <1>8, <1>9 DEF SearchOK

LEMMA HitOK ==
  ASSUME SearchesOK, RerankHit
  PROVE  SearchOK(search')
  <1>1. /\ DOMAIN search = SearchFields /\ search.top_k \in Nat
        /\ search.dense \in Seq(Chunks) /\ search.sparse \in Seq(Chunks)
        /\ search.candidates \in Seq(Chunks) /\ ranking \in Seq(Chunks)
    BY DEF SearchesOK, SearchOK, RankingOK, RerankHit
  <1>2. PICK context : context = BuildContext(Only(ranking, Range(search.candidates)))  OBVIOUS
  <1>3. search' = [search EXCEPT !.pc = "answered", !.hit = TRUE, !.context = context]
    BY <1>2 DEF RerankHit
  <1>4. /\ DOMAIN search' = SearchFields /\ search'.pc = "answered" /\ search'.top_k = search.top_k
        /\ search'.dense = search.dense /\ search'.sparse = search.sparse
        /\ search'.candidates = search.candidates /\ search'.hit = TRUE /\ search'.context = context
    BY <1>1, <1>3 DEF SearchFields
  <1>5. Fits(context) /\ Range(context) \subseteq Range(search.candidates)
    <2>1. PICK list : list = Only(ranking, Range(search.candidates))  OBVIOUS
    <2>2. list \in Seq(Chunks \cap Range(search.candidates))  BY <1>1, <2>1, OnlyLaw
    <2>3. list \in Seq(Chunks) /\ Range(list) \subseteq Range(search.candidates)  BY <2>2, RangeFinite
    <2> QED  BY <1>2, <2>1, <2>3, ContextLaw
  <1>6. GoodAnswer(search')  BY <1>4, <1>5 DEF GoodAnswer
  <1> QED  BY <1>1, <1>4, <1>6 DEF SearchOK

LEMMA MissOK ==
  ASSUME SearchesOK, RerankMiss
  PROVE  SearchOK(search')
  <1>1. SearchOK(search) /\ search.pc = "rerank" /\ search' = [search EXCEPT !.pc = "store"]
    BY DEF SearchesOK, RerankMiss
  <1>2. /\ DOMAIN search' = SearchFields /\ search'.pc = "store" /\ search'.top_k = search.top_k
        /\ search'.dense = search.dense /\ search'.sparse = search.sparse
        /\ search'.candidates = search.candidates
    BY <1>1 DEF SearchOK, SearchFields
  <1>3. FromFusion(search')  BY <1>1, <1>2 DEF SearchOK, FromFusion
  <1> QED  BY <1>1, <1>2, <1>3 DEF SearchOK

\* The beginning of a beginning is a beginning.
LEMMA TopOfTopIs ==
  ASSUME NEW X, NEW list \in Seq(X), NEW m \in Nat, NEW n \in Nat
  PROVE  \E k \in Nat : Top(Top(list, m), n) = Top(list, k)
  BY TopOfTop

LEMMA TopOfTopChunks ==
  ASSUME NEW list \in Seq(Chunks), NEW m \in Nat, NEW n \in Nat
  PROVE  \E k \in Nat : Top(Top(list, m), n) = Top(list, k)
  BY TopOfTopIs

LEMMA ChunksTop ==
  \A list \in Seq(Chunks) : \A m, n \in Nat : \E k \in Nat : Top(Top(list, m), n) = Top(list, k)
  BY TopOfTopChunks, Zenon

LEMMA StoreOK ==
  ASSUME SearchesOK, StoreRanking
  PROVE  SearchOK(search') /\ RankingOK'
  <1>1. /\ DOMAIN search = SearchFields /\ search.top_k \in Nat
        /\ search.dense \in Seq(Chunks) /\ search.sparse \in Seq(Chunks)
        /\ search.candidates \in Seq(Chunks) /\ FromFusion(search)
    BY DEF SearchesOK, SearchOK, StoreRanking
  <1>2. PICK best \in Seq(Chunks) :
          best = Top(search.candidates, search.top_k) /\ Range(best) \subseteq Range(search.candidates)
    BY <1>1, TopLaw
  <1>3. PICK context : context = BuildContext(best)  OBVIOUS
  <1>4. search' = [search EXCEPT !.pc = "answered", !.context = context] /\ ranking' \in {best, ranking}
    BY <1>2, <1>3 DEF StoreRanking
  <1>5. /\ DOMAIN search' = SearchFields /\ search'.pc = "answered" /\ search'.top_k = search.top_k
        /\ search'.dense = search.dense /\ search'.sparse = search.sparse
        /\ search'.candidates = search.candidates /\ search'.context = context
    BY <1>1, <1>4 DEF SearchFields
  <1>6. PICK n \in Nat : context = Top(best, n) /\ Fits(context) /\ Range(context) \subseteq Range(best)
    BY <1>3, ContextLaw
  <1>7. \E fused \in Fusions(search.dense, search.sparse), k \in Nat : context = Top(fused, k)
    <2>1. PICK fused \in Fusions(search.dense, search.sparse) : search.candidates = Top(fused, FINAL_TOP_N)
      BY <1>1 DEF FromFusion
    <2>2. fused \in Seq(Chunks)  BY <1>1, <2>1, FusionLaw
    <2>3. FINAL_TOP_N \in Nat  BY ParametersAssumption
    <2>4. \A a, b \in Nat : \E k \in Nat : Top(Top(fused, a), b) = Top(fused, k)
      BY <2>2, ChunksTop, Zenon
    <2>5. PICK k \in Nat : Top(Top(fused, FINAL_TOP_N), search.top_k) = Top(fused, k)
      BY <1>1, <2>3, <2>4, Zenon
    <2>6. PICK m \in Nat : Top(Top(fused, k), n) = Top(fused, m)  BY <2>4, Zenon
    <2>7. context = Top(fused, m)  BY <1>2, <1>6, <2>1, <2>5, <2>6
    <2> QED  BY <2>7
  <1>8. GoodAnswer(search')  BY <1>2, <1>5, <1>6, <1>7 DEF GoodAnswer
  <1>9. SearchOK(search')  BY <1>1, <1>5, <1>8 DEF SearchOK
  <1> QED  BY <1>4, <1>9 DEF SearchesOK, RankingOK

\* Initially nothing was found, and no step breaks what is known of a search.
LEMMA SearchesInit == Init => SearchesOK
  <1>1. Init => search = Idle /\ ranking = NoRanking /\ query \in Queries  BY Zenon DEF Init
  <1>2. search = Idle => SearchOK(search)  BY IdleOK, Zenon
  <1> QED  BY <1>1, <1>2 DEF SearchesOK, RankingOK

LEMMA SearchesStep ==
  ASSUME SearchesOK, [Next]_vars
  PROVE  SearchesOK'
  <1>1. CASE UNCHANGED <<search, ranking, query>>  BY <1>1 DEF SearchesOK, RankingOK
  <1>2. CASE DenseSearch
    <2>1. PICK k \in TopKs :
            search' = [Idle EXCEPT !.pc = "sparse", !.top_k = k, !.dense = Found(query.dense, DENSE_TOP_N)]
      BY <1>2, Zenon DEF DenseSearch
    <2>2. k \in Nat /\ query.dense \in Seq(Chunks) /\ DENSE_TOP_N \in Nat
      BY KnowledgeAssumption DEF SearchesOK
    <2>3. PICK list \in Seq(Chunks) : list = Found(query.dense, DENSE_TOP_N)  BY <2>2, FoundTyped
    <2>4. SearchOK([Idle EXCEPT !.pc = "sparse", !.top_k = k, !.dense = list])  BY <2>2, IdleOK, Zenon
    <2>6. SearchOK(search')  BY <2>1, <2>3, <2>4, Zenon
    <2>5. UNCHANGED <<ranking, query>>  BY <1>2, Zenon DEF DenseSearch
    <2> QED  BY <2>5, <2>6 DEF SearchesOK, RankingOK
  <1>3. CASE DenseFails
    <2>1. SearchOK(search') /\ UNCHANGED <<ranking, query>>  BY <1>3, IdleOK, Zenon DEF DenseFails
    <2> QED  BY <2>1 DEF SearchesOK, RankingOK
  <1>4. CASE SparseSearch
    <2>1. SearchOK(search') /\ UNCHANGED <<ranking, query>>  BY <1>4, SparseOK, Zenon DEF SparseSearch
    <2> QED  BY <2>1 DEF SearchesOK, RankingOK
  <1>5. CASE RerankHit
    <2>1. SearchOK(search') /\ UNCHANGED <<ranking, query>>  BY <1>5, HitOK, Zenon DEF RerankHit
    <2> QED  BY <2>1 DEF SearchesOK, RankingOK
  <1>6. CASE RerankMiss
    <2>1. SearchOK(search') /\ UNCHANGED <<ranking, query>>  BY <1>6, MissOK, Zenon DEF RerankMiss
    <2> QED  BY <2>1 DEF SearchesOK, RankingOK
  <1>7. CASE StoreRanking
    <2>1. SearchOK(search') /\ RankingOK' /\ UNCHANGED query  BY <1>7, StoreOK, Zenon DEF StoreRanking
    <2> QED  BY <2>1 DEF SearchesOK, RankingOK
  <1>8. CASE Return
    <2>1. SearchOK(search') /\ UNCHANGED <<ranking, query>>  BY <1>8, IdleOK, Zenon DEF Return
    <2> QED  BY <2>1 DEF SearchesOK, RankingOK
  <1>9. CASE Expire
    <2>1. ranking' = NoRanking /\ UNCHANGED <<search, query>>  BY <1>9, Zenon DEF Expire
    <2> QED  BY <2>1 DEF SearchesOK, RankingOK
  <1>10. CASE Edit  BY <1>1, <1>10 DEF Edit
  <1>11. ASSUME NEW j \in Syncs, Sync(j)  PROVE SearchesOK'
    <2>1. UNCHANGED <<search, ranking, query>>
      BY <1>11 DEF Sync, Load, Embed, FetchHashes, AddChunk, LoopEnds, Commit, CommitFails, Raise,
                   LoseWorker, TimeLimit
    <2> QED  BY <1>1, <2>1
  <1> QED  BY <1>1, <1>2, <1>3, <1>4, <1>5, <1>6, <1>7, <1>8, <1>9, <1>10, <1>11
           DEF Next, Search, vars

------------------------------------------------------------------------------
(* The invariant, and what it says of the types and of the answers.        *)

BoundsOK == edits \in 0..MaxEdits /\ faults \in 0..MaxFaults

KnowledgeOK == FilesOK /\ JobsOK /\ JobsTyped /\ RowsTyped /\ SearchesOK /\ BoundsOK

LEMMA JobsTypedInit == Init => JobsTyped
  <1> SUFFICES ASSUME Init, NEW j \in Syncs  PROVE JobTyped(sync[j])
    BY DEF JobsTyped
  <1>1. sync[j] = [pc |-> "queued", retries |-> 0, local |-> Locals]  BY DEF Init
  <1>2. sync[j].pc = "queued" /\ sync[j].retries = 0 /\ sync[j].local = Locals  BY <1>1
  <1>3. 0 \in 0..MaxRetries  BY KnowledgeAssumption
  <1> QED  BY <1>2, <1>3, LocalsTyped DEF JobTyped, Places

LEMMA JobsTypedStep ==
  ASSUME JobsOK, JobsTyped, FilesOK, [Next]_vars
  PROVE  JobsTyped'
  <1>1. CASE UNCHANGED sync  BY <1>1 DEF JobsTyped, JobTyped, LocalTyped
  <1>2. ASSUME NEW j \in Syncs, Sync(j)  PROVE JobsTyped'
    BY <1>2, SyncTyped
  <1>3. UNCHANGED sync \/ \E j \in Syncs : Sync(j)
    <2>1. Search => UNCHANGED sync
      BY Zenon DEF Search, DenseSearch, DenseFails, SparseSearch, RerankHit, RerankMiss, StoreRanking,
                   Return, Expire
    <2>2. Edit => UNCHANGED sync  BY DEF Edit
    <2> QED  BY <2>1, <2>2 DEF Next, vars
  <1> QED  BY <1>1, <1>2, <1>3

LEMMA BoundsInit == Init => BoundsOK
  BY KnowledgeAssumption DEF Init, BoundsOK

\* Every step that fails something, or edits, is counted.
LEMMA BoundsStep ==
  ASSUME BoundsOK, [Next]_vars
  PROVE  BoundsOK'
  <1>1. UNCHANGED faults \/ Fault
    <2>1. \A j \in Syncs : Sync(j) => UNCHANGED faults \/ Fault
      BY Zenon DEF Sync, Load, Embed, FetchHashes, AddChunk, LoopEnds, Commit, CommitFails, Raise,
                   LoseWorker, TimeLimit
    <2>2. Search => UNCHANGED faults \/ Fault
      BY Zenon DEF Search, DenseSearch, DenseFails, SparseSearch, RerankHit, RerankMiss, StoreRanking,
                   Return, Expire
    <2>3. Edit => UNCHANGED faults  BY DEF Edit
    <2> QED  BY <2>1, <2>2, <2>3 DEF Next, vars
  <1>2. UNCHANGED edits \/ (edits < MaxEdits /\ edits' = edits + 1)
    <2>1. \A j \in Syncs : Sync(j) => UNCHANGED edits
      BY Zenon DEF Sync, Load, Embed, FetchHashes, AddChunk, LoopEnds, Commit, CommitFails, Raise,
                   LoseWorker, TimeLimit
    <2>2. Search => UNCHANGED edits
      BY Zenon DEF Search, DenseSearch, DenseFails, SparseSearch, RerankHit, RerankMiss, StoreRanking,
                   Return, Expire
    <2>3. Edit => edits < MaxEdits /\ edits' = edits + 1  BY DEF Edit
    <2> QED  BY <2>1, <2>2, <2>3 DEF Next, vars
  <1>3. MaxEdits \in Nat /\ MaxFaults \in Nat  BY KnowledgeAssumption
  <1> QED  BY <1>1, <1>2, <1>3 DEF BoundsOK, Fault

\* Files, executions, rows, searches and counters are what they are said to
\* be, whatever runs next to whatever.
LEMMA KnowledgeAlwaysOK == Spec => []KnowledgeOK
  <1>1. Init => KnowledgeOK
    <2>1. Init => FilesOK /\ RowsTyped  BY DEF Init, FilesOK, RowsTyped
    <2> QED  BY <2>1, InitOK, JobsTypedInit, SearchesInit, BoundsInit DEF KnowledgeOK
  <1>2. KnowledgeOK /\ [Next]_vars => KnowledgeOK'
    <2> SUFFICES ASSUME KnowledgeOK, [Next]_vars  PROVE KnowledgeOK'
      OBVIOUS
    <2>1. FilesOK /\ JobsOK /\ JobsTyped /\ RowsTyped /\ SearchesOK /\ BoundsOK  BY DEF KnowledgeOK
    <2>2. FilesOK'  BY <2>1, FilesStep
    <2>3. JobsOK'  BY <2>1, StepOK
    <2>4. JobsTyped' /\ RowsTyped'  BY <2>1, JobsTypedStep, RowsStayTyped
    <2>5. SearchesOK' /\ BoundsOK'  BY <2>1, SearchesStep, BoundsStep
    <2> QED  BY <2>2, <2>3, <2>4, <2>5 DEF KnowledgeOK
  <1> QED  BY <1>1, <1>2, PTL DEF Spec

\* How many rows wait follows from how many were counted.
LEMMA WaitingCounted ==
  ASSUME JobsOK, NEW j \in Syncs
  PROVE  PendingCounted(j)
  <1>1. Waiting(sync[j])  BY DEF JobsOK, JobOK
  <1>2. CASE sync[j].pc = "commit"  BY <1>1, <1>2 DEF Waiting, PendingCounted
  <1>3. CASE sync[j].pc \in {"index", "final"}  BY <1>1, <1>3 DEF Waiting, PendingCounted
  <1>4. CASE sync[j].pc \notin {"index", "commit", "final"}
    <2>1. Len(sync[j].local.pending) = 0  BY <1>1, <1>4 DEF Waiting
    <2> QED  BY <1>4, <2>1 DEF PendingCounted
  <1> QED  BY <1>2, <1>3, <1>4

\* The variables keep their types: a chunk is counted at most once, the rows
\* that wait for a commit are those counted since the last one, and retries,
\* edits and failures stay within their bounds.
THEOREM KnowledgeTypeCorrect == Spec => []TypeOK
  <1>1. ASSUME KnowledgeOK  PROVE TypeOK
    <2>1. FilesOK /\ JobsOK /\ JobsTyped /\ RowsTyped /\ SearchesOK /\ BoundsOK
      BY <1>1 DEF KnowledgeOK
    <2>2. ASSUME NEW j \in Syncs
          PROVE  /\ sync[j].pc \in Places
                 /\ sync[j].retries \in 0..MaxRetries
                 /\ sync[j].local.chunks \in Seq(Chunks)
                 /\ sync[j].local.next \in 1..(Len(sync[j].local.chunks) + 1)
                 /\ sync[j].local.new \in 0..Len(sync[j].local.chunks)
                 /\ PendingCounted(j)
      <3>1. JobTyped(sync[j])  BY <2>1 DEF JobsTyped
      <3>2. /\ sync[j].pc \in Places
            /\ sync[j].retries \in 0..MaxRetries
            /\ sync[j].local.chunks \in Seq(Chunks)
            /\ sync[j].local.next \in 1..(Len(sync[j].local.chunks) + 1)
            /\ sync[j].local.new \in 0..(sync[j].local.next - 1)
        BY <3>1 DEF JobTyped, LocalTyped
      <3>3. sync[j].local.new \in 0..Len(sync[j].local.chunks)
        <4>1. PICK k \in Nat : k = Len(sync[j].local.chunks)  BY <3>2
        <4>2. PICK n \in 1..(k + 1) : n = sync[j].local.next  BY <3>2, <4>1
        <4>3. sync[j].local.new \in 0..(n - 1)  BY <3>2, <4>2
        <4>4. 0..(n - 1) \subseteq 0..k  BY <4>1, <4>2
        <4> QED  BY <4>1, <4>3, <4>4, Zenon
      <3> QED  BY <3>2, <3>3, <2>1, WaitingCounted
    <2>3. /\ ranking = NoRanking \/ ranking \in Seq(Chunks)
          /\ query \in Queries
          /\ search.pc \in {"idle", "sparse", "rerank", "store", "answered"}
      BY <2>1 DEF SearchesOK, SearchOK, RankingOK
    <2>4. /\ files \in [Files -> Documents]
          /\ \A x \in rows : x \in Chunks
          /\ edits \in 0..MaxEdits /\ faults \in 0..MaxFaults
      BY <2>1 DEF FilesOK, RowsTyped, BoundsOK
    <2> QED  BY <2>2, <2>3, <2>4 DEF TypeOK, Places
  <1> QED  BY <1>1, KnowledgeAlwaysOK, PTL

\* The context of an answer is the best that fits: built from the fused
\* ranking of both searches, in which a chunk that is left out does not beat
\* one that is in; it passes the budget at most by its last block, and the
\* cached order of the re-ranker never brings in a chunk that this search did
\* not find (vector_tools.py: search_knowledge_base).
THEOREM AnswersAreBest == Spec => []AnswerIsBestThatFits
  <1>1. ASSUME KnowledgeOK, search.pc = "answered"
        PROVE  /\ Range(search.context) \subseteq Range(search.candidates)
               /\ search.context # <<>> =>
                    ContextTokens(Top(search.context, Len(search.context) - 1)) <= MAX_CONTEXT_TOKENS
    <2>1. GoodAnswer(search)  BY <1>1 DEF KnowledgeOK, SearchesOK, SearchOK
    <2> QED  BY <2>1 DEF GoodAnswer, Fits
  <1>2. ASSUME KnowledgeOK, search.pc = "answered", ~search.hit,
               NEW x \in Range(search.context),
               NEW y \in (Range(search.dense) \cup Range(search.sparse)) \ Range(search.context)
        PROVE  ~Beats(y, x, search.dense, search.sparse)
    <2>1. GoodAnswer(search) /\ search.dense \in Seq(Chunks) /\ search.sparse \in Seq(Chunks)
      BY <1>2 DEF KnowledgeOK, SearchesOK, SearchOK
    <2>2. search.context # <<>>
      <3>1. Range(<<>>) = {}  BY DEF Range
      <3> QED  BY <1>2, <3>1
    <2>3. PICK fused \in Fusions(search.dense, search.sparse) :
            \E n \in Nat : search.context = Top(fused, n)
      BY <1>2, <2>1, <2>2 DEF GoodAnswer
    <2>4. PICK n \in Nat : search.context = Top(fused, n)  BY <2>3
    <2>5. PICK dense \in Seq(Chunks), sparse \in Seq(Chunks) :
            dense = search.dense /\ sparse = search.sparse
      BY <2>1
    <2>6. /\ fused \in Seq(Range(dense) \cup Range(sparse)) /\ fused \in Seq(Chunks)
          /\ Fused(fused, dense, sparse)
      BY <2>3, <2>5, FusionLaw
    <2>7. /\ x \in Range(Top(fused, n))
          /\ y \in (Range(dense) \cup Range(sparse)) \ Range(Top(fused, n))
      BY <1>2, <2>4, <2>5
    <2>8. ~Beats(y, x, dense, sparse)  BY <2>6, <2>7, BeginningIsBest
    <2> QED  BY <2>5, <2>8
  <1>3. KnowledgeOK => AnswerIsBestThatFits  BY <1>1, <1>2 DEF AnswerIsBestThatFits
  <1> QED  BY <1>3, KnowledgeAlwaysOK, PTL

==============================================================================

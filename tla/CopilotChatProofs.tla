-------------------------- MODULE CopilotChatProofs --------------------------
(***************************************************************************)
(* Theorems about CopilotChat, for any portfolio, any number of attempts   *)
(* and tokens.                                                             *)
(***************************************************************************)
EXTENDS CopilotChat, TLAPS

------------------------------------------------------------------------------
(* Sequences.                                                              *)

LEMMA AppendToQueue ==
  ASSUME NEW S, NEW s \in Seq(S), NEW q \in Seq(S), NEW e \in S
  PROVE  Append(s \o q, e) = s \o Append(q, e)
  OBVIOUS

LEMMA MoveHead ==
  ASSUME NEW S, NEW s \in Seq(S), NEW q \in Seq(S), q # <<>>
  PROVE  /\ Append(s, Head(q)) \o Tail(q) = s \o q
         /\ Append(s, Head(q)) \in Seq(S)
         /\ Tail(q) \in Seq(S)
  OBVIOUS

\* The last n elements of t are the first n of s.
EndsWith(t, s, n) ==
  n <= Len(t) /\ \A i \in 1..n : t[Len(t) - n + i] = s[i]

LEMMA EndsWithIsSuffix ==
  ASSUME NEW S, NEW s \in Seq(S), NEW t \in Seq(S), EndsWith(t, s, Len(s))
  PROVE  IsSuffix(s, t)
  <1> DEFINE p == Reverse(s)
             q == Reverse(t)
             n == Len(s)
  <1>1. n \in Nat /\ Len(t) \in Nat /\ n <= Len(t) /\ \A i \in 1..n : t[Len(t) - n + i] = s[i]
    BY DEF EndsWith
  <1>2. p \in Seq(S) /\ Len(p) = n /\ \A i \in 1..n : p[i] = s[n - i + 1]
    BY DEF Reverse
  <1>3. q \in Seq(S) /\ Len(q) = Len(t) /\ \A i \in 1..Len(t) : q[i] = t[Len(t) - i + 1]
    BY DEF Reverse
  <1> HIDE DEF p, q
  <1>4. ASSUME NEW i \in 1..n  PROVE p[i] = q[i]
    <2>1. n - i + 1 \in 1..n /\ Len(t) - n + (n - i + 1) = Len(t) - i + 1  BY <1>1
    <2>2. s[n - i + 1] = t[Len(t) - i + 1]  BY <1>1, <2>1
    <2> QED  BY <1>1, <1>2, <1>3, <2>2
  <1>5. SubSeq(p, 1, n) = SubSeq(q, 1, n)
    <2>1. Len(SubSeq(p, 1, n)) = n /\ Len(SubSeq(q, 1, n)) = n  BY <1>1, <1>2, <1>3
    <2>2. \A i \in 1..n : SubSeq(p, 1, n)[i] = p[i] /\ SubSeq(q, 1, n)[i] = q[i]
      BY <1>1, <1>2, <1>3
    <2>3. SubSeq(p, 1, n) \in Seq(S) /\ SubSeq(q, 1, n) \in Seq(S)  BY <1>1, <1>2, <1>3
    <2> QED  BY <1>4, <2>1, <2>2, <2>3
  <1> QED  BY <1>1, <1>2, <1>3, <1>5 DEF IsSuffix, IsPrefix, p, q

------------------------------------------------------------------------------
(* The invariant.                                                          *)

ChunksOf(n) == [attempt : 1..n, part : Parts, customers : SUBSET Customers, n : Nat]

AllChunks == ChunksOf(agent.attempt)

\* Where the attempt has no answer yet.
Unanswered == {"idle", "filters", "pipeline", "fetch", "announce", "scoring", "knowledge", "portfolio"}

AgentTyped ==
  /\ DOMAIN agent = {"pc", "attempt", "chunks", "said"}
  /\ agent.pc \in {"idle"} \cup Running \cup Over
  /\ agent.attempt \in 1..ATTEMPTS
  /\ agent.chunks \in Seq(AllChunks)
  /\ agent.said \in 0..Len(agent.chunks)
  /\ agent.pc \in Unanswered => agent.chunks = <<>>
  /\ agent.pc \in Unanswered \cup {"answer"} => agent.said = 0
  /\ agent.pc = "report" => agent.said < Len(agent.chunks)

\* What was put on the queue was sent, or is there still.
PutTyped ==
  /\ queue \in Seq(AllChunks)
  /\ shown \in Seq(AllChunks)
  /\ put \in Seq(AllChunks)
  /\ put = shown \o queue

ResponseTyped ==
  /\ stream \in {"prepare", "head", "poll", "get", "await"} \cup Closed
  /\ connected \in BOOLEAN
  /\ stream = "prepare" => agent.pc = "idle"

\* The loop is left for good only when there is nothing more to send, as long
\* as the browser listens.
Drained ==
  connected /\ stream \in {"await", "done"} => agent.pc \in Over /\ queue = <<>>

\* What was put last is what the attempt has said of its answer.
AnswerPut ==
  /\ agent.pc = "report" => EndsWith(put, agent.chunks, agent.said)
  /\ agent.pc \in {"answer", "answered"} => EndsWith(put, agent.chunks, Len(agent.chunks))

ScoreTyped == score \in [Customers -> {"idle", "running"} \cup Outcomes]

ChatInv == AgentTyped /\ PutTyped /\ ResponseTyped /\ Drained /\ AnswerPut /\ ScoreTyped

LEMMA ChatInit == Init => ChatInv
  <1> SUFFICES ASSUME Init  PROVE ChatInv
    OBVIOUS
  <1>1. <<>> \in Seq(AllChunks) /\ <<>> \o <<>> = <<>> /\ Len(<<>>) = 0
    OBVIOUS
  <1>2. AgentTyped
    BY <1>1, ConstantsAssumption DEF Init, AgentTyped, Unanswered
  <1>3. PutTyped  BY <1>1 DEF Init, PutTyped
  <1>4. ResponseTyped /\ Drained /\ AnswerPut /\ ScoreTyped
    BY DEF Init, ResponseTyped, Drained, AnswerPut, ScoreTyped, Unscored
  <1> QED  BY <1>2, <1>3, <1>4 DEF ChatInv

\* The response's steps only move chunks from the queue to the page.
LEMMA ResponseKeeps ==
  ASSUME ChatInv, Responding \/ Disconnect \/ Cancel
  PROVE  ChatInv'
  <1> USE DEF ChatInv
  <1>1. ScoreTyped'
    BY DEF Responding, Prepare, LoopHead, Poll, Get, Await, Disconnect, Cancel, ScoreTyped
  <1>2. ASSUME UNCHANGED <<agent, queue, put, shown>>,
               ResponseTyped', Drained'
        PROVE  ChatInv'
    <2>1. AgentTyped'  BY <1>2 DEF AgentTyped, AllChunks
    <2>2. PutTyped'  BY <1>2 DEF PutTyped, AllChunks
    <2>3. AnswerPut'  BY <1>2 DEF AnswerPut
    <2> QED  BY <1>1, <1>2, <2>1, <2>2, <2>3
  <1>3. CASE LoopHead
    BY <1>2, <1>3 DEF LoopHead, ResponseTyped, Drained, Closed
  <1>4. CASE Poll
    BY <1>2, <1>4 DEF Poll, ResponseTyped, Drained, Closed
  <1>5. CASE Await
    BY <1>2, <1>5 DEF Await, ResponseTyped, Drained, Closed
  <1>6. CASE Disconnect
    BY <1>2, <1>6 DEF Disconnect, ResponseTyped, Drained, Closed
  <1>7. CASE Get
    <2>1. UNCHANGED <<agent, connected, put>> /\ stream' = "head"  BY <1>7 DEF Get
    <2>2. AgentTyped' /\ AnswerPut'  BY <2>1 DEF AgentTyped, AllChunks, AnswerPut
    <2>3. ResponseTyped' /\ Drained'  BY <1>7, <2>1 DEF Get, ResponseTyped, Drained
    <2>4. PutTyped'
      <3>1. CASE UNCHANGED <<queue, shown>>  BY <2>1, <3>1 DEF PutTyped, AllChunks
      <3>2. CASE queue # <<>> /\ shown' = Append(shown, Head(queue)) /\ queue' = Tail(queue)
        BY <2>1, <3>2, MoveHead DEF PutTyped, AllChunks
      <3> QED  BY <1>7, <3>1, <3>2 DEF Get
    <2> QED  BY <1>1, <2>2, <2>3, <2>4
  <1>8. CASE Prepare
    <2>1. CASE stream' = "error" /\ UNCHANGED agent
      BY <1>2, <1>8, <2>1 DEF Prepare, ResponseTyped, Drained, Closed
    <2>2. CASE stream' = "head" /\ agent' = [agent EXCEPT !.pc = "filters"]
      <3>1. agent.pc = "idle" /\ UNCHANGED <<connected, queue, put, shown>>
        BY <1>8 DEF Prepare, ResponseTyped
      <3>2. /\ DOMAIN agent' = DOMAIN agent /\ agent'.pc = "filters"
            /\ agent'.attempt = agent.attempt /\ agent'.chunks = agent.chunks
            /\ agent'.said = agent.said
        BY <2>2 DEF AgentTyped
      <3>3. AgentTyped'  BY <3>1, <3>2 DEF AgentTyped, AllChunks, Unanswered, Running
      <3>4. PutTyped'  BY <3>1, <3>2 DEF PutTyped, AllChunks
      <3>5. ResponseTyped' /\ Drained' /\ AnswerPut'
        BY <2>2, <3>1, <3>2 DEF ResponseTyped, Drained, AnswerPut
      <3> QED  BY <1>1, <3>3, <3>4, <3>5
    <2> QED  BY <1>8, <2>1, <2>2 DEF Prepare
  <1>9. CASE Cancel
    <2>1. ~connected' /\ stream' = "cancelled" /\ UNCHANGED <<queue, put, shown>>
      BY <1>9 DEF Cancel
    <2>2. ResponseTyped' /\ Drained'
      BY <1>9, <2>1 DEF Cancel, ResponseTyped, Drained, Closed
    <2>3. CASE UNCHANGED agent  BY <1>2, <2>1, <2>2, <2>3
    <2>4. CASE agent' = [agent EXCEPT !.pc = "cancelled"]
      <3>1. /\ DOMAIN agent' = DOMAIN agent /\ agent'.pc = "cancelled"
            /\ agent'.attempt = agent.attempt /\ agent'.chunks = agent.chunks
            /\ agent'.said = agent.said
        BY <2>4 DEF AgentTyped
      <3>2. AgentTyped'  BY <3>1 DEF AgentTyped, AllChunks, Unanswered, Over
      <3>3. PutTyped'  BY <2>1, <3>1 DEF PutTyped, AllChunks
      <3>4. AnswerPut'  BY <3>1 DEF AnswerPut
      <3> QED  BY <1>1, <2>2, <3>2, <3>3, <3>4
    <2> QED  BY <1>9, <2>3, <2>4 DEF Cancel
  <1> QED  BY <1>3, <1>4, <1>5, <1>6, <1>7, <1>8, <1>9 DEF Responding

------------------------------------------------------------------------------
(* The agent's steps.                                                      *)

LEMMA ChunkTyped ==
  ASSUME AgentTyped, NEW part \in Parts, NEW customers \in SUBSET Customers, NEW n \in Nat
  PROVE  Chunk(part, customers, n) \in AllChunks
  BY DEF AgentTyped, Chunk, AllChunks, ChunksOf

\* One more of the answer is put.
LEMMA EndsWithMore ==
  ASSUME NEW S, NEW t \in Seq(S), NEW e \in S, NEW s, NEW r, NEW n \in Nat,
         EndsWith(t, s, n), \A i \in 1..n : r[i] = s[i], r[n + 1] = e
  PROVE  EndsWith(Append(t, e), r, n + 1)
  <1> DEFINE u == Append(t, e)
  <1>1. /\ Len(t) \in Nat /\ Len(u) = Len(t) + 1 /\ u[Len(t) + 1] = e
        /\ \A i \in 1..Len(t) : u[i] = t[i]
    OBVIOUS
  <1> HIDE DEF u
  <1>2. ASSUME NEW i \in 1..(n + 1)  PROVE u[Len(u) - (n + 1) + i] = r[i]
    <2>1. CASE i = n + 1  BY <1>1, <2>1
    <2>2. CASE i \in 1..n
      <3>1. Len(t) - n + i \in 1..Len(t) /\ Len(u) - (n + 1) + i = Len(t) - n + i
        BY <1>1, <2>2 DEF EndsWith
      <3> QED  BY <1>1, <2>2, <3>1 DEF EndsWith
    <2> QED  BY <2>1, <2>2
  <1>3. n + 1 <= Len(u)  BY <1>1 DEF EndsWith
  <1>4. EndsWith(u, r, n + 1)  BY <1>2, <1>3 DEF EndsWith
  <1> QED  BY <1>4 DEF u

\* A step of the agent changes the queue by one chunk at most, and is taken
\* only while the response has not left its loop.
LEMMA AgentStep ==
  ASSUME ChatInv, agent.pc \in Running, UNCHANGED response,
         AgentTyped', AnswerPut', ScoreTyped', AllChunks \subseteq AllChunks',
         \/ UNCHANGED <<queue, put>>
         \/ \E x \in AllChunks' : queue' = Append(queue, x) /\ put' = Append(put, x)
  PROVE  ChatInv'
  <1>1. agent.pc # "idle" /\ agent.pc \notin Over  BY DEF Running, Over
  <1>2. ResponseTyped' /\ Drained'
    BY <1>1 DEF ChatInv, ResponseTyped, Drained, response
  <1>3. /\ queue \in Seq(AllChunks') /\ shown \in Seq(AllChunks') /\ put \in Seq(AllChunks')
        /\ put = shown \o queue /\ shown' = shown
    BY DEF ChatInv, PutTyped, response
  <1>4. PutTyped'
    <2>1. CASE UNCHANGED <<queue, put>>  BY <1>3, <2>1 DEF PutTyped
    <2>2. ASSUME NEW x \in AllChunks', queue' = Append(queue, x), put' = Append(put, x)
          PROVE  PutTyped'
      <3>1. put' = shown \o queue'  BY <1>3, <2>2, AppendToQueue
      <3>2. queue' \in Seq(AllChunks') /\ put' \in Seq(AllChunks')  BY <1>3, <2>2
      <3> QED  BY <1>3, <3>1, <3>2 DEF PutTyped
    <2> QED  BY <2>1, <2>2
  <1> QED  BY <1>2, <1>4 DEF ChatInv

\* The agent goes on without a word, and without an answer yet.
LEMMA QuietStep ==
  ASSUME ChatInv, agent.pc \in Running, UNCHANGED response, ScoreTyped',
         NEW pc \in Unanswered \cup {"answer", "failed"}, agent.pc \in Unanswered,
         agent' = [agent EXCEPT !.pc = pc],
         \/ UNCHANGED <<queue, put>>
         \/ \E x \in AllChunks : queue' = Append(queue, x) /\ put' = Append(put, x)
  PROVE  ChatInv'
  <1>1. /\ DOMAIN agent' = DOMAIN agent /\ agent'.pc = pc
        /\ agent'.attempt = agent.attempt /\ agent'.chunks = <<>> /\ agent'.said = 0
        /\ agent.chunks = <<>> /\ agent.said = 0
    BY DEF ChatInv, AgentTyped
  <1>2. AllChunks' = AllChunks  BY <1>1 DEF AllChunks
  <1>3. AgentTyped'
    BY <1>1, <1>2 DEF ChatInv, AgentTyped, Unanswered, Running, Over
  <1>4. put' \in Seq(AllChunks)
    <2>1. put \in Seq(AllChunks)  BY DEF ChatInv, PutTyped
    <2>2. ASSUME NEW x \in AllChunks, put' = Append(put, x)  PROVE put' \in Seq(AllChunks)
      BY <2>1, <2>2
    <2> QED  BY <2>1, <2>2
  <1>5. AnswerPut'
    BY <1>1, <1>4 DEF AnswerPut, EndsWith, Unanswered
  <1> QED  BY <1>2, <1>3, <1>5, AgentStep

\* The agent's last word is the answer.
LEMMA LastStep ==
  ASSUME ChatInv, agent.pc \in {"fetch", "answer"}, UNCHANGED <<score, response>>,
         NEW part \in Parts, SayLast(part)
  PROVE  ChatInv'
  <1> DEFINE x == Chunk(part, {}, 1)
  <1>1. x \in AllChunks  BY ChunkTyped DEF ChatInv
  <1> HIDE DEF x
  <1>2. agent' = [agent EXCEPT !.pc = "answered", !.chunks = <<x>>]
        /\ queue' = Append(queue, x) /\ put' = Append(put, x)
    BY DEF SayLast, Send, x
  <1>3. /\ DOMAIN agent' = DOMAIN agent /\ agent'.pc = "answered"
        /\ agent'.attempt = agent.attempt /\ agent'.chunks = <<x>>
        /\ agent'.said = 0
    BY <1>2 DEF ChatInv, AgentTyped, Unanswered
  <1>4. AllChunks' = AllChunks  BY <1>3 DEF AllChunks
  <1>5. <<x>> \in Seq(AllChunks) /\ Len(<<x>>) = 1 /\ <<x>>[1] = x  BY <1>1
  <1>6. AgentTyped'
    BY <1>3, <1>4, <1>5 DEF ChatInv, AgentTyped, Unanswered, Over
  <1>7. put \in Seq(AllChunks)  BY DEF ChatInv, PutTyped
  <1>8. EndsWith(put, <<>>, 0)  BY <1>7 DEF EndsWith
  <1>9. EndsWith(put', <<x>>, 0 + 1)
    <2>1. <<x>>[0 + 1] = x  OBVIOUS
    <2>2. \A i \in 1..0 : <<x>>[i] = <<>>[i]  OBVIOUS
    <2> QED  BY <1>1, <1>2, <1>7, <1>8, <2>1, <2>2, EndsWithMore
  <1>10. AnswerPut'  BY <1>3, <1>5, <1>9 DEF AnswerPut
  <1>11. ScoreTyped' /\ agent.pc \in Running
    BY DEF ChatInv, ScoreTyped, Running
  <1> QED  BY <1>1, <1>2, <1>4, <1>6, <1>10, <1>11, AgentStep DEF response

\* The words of the report, one by one.
LEMMA ReportKeeps ==
  ASSUME ChatInv, Report \/ SayReport
  PROVE  ChatInv'
  <1>1. CASE Report
    <2>1. PICK warned \in Warned :
            agent' = [agent EXCEPT !.pc = "report",
                                   !.chunks = <<Chunk("found", Found, 1), Chunk("warned", warned, 2)>>]
      BY <1>1 DEF Report
    <2> DEFINE words == <<Chunk("found", Found, 1), Chunk("warned", warned, 2)>>
    <2>2. Found \in SUBSET Customers /\ warned \in SUBSET Customers
      BY DEF Found, Warned, Failed
    <2>3. Chunk("found", Found, 1) \in AllChunks /\ Chunk("warned", warned, 2) \in AllChunks
      BY <2>2, ChunkTyped DEF ChatInv, Parts
    <2>4. words \in Seq(AllChunks) /\ Len(words) = 2  BY <2>3
    <2> HIDE DEF words
    <2>5. /\ DOMAIN agent' = DOMAIN agent /\ agent'.pc = "report"
          /\ agent'.attempt = agent.attempt /\ agent'.chunks = words
          /\ agent'.said = 0
      BY <1>1, <2>1 DEF Report, ChatInv, AgentTyped, Unanswered, words
    <2>6. AllChunks' = AllChunks  BY <2>5 DEF AllChunks
    <2>7. AgentTyped'
      <3>1. agent.attempt \in 1..ATTEMPTS /\ DOMAIN agent = {"pc", "attempt", "chunks", "said"}
        BY DEF ChatInv, AgentTyped
      <3>2. words \in Seq(AllChunks') /\ Len(words) = 2  BY <2>4, <2>6
      <3>3. 0 \in 0..2 /\ 0 < 2  OBVIOUS
      <3> QED  BY <2>5, <3>1, <3>2, <3>3 DEF AgentTyped, Unanswered, Running
    <2>8. put \in Seq(AllChunks) /\ UNCHANGED put  BY <1>1 DEF ChatInv, PutTyped, Report
    <2>9. AnswerPut'  BY <2>5, <2>8 DEF AnswerPut, EndsWith
    <2>10. ScoreTyped' /\ agent.pc \in Running
      BY <1>1 DEF Report, ChatInv, ScoreTyped, Running
    <2> QED  BY <1>1, <2>6, <2>7, <2>9, <2>10, AgentStep DEF Report
  <1>2. CASE SayReport
    <2> DEFINE next == agent.said + 1
               x == agent.chunks[next]
               pc == IF next = Len(agent.chunks) THEN "answered" ELSE "report"
    <2>1. /\ agent' = [agent EXCEPT !.said = next, !.pc = pc]
          /\ queue' = Append(queue, x) /\ put' = Append(put, x)
          /\ UNCHANGED <<score, response>> /\ agent.pc = "report"
      BY <1>2 DEF SayReport, Send
    <2>2. /\ agent.said \in Nat /\ Len(agent.chunks) \in Nat /\ next \in 1..Len(agent.chunks)
          /\ agent.chunks \in Seq(AllChunks)
      BY <2>1 DEF ChatInv, AgentTyped
    <2>3. x \in AllChunks  BY <2>2
    <2>4. /\ DOMAIN agent' = DOMAIN agent /\ agent'.pc = pc
          /\ agent'.attempt = agent.attempt /\ agent'.chunks = agent.chunks
          /\ agent'.said = next
      BY <2>1 DEF ChatInv, AgentTyped
    <2>5. AllChunks' = AllChunks  BY <2>4 DEF AllChunks
    <2>6. AgentTyped'
      BY <2>2, <2>4, <2>5 DEF ChatInv, AgentTyped, Unanswered, Running, Over
    <2>7. EndsWith(put', agent.chunks, next)
      <3>1. EndsWith(put, agent.chunks, agent.said) /\ put \in Seq(AllChunks)
        BY <2>1 DEF ChatInv, AnswerPut, PutTyped
      <3> HIDE DEF x
      <3>2. EndsWith(Append(put, x), agent.chunks, agent.said + 1)
        BY <2>2, <2>3, <3>1, EndsWithMore DEF x
      <3> QED  BY <2>1, <3>2
    <2>8. AnswerPut'  BY <2>4, <2>7 DEF AnswerPut
    <2>9. ScoreTyped' /\ agent.pc \in Running
      BY <2>1 DEF ChatInv, ScoreTyped, Running
    <2> QED  BY <2>1, <2>3, <2>5, <2>6, <2>8, <2>9, AgentStep
  <1> QED  BY <1>1, <1>2

\* The tokens of the answer, and its end.
LEMMA TokenKeeps ==
  ASSUME ChatInv, Token \/ Final
  PROVE  ChatInv'
  <1>0. agent.pc = "answer" /\ agent.pc \in Running /\ UNCHANGED <<score, response>> /\ ScoreTyped'
    BY DEF Token, Final, Running, ChatInv, ScoreTyped
  <1>1. /\ agent.chunks \in Seq(AllChunks) /\ put \in Seq(AllChunks) /\ agent.said = 0
        /\ EndsWith(put, agent.chunks, Len(agent.chunks))
    BY <1>0 DEF ChatInv, AgentTyped, PutTyped, AnswerPut
  <1>2. CASE Token
    <2> DEFINE n == Len(agent.chunks)
               x == Chunk("token", {}, n + 1)
               answer == Append(agent.chunks, x)
    <2>1. agent' = [agent EXCEPT !.chunks = answer] /\ queue' = Append(queue, x) /\ put' = Append(put, x)
      BY <1>2 DEF Token, Send
    <2>2. n \in Nat /\ x \in AllChunks
      <3>1. n \in Nat /\ n + 1 \in Nat /\ {} \in SUBSET Customers /\ "token" \in Parts
        BY <1>1 DEF Parts
      <3> QED  BY <3>1, ChunkTyped DEF ChatInv
    <2> HIDE DEF x
    <2>3. /\ answer \in Seq(AllChunks) /\ Len(answer) = n + 1 /\ answer[n + 1] = x
          /\ \A i \in 1..n : answer[i] = agent.chunks[i]
      BY <1>1, <2>2
    <2>4. EndsWith(put', answer, n + 1)
      BY <1>1, <2>1, <2>2, <2>3, EndsWithMore
    <2> HIDE DEF answer
    <2>5. /\ DOMAIN agent' = DOMAIN agent /\ agent'.pc = "answer"
          /\ agent'.attempt = agent.attempt /\ agent'.chunks = answer /\ agent'.said = 0
      BY <1>0, <1>1, <2>1 DEF ChatInv, AgentTyped
    <2>6. AllChunks' = AllChunks  BY <2>5 DEF AllChunks
    <2>7. AgentTyped'
      BY <2>2, <2>3, <2>5, <2>6 DEF ChatInv, AgentTyped, Unanswered, Running
    <2>8. AnswerPut'  BY <2>3, <2>4, <2>5 DEF AnswerPut
    <2> QED  BY <1>0, <2>1, <2>2, <2>6, <2>7, <2>8, AgentStep
  <1>3. CASE Final
    <2>1. agent' = [agent EXCEPT !.pc = "answered"] /\ UNCHANGED <<queue, put>>
      BY <1>3 DEF Final, Goto
    <2>2. /\ DOMAIN agent' = DOMAIN agent /\ agent'.pc = "answered"
          /\ agent'.attempt = agent.attempt /\ agent'.chunks = agent.chunks /\ agent'.said = 0
      BY <1>1, <2>1 DEF ChatInv, AgentTyped
    <2>3. AllChunks' = AllChunks  BY <2>2 DEF AllChunks
    <2>4. AgentTyped'
      BY <2>2, <2>3 DEF ChatInv, AgentTyped, Unanswered, Over
    <2>5. AnswerPut'  BY <1>1, <2>1, <2>2 DEF AnswerPut
    <2> QED  BY <1>0, <2>1, <2>3, <2>4, <2>5, AgentStep
  <1> QED  BY <1>2, <1>3

\* A new attempt starts with nothing said, and its chunks are its own.
LEMMA TimeoutKeeps ==
  ASSUME ChatInv, Timeout
  PROVE  ChatInv'
  <1>1. /\ agent.pc \in Running /\ UNCHANGED <<queue, put, response>> /\ ScoreTyped'
    BY DEF Timeout, Unscored, ScoreTyped
  <1>2. put \in Seq(AllChunks)  BY DEF ChatInv, PutTyped
  <1>3. CASE agent.attempt < ATTEMPTS
    <2>1. agent' = [pc |-> "filters", attempt |-> agent.attempt + 1, chunks |-> <<>>, said |-> 0]
      BY <1>3 DEF Timeout
    <2>2. agent.attempt \in 1..ATTEMPTS /\ agent'.attempt = agent.attempt + 1
      BY <2>1 DEF ChatInv, AgentTyped
    <2>3. 1..agent.attempt \subseteq 1..(agent.attempt + 1)
      BY <2>2
    <2>4. AllChunks \subseteq AllChunks'
      BY <2>2, <2>3 DEF AllChunks, ChunksOf
    <2>5. /\ DOMAIN agent' = {"pc", "attempt", "chunks", "said"}
          /\ agent'.pc = "filters" /\ agent'.chunks = <<>> /\ agent'.said = 0
          /\ agent'.attempt \in 1..ATTEMPTS
      BY <1>3, <2>1, <2>2, ConstantsAssumption
    <2>6. AgentTyped'  BY <2>5 DEF AgentTyped, Unanswered, Running
    <2>7. AnswerPut'  BY <2>5 DEF AnswerPut
    <2> QED  BY <1>1, <2>4, <2>6, <2>7, AgentStep
  <1>4. CASE ~(agent.attempt < ATTEMPTS)
    <2>1. agent' = [agent EXCEPT !.pc = "failed"]
      BY <1>4 DEF Timeout
    <2>2. /\ DOMAIN agent' = DOMAIN agent /\ agent'.pc = "failed"
          /\ agent'.attempt = agent.attempt /\ agent'.chunks = agent.chunks
          /\ agent'.said = agent.said
      BY <2>1 DEF ChatInv, AgentTyped
    <2>3. AllChunks' = AllChunks  BY <2>2 DEF AllChunks
    <2>4. AgentTyped'
      BY <2>2, <2>3 DEF ChatInv, AgentTyped, Unanswered, Over
    <2>5. AnswerPut'  BY <2>2 DEF AnswerPut
    <2> QED  BY <1>1, <2>3, <2>4, <2>5, AgentStep
  <1> QED  BY <1>3, <1>4

LEMMA AgentKeeps ==
  ASSUME ChatInv, Answering
  PROVE  ChatInv'
  <1>1. ASSUME NEW pc \in Unanswered \cup {"answer", "failed"}, Goto(pc),
               agent.pc \in Unanswered \ {"idle"}, UNCHANGED response, ScoreTyped'
        PROVE  ChatInv'
    BY <1>1, QuietStep DEF Goto, Unanswered, Running
  <1>2. ASSUME NEW pc \in Unanswered, NEW part \in Parts, Say(part, pc),
               agent.pc \in Unanswered \ {"idle"}, UNCHANGED response, ScoreTyped'
        PROVE  ChatInv'
    <2>1. Chunk(part, {}, 0) \in AllChunks  BY ChunkTyped DEF ChatInv
    <2> QED  BY <1>2, <2>1, QuietStep DEF Say, Send, Unanswered, Running
  <1>3. CASE Filters
    BY <1>1, <1>3 DEF Filters, Unanswered, ChatInv, ScoreTyped
  <1>4. CASE Initialize
    BY <1>2, <1>4 DEF Initialize, Unanswered, Parts, ChatInv, ScoreTyped
  <1>5. CASE FetchCustomers
    <2>1. CASE Goto("announce")
      BY <1>1, <1>5, <2>1 DEF FetchCustomers, Unanswered, ChatInv, ScoreTyped
    <2>2. CASE SayLast("fetch failed") \/ SayLast("no customers")
      BY <1>5, <2>2, LastStep DEF FetchCustomers, Parts
    <2> QED  BY <1>5, <2>1, <2>2 DEF FetchCustomers
  <1>6. CASE StartScoring
    <2>1. ScoreTyped'  BY <1>6 DEF StartScoring, ScoreTyped
    <2> QED  BY <1>2, <1>6, <2>1 DEF StartScoring, Unanswered, Parts
  <1>7. ASSUME NEW c \in Customers, Score(c)  PROVE ChatInv'
    <2>1. ScoreTyped'  BY <1>7 DEF Score, ChatInv, ScoreTyped
    <2>2. agent.pc \in Running /\ UNCHANGED <<agent, queue, put, response>>
      BY <1>7 DEF Score, Running
    <2>3. AgentTyped' /\ AnswerPut' /\ AllChunks' = AllChunks
      BY <2>2 DEF ChatInv, AgentTyped, AnswerPut, AllChunks
    <2> QED  BY <2>1, <2>2, <2>3, AgentStep
  <1>8. CASE SearchKnowledge
    BY <1>1, <1>8 DEF SearchKnowledge, Unanswered, ChatInv, ScoreTyped
  <1>9. CASE ReadPortfolio
    BY <1>1, <1>9 DEF ReadPortfolio, Unanswered, ChatInv, ScoreTyped
  <1>10. CASE Apologise
    BY <1>10, LastStep DEF Apologise, Parts
  <1> QED  BY <1>3, <1>4, <1>5, <1>6, <1>7, <1>8, <1>9, <1>10, ReportKeeps, TokenKeeps, TimeoutKeeps
           DEF Answering

LEMMA ChatNext == ChatInv /\ [Next]_vars => ChatInv'
  <1> SUFFICES ASSUME ChatInv, [Next]_vars  PROVE ChatInv'
    OBVIOUS
  <1>1. CASE UNCHANGED vars
    BY <1>1 DEF vars, ChatInv, AgentTyped, PutTyped, ResponseTyped, Drained, AnswerPut, ScoreTyped,
                AllChunks
  <1>2. CASE Next
    BY <1>2, ResponseKeeps, AgentKeeps DEF Next
  <1> QED  BY <1>1, <1>2

LEMMA ChatAlways == Spec => []ChatInv
  BY ChatInit, ChatNext, PTL DEF Spec

------------------------------------------------------------------------------

\* Every variable keeps its type; a chunk belongs to an attempt made so far.
THEOREM TypeCorrect == Spec => []TypeOK
  <1>1. ASSUME ChatInv  PROVE TypeOK
    <2>1. ASSUME NEW s \in {agent.chunks, queue, put, shown}, NEW i \in DOMAIN s
          PROVE  IsChunk(s[i])
      <3>1. s \in Seq(AllChunks)  BY <1>1 DEF ChatInv, AgentTyped, PutTyped
      <3>2. s[i] \in AllChunks  BY <3>1
      <3> QED  BY <3>2 DEF IsChunk, AllChunks, ChunksOf
    <2> QED  BY <1>1, <2>1 DEF ChatInv, AgentTyped, ResponseTyped, ScoreTyped, TypeOK
  <1> QED  BY <1>1, ChatAlways, PTL

\* The final event follows everything that was put on the queue, although the
\* loop looks at the task and at the queue at different times (chat.py:157).
THEOREM DoneIsLast == Spec => []DoneMeansAllShown
  <1>1. ASSUME ChatInv, stream = "done", connected  PROVE shown = put
    <2>1. put = shown \o queue /\ queue = <<>> /\ shown \in Seq(AllChunks)
      BY <1>1 DEF ChatInv, PutTyped, Drained
    <2> QED  BY <2>1
  <1>2. ChatInv => DoneMeansAllShown  BY <1>1 DEF DoneMeansAllShown
  <1> QED  BY <1>2, ChatAlways, PTL

\* The page ends with the answer of the attempt that succeeded, whatever
\* earlier attempts or an interrupted answer left above it (base_agent.py:175).
THEOREM AnswerIsLast == Spec => []PageEndsWithAnswer
  <1>1. ASSUME ChatInv, stream = "done", connected, agent.pc = "answered"
        PROVE  IsSuffix(agent.chunks, shown)
    <2>1. put = shown \o queue /\ queue = <<>> /\ shown \in Seq(AllChunks)
      BY <1>1 DEF ChatInv, PutTyped, Drained
    <2>2. put = shown  BY <2>1
    <2>3. EndsWith(shown, agent.chunks, Len(agent.chunks)) /\ agent.chunks \in Seq(AllChunks)
      BY <1>1, <2>2 DEF ChatInv, AnswerPut, AgentTyped
    <2> QED  BY <2>1, <2>3, EndsWithIsSuffix
  <1>2. ChatInv => PageEndsWithAnswer  BY <1>1 DEF PageEndsWithAnswer
  <1> QED  BY <1>2, ChatAlways, PTL

==============================================================================

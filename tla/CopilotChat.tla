----------------------------- MODULE CopilotChat ------------------------------
(***************************************************************************)
(* One question to the copilot.                                            *)
(*                                                                         *)
(*   services/gateway/routers/chat.py                copilot_chat          *)
(*   services/orchestrator/agents/rm_copilot.py      RMCopilotAgent        *)
(*   services/orchestrator/agents/base_agent.py      retry and timeout     *)
(*                                                                         *)
(* The response's generator starts the agent as a task and polls a queue,  *)
(* ten times a second, until the task is over and the queue is empty.  The *)
(* agent answers either from the knowledge base, token by token, or by     *)
(* scoring all the customers of the RM at once and reporting on them.      *)
(* When execute takes too long it is cancelled and run again: what it had  *)
(* put on the queue stays there.                                           *)
(***************************************************************************)
EXTENDS Naturals, FiniteSets, SequencesExt

CONSTANTS
  Customers,   \* customers in the RM's portfolio
  ATTEMPTS,    \* attempts of execute, stop_after_attempt(3)
  DISPLAYED,   \* errors the report displays, all_errors[:3]
  MaxTokens    \* bound: tokens of an answer from the knowledge base

ASSUME ConstantsAssumption ==
  /\ IsFiniteSet(Customers)
  /\ ATTEMPTS \in Nat \ {0}
  /\ DISPLAYED \in Nat \ {0}
  /\ MaxTokens \in Nat

VARIABLES
  stream,     \* where the response's generator is
  connected,  \* does the RM's browser still listen
  agent,      \* the agent: attempt, chunks of its answer, words of a report said
  score,      \* score[c]: the scoring graph of customer c in this attempt
  queue,      \* token_queue
  put,        \* history: every chunk put on the queue
  shown       \* what the RM's page was sent

vars == <<stream, connected, agent, score, queue, put, shown>>
response == <<stream, connected, shown>>

Running == {"filters", "pipeline", "fetch", "announce", "scoring", "report", "knowledge", "portfolio", "answer"}
Over == {"answered", "failed", "cancelled"}
Closed == {"done", "error", "cancelled"}

Unscored == [c \in Customers |-> "idle"]

\* A chunk: the attempt that put it, its part in the page, the customers it
\* names, and its number among the chunks of an answer.
Chunk(part, customers, n) ==
  [attempt |-> agent.attempt, part |-> part, customers |-> customers, n |-> n]

Init ==
  /\ stream = "prepare"
  /\ connected = TRUE
  /\ agent = [pc |-> "idle", attempt |-> 1, chunks |-> <<>>, said |-> 0]
  /\ score = Unscored
  /\ queue = <<>>
  /\ put = <<>>
  /\ shown = <<>>

------------------------------------------------------------------------------
(* The generator of the response.                                          *)

\* The customer in the context is read, which may raise; the citations of the
\* four collections, which may not; and the graph is started.
Prepare ==
  /\ stream = "prepare"
  /\ \/ /\ stream' = "head"
        /\ agent' = [agent EXCEPT !.pc = "filters"]
     \/ /\ stream' = "error"
        /\ UNCHANGED agent
  /\ UNCHANGED <<connected, score, queue, put, shown>>

\* Mutant: the loop ends with the task.
MutantLoopHead ==
  /\ stream = "head"
  /\ stream' = IF agent.pc \in Over THEN "await" ELSE "poll"
  /\ UNCHANGED <<connected, agent, score, queue, put, shown>>

\* while not task.done() or not token_queue.empty()
LoopHead ==
  /\ stream = "head"
  /\ stream' = IF agent.pc \in Over /\ queue = <<>> THEN "await" ELSE "poll"
  /\ UNCHANGED <<connected, agent, score, queue, put, shown>>

\* A browser that has gone ends the loop.
Poll ==
  /\ stream = "poll"
  /\ stream' = IF connected THEN "get" ELSE "await"
  /\ UNCHANGED <<connected, agent, score, queue, put, shown>>

\* A chunk is sent on, or none came within a tenth of a second.
Get ==
  /\ stream = "get"
  /\ stream' = "head"
  /\ \/ /\ queue # <<>>
        /\ shown' = Append(shown, Head(queue))
        /\ queue' = Tail(queue)
     \/ queue = <<>> /\ UNCHANGED <<queue, shown>>
  /\ UNCHANGED <<connected, agent, score, put>>

\* The result of the task is awaited, after a disconnect too; the last event
\* carries the citations and the trace, and none of the agent's errors.
Await ==
  /\ stream = "await"
  /\ agent.pc \in Over
  /\ stream' = IF agent.pc = "cancelled" THEN "error" ELSE "done"
  /\ UNCHANGED <<connected, agent, score, queue, put, shown>>

Disconnect ==
  /\ connected
  /\ stream \notin Closed
  /\ connected' = FALSE
  /\ UNCHANGED <<stream, agent, score, queue, put, shown>>

\* The server cancels the generator of a browser that has gone.  When it was
\* awaiting the task, the task is cancelled with it; when not, the agent
\* goes on for nobody.
Cancel ==
  /\ ~connected
  /\ stream \notin Closed
  /\ stream' = "cancelled"
  /\ agent' = IF stream = "await" /\ agent.pc \in Running
              THEN [agent EXCEPT !.pc = "cancelled"] ELSE agent
  /\ UNCHANGED <<connected, score, queue, put, shown>>

------------------------------------------------------------------------------
(* The agent.                                                              *)

Send(chunk) ==
  /\ queue' = Append(queue, chunk)
  /\ put' = Append(put, chunk)

\* The agent goes on to pc, with one more chunk for the page.
Say(part, pc) ==
  /\ agent' = [agent EXCEPT !.pc = pc]
  /\ Send(Chunk(part, {}, 0))

\* The agent's last word: it is the answer, or its only chunk.
SayLast(part) ==
  /\ agent' = [agent EXCEPT !.pc = "answered", !.chunks = <<Chunk(part, {}, 1)>>]
  /\ Send(Chunk(part, {}, 1))

Goto(pc) ==
  /\ agent' = [agent EXCEPT !.pc = pc]
  /\ UNCHANGED <<queue, put>>

\* The LLM, or keywords when it fails, decide whether the question is about
\* the pipeline.  A filter of an unexpected type raises.
Filters ==
  /\ agent.pc = "filters"
  /\ \E pc \in {"pipeline", "knowledge", "failed"} : Goto(pc)
  /\ UNCHANGED <<score, response>>

Initialize ==
  /\ agent.pc = "pipeline"
  /\ Say("initializing", "fetch")
  /\ UNCHANGED <<score, response>>

\* The customers of the RM, of the persona asked for: an error or an empty
\* portfolio is the answer.
FetchCustomers ==
  /\ agent.pc = "fetch"
  /\ \/ SayLast("fetch failed")
     \/ SayLast("no customers")
     \/ Customers # {} /\ Goto("announce")
  /\ UNCHANGED <<score, response>>

\* asyncio.gather starts a graph for every customer, each with a session of
\* its own.
StartScoring ==
  /\ agent.pc = "announce"
  /\ Say("running", "scoring")
  /\ score' = [c \in Customers |-> "running"]
  /\ UNCHANGED response

\* A graph ends with opportunities that match or with none, and in either
\* case perhaps with errors of its agents; or it raises, and gather returns
\* the exception.
Outcomes == {"match", "match and error", "nothing", "error", "raised"}

Score(c) ==
  /\ agent.pc = "scoring"
  /\ score[c] = "running"
  /\ \E outcome \in Outcomes :
       score' = [score EXCEPT ![c] = outcome]
  /\ UNCHANGED <<agent, queue, put, response>>

Found == {c \in Customers : score[c] \in {"match", "match and error"}}
Failed == {c \in Customers : score[c] \in {"match and error", "error", "raised"}}

\* Whose errors may be displayed: some, and no more than there is room for.
Warned == {s \in SUBSET Failed : (s = {} <=> Failed = {}) /\ Cardinality(s) <= DISPLAYED}

\* The report names the prospects and warns of errors; it goes out in words.
Report ==
  /\ agent.pc = "scoring"
  /\ \A c \in Customers : score[c] # "running"
  /\ \E warned \in Warned :
       LET words == <<Chunk("found", Found, 1), Chunk("warned", warned, 2)>> IN
       agent' = [agent EXCEPT !.pc = "report", !.chunks = words]
  /\ UNCHANGED <<score, queue, put, response>>

SayReport ==
  /\ agent.pc = "report"
  /\ LET next == agent.said + 1 IN
     /\ Send(agent.chunks[next])
     /\ agent' = [agent EXCEPT !.said = next,
                               !.pc = IF next = Len(agent.chunks) THEN "answered" ELSE "report"]
  /\ UNCHANGED <<score, response>>

\* The four collections are searched one after the other, with the session of
\* the request; a search that fails finds nothing.
SearchKnowledge ==
  /\ agent.pc = "knowledge"
  /\ Goto("portfolio")
  /\ UNCHANGED <<score, response>>

\* The portfolio is read, or said to be unavailable.  The prompt is refused
\* when it looks as if it held personal data: the agent fails and the page is
\* told nothing of it.
ReadPortfolio ==
  /\ agent.pc = "portfolio"
  /\ \E pc \in {"answer", "failed"} : Goto(pc)
  /\ UNCHANGED <<score, response>>

Token ==
  /\ agent.pc = "answer"
  /\ Len(agent.chunks) < MaxTokens
  /\ LET token == Chunk("token", {}, Len(agent.chunks) + 1) IN
     /\ agent' = [agent EXCEPT !.chunks = Append(@, token)]
     /\ Send(token)
  /\ UNCHANGED <<score, response>>

Final ==
  /\ agent.pc = "answer"
  /\ Goto("answered")
  /\ UNCHANGED <<score, response>>

\* Mutant: the apology is the answer, but the page is not sent it.
MutantApologise ==
  /\ agent.pc = "answer"
  /\ agent' = [agent EXCEPT !.pc = "answered", !.chunks = <<Chunk("apology", {}, 1)>>]
  /\ UNCHANGED <<queue, put, score, response>>

\* An exception while streaming: what was said before is not the answer.
Apologise ==
  /\ agent.pc = "answer"
  /\ SayLast("apology")
  /\ UNCHANGED <<score, response>>

\* Mutant: one attempt too many.
MutantTimeoutOnce ==
  /\ agent.pc \in Running
  /\ agent' = IF agent.attempt <= ATTEMPTS
              THEN [pc |-> "filters", attempt |-> agent.attempt + 1, chunks |-> <<>>, said |-> 0]
              ELSE [agent EXCEPT !.pc = "failed"]
  /\ score' = Unscored
  /\ UNCHANGED <<queue, put, response>>

\* Mutant: attempts are not counted.
MutantTimeout ==
  /\ agent.pc \in Running
  /\ agent' = [agent EXCEPT !.pc = "filters", !.chunks = <<>>, !.said = 0]
  /\ score' = Unscored
  /\ UNCHANGED <<queue, put, response>>

\* execute and all it awaits are cancelled and started again, or the last
\* attempt is over and the error is kept in the state.
Timeout ==
  /\ agent.pc \in Running
  /\ agent' = IF agent.attempt < ATTEMPTS
              THEN [pc |-> "filters", attempt |-> agent.attempt + 1, chunks |-> <<>>, said |-> 0]
              ELSE [agent EXCEPT !.pc = "failed"]
  /\ score' = Unscored
  /\ UNCHANGED <<queue, put, response>>

------------------------------------------------------------------------------
Responding == Prepare \/ LoopHead \/ Poll \/ Get \/ Await
Answering ==
  \/ Filters \/ Initialize \/ FetchCustomers \/ StartScoring
  \/ \E c \in Customers : Score(c)
  \/ Report \/ SayReport \/ SearchKnowledge \/ ReadPortfolio \/ Token \/ Final \/ Apologise \/ Timeout

Next == Responding \/ Answering \/ Disconnect \/ Cancel

Spec == Init /\ [][Next]_vars

\* The generator and the task both run on the event loop.
Fairness ==
  /\ WF_vars(Responding)
  /\ WF_vars(Answering)

FairSpec == Spec /\ Fairness

------------------------------------------------------------------------------
(* Properties.                                                             *)

Parts == {"initializing", "running", "fetch failed", "no customers", "found", "warned",
          "token", "apology"}

IsChunk(x) ==
  x \in [attempt : 1..agent.attempt, part : Parts, customers : SUBSET Customers, n : Nat]

\* Type invariant.
TypeOK ==
  /\ stream \in {"prepare", "head", "poll", "get", "await"} \cup Closed
  /\ connected \in BOOLEAN
  /\ DOMAIN agent = {"pc", "attempt", "chunks", "said"}
  /\ agent.pc \in {"idle"} \cup Running \cup Over
  /\ agent.attempt \in 1..ATTEMPTS
  /\ agent.said \in 0..Len(agent.chunks)
  /\ \A s \in {agent.chunks, queue, put, shown} : \A i \in DOMAIN s : IsChunk(s[i])
  /\ score \in [Customers -> {"idle", "running"} \cup Outcomes]

\* The final event comes last: when it is sent to a browser that listens,
\* everything that any attempt of the agent put on the queue was sent before
\* it, in order, though the task may end between two looks at the queue.
DoneMeansAllShown ==
  stream = "done" /\ connected => shown = put

\* What a page shows last is the answer of the attempt that succeeded,
\* however much earlier attempts, or the tokens before an exception, left
\* above it.
PageEndsWithAnswer ==
  stream = "done" /\ connected /\ agent.pc = "answered" => IsSuffix(agent.chunks, shown)

\* The response ends and the agent with it, three timeouts notwithstanding,
\* whether the RM stays or goes.
ChatEnds == <>[](stream \in Closed /\ agent.pc \in {"idle"} \cup Over)

==============================================================================

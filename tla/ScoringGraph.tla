----------------------------- MODULE ScoringGraph -----------------------------
(***************************************************************************)
(* One run of the customer scoring graph: the agents in their order, the   *)
(* two routes, the retries of BaseAgent around each agent and those of the *)
(* LLM router inside the two agents that call it.                          *)
(*                                                                         *)
(*   services/orchestrator/graph/builder.py, router.py, state.py           *)
(*   services/orchestrator/agents/base_agent.py and the agents             *)
(*   services/orchestrator/llm/router.py, output_parser.py                 *)
(*                                                                         *)
(* An agent that raises writes nothing but its name into `errors`, and the *)
(* graph goes on to the next node as if it had returned.  The text of a    *)
(* prompt or an answer is abstracted to what it is about and to whether it *)
(* parses.                                                                 *)
(***************************************************************************)
EXTENDS LifeEvents

CONSTANTS
  Histories,     \* the transactions of a customer, as sequences
  Profiles,      \* what customers and customer_profiles hold of a customer
  MaxAttempts,   \* BaseAgent: executions of an agent
  MaxTries,      \* OPENAI_MAX_RETRIES: calls of the API in one LLM call
  MaxFaults      \* bound: failures of any kind in a run

ASSUME ConstantsAssumption ==
  /\ Histories \subseteq Seq(Transactions)
  /\ MaxAttempts \in Nat \ {0}
  /\ MaxTries \in Nat \ {0}
  /\ MaxFaults \in Nat

VARIABLES
  history,   \* the customer's transactions
  customer,  \* the customer's row and profile
  node,      \* the node of the graph under way, "start" before the graph
  attempt,   \* executions of the agent begun
  llm,       \* the LLM call under way: idle, asking, answered
  try,       \* calls of the API made in it
  state,     \* the fields of AgentState that the agents write
  trace,     \* agent_trace
  audit,     \* agents with a row in agent_execution_logs for this run
  calls,     \* history: calls of the API the agent under way has made
  faults     \* failures so far

inputs == <<history, customer>>
control == <<node, attempt, llm, try>>
books == <<trace, audit, calls>>
vars == <<history, customer, node, attempt, llm, try, state, trace, audit, calls, faults>>

------------------------------------------------------------------------------
(* The graph.                                                              *)

LLMAgents == {"explainability", "outreach_gen"}
Agents ==
  {"customer_intel", "transaction_intel", "event_detection", "risk_assessment",
   "opportunity_scoring", "product_rec"} \cup LLMAgents
Summaries == {"no_opportunity_node", "manual_review_node"}

\* initial_state: optional fields are empty sets until they are written.
EmptyState ==
  [profile |-> {}, summary |-> {}, events |-> <<>>, skip |-> FALSE, risk |-> {},
   opportunities |-> {}, products |-> {}, explanation |-> "none", messages |-> {},
   errors |-> {}]

Init ==
  /\ history \in Histories
  /\ customer \in Profiles
  /\ node = "customer_intel"
  /\ attempt = 1
  /\ llm = "idle"
  /\ try = 0
  /\ state = EmptyState
  /\ trace = <<>>
  /\ audit = {}
  /\ calls = 0
  /\ faults = 0

\* Confidence below 0.60 for every event.
AllDoubtful(s) ==
  \A i \in DOMAIN s.events : \A x \in s.summary : RuleConfidence(x)[s.events[i]] < 600

\* Mutant: a high risk alone does not stop the pipeline.
MutantNextNode(n, s) ==
  CASE n = "customer_intel" -> "transaction_intel"
    [] n = "transaction_intel" -> "event_detection"
    [] n = "event_detection" ->
         IF s.events = <<>> \/ s.skip THEN "no_opportunity_node" ELSE "risk_assessment"
    [] n = "risk_assessment" -> "opportunity_scoring"
    [] n = "opportunity_scoring" -> "product_rec"
    [] n = "product_rec" -> "explainability"
    [] n = "explainability" -> "outreach_gen"
    [] OTHER -> "end"

\* The edges, with route_after_event_detection and route_after_risk_assessment:
\* without an assessment the risk does not count as high.
NextNode(n, s) ==
  CASE n = "customer_intel" -> "transaction_intel"
    [] n = "transaction_intel" -> "event_detection"
    [] n = "event_detection" ->
         IF s.events = <<>> \/ s.skip THEN "no_opportunity_node" ELSE "risk_assessment"
    [] n = "risk_assessment" ->
         IF (\E r \in s.risk : r.tier = "high") /\ AllDoubtful(s)
         THEN "manual_review_node" ELSE "opportunity_scoring"
    [] n = "opportunity_scoring" -> "product_rec"
    [] n = "product_rec" -> "explainability"
    [] n = "explainability" -> "outreach_gen"
    [] OTHER -> "end"

------------------------------------------------------------------------------
(* BaseAgent.run.                                                          *)

Fault ==
  /\ faults < MaxFaults
  /\ faults' = faults + 1

\* The agent's fields s are merged and the graph goes on.
GoOn(s) ==
  /\ state' = s
  /\ node' = NextNode(node, s)
  /\ attempt' = 1
  /\ llm' = "idle"
  /\ try' = 0
  /\ calls' = 0
  /\ trace' = Append(trace, node)

\* _write_audit_log swallows its failure.
Audited ==
  \/ audit' = audit \cup {node} /\ UNCHANGED faults
  \/ Fault /\ UNCHANGED audit

\* execute returned s.
Return(s) ==
  /\ GoOn(s)
  /\ Audited

\* Mutant: what a failed agent raised is lost.
MutantRaise ==
  /\ GoOn(state)
  /\ audit' = audit \cup {node}

\* An exception that is not retried, or the last attempt's: run catches it,
\* appends it to errors and returns nothing else.
Raise ==
  /\ GoOn([state EXCEPT !.errors = @ \cup {node}])
  /\ audit' = audit \cup {node}

\* Mutant: one execution too many.
MutantRetryAgent(made) ==
  IF attempt <= MaxAttempts
  THEN /\ attempt' = attempt + 1
       /\ llm' = "idle"
       /\ try' = 0
       /\ calls' = made
       /\ UNCHANGED <<node, state, trace, audit>>
  ELSE Raise

\* _run_with_retry: LLMUnavailableError, a timeout or a lost connection
\* starts execute again, MaxAttempts times in all.
RetryAgent(made) ==
  IF attempt < MaxAttempts
  THEN /\ attempt' = attempt + 1
       /\ llm' = "idle"
       /\ try' = 0
       /\ calls' = made
       /\ UNCHANGED <<node, state, trace, audit>>
  ELSE Raise

\* The agent runs out of its time, or a connection of it fails.
TimeOut ==
  /\ node \in Agents
  /\ Fault
  /\ RetryAgent(calls)
  /\ UNCHANGED inputs

\* An exception that no retry is made for: a failed statement, a prompt in
\* which personal data was found.
Break ==
  /\ node \in Agents
  /\ Fault
  /\ Raise
  /\ UNCHANGED inputs

------------------------------------------------------------------------------
(* The agents that compute.                                                *)

Compute(n, s) ==
  /\ node = n
  /\ Return(s)
  /\ UNCHANGED inputs

CustomerIntel == Compute("customer_intel", [state EXCEPT !.profile = {customer}])

TransactionIntel == Compute("transaction_intel", [state EXCEPT !.summary = {Summary(history)}])

\* Without a summary, or without an event, the LLM is to be skipped.
EventDetection ==
  LET found == IF state.summary = {} THEN <<>> ELSE Detected(CHOOSE x \in state.summary : TRUE)
  IN Compute("event_detection", [state EXCEPT !.events = found, !.skip = (found = <<>>)])

\* A missing profile is a ValueError, which is not retried.
RiskAssessment ==
  \/ /\ state.profile # {}
     /\ Compute("risk_assessment",
          [state EXCEPT !.risk = {Assessment(p, history, state.summary # {}) : p \in state.profile}])
  \/ /\ node = "risk_assessment"
     /\ state.profile = {}
     /\ Raise
     /\ UNCHANGED <<inputs, faults>>

OpportunityScoring ==
  Compute("opportunity_scoring",
    [state EXCEPT !.opportunities = UNION {Opportunities(p, state.events, state.risk) : p \in state.profile}])

ProductRec ==
  Compute("product_rec",
    [state EXCEPT !.products = UNION {Recommended(p, state.events) : p \in state.profile}])

------------------------------------------------------------------------------
(* ExplainabilityAgent and OutreachGenAgent.                               *)

HasWork == state.profile # {} /\ state.opportunities # {}

\* Nothing to explain or to write: the agent returns at once.
NothingToWrite ==
  /\ node \in LLMAgents
  /\ llm = "idle"
  /\ ~HasWork
  /\ Return(state)
  /\ UNCHANGED inputs

\* The prompt is rendered, and the router is called.
Ask ==
  /\ node \in LLMAgents
  /\ llm = "idle"
  /\ HasWork
  /\ llm' = "asking"
  /\ UNCHANGED <<inputs, node, attempt, try, state, books, faults>>

\* The API answers.
Answer ==
  /\ llm = "asking"
  /\ llm' = "answered"
  /\ calls' = calls + 1
  /\ try' = try + 1
  /\ UNCHANGED <<inputs, node, attempt, state, trace, audit, faults>>

\* Mutant: the router does not count its calls.
MutantApiFails ==
  /\ llm = "asking"
  /\ Fault
  /\ calls' = calls + 1
  /\ UNCHANGED <<inputs, node, attempt, state, llm, try, trace, audit>>

\* The connection, the rate limit or the time fails a call of the API: the
\* router calls again, and at last raises LLMUnavailableError.
ApiFails ==
  /\ llm = "asking"
  /\ Fault
  /\ IF try + 1 < MaxTries
     THEN /\ try' = try + 1
          /\ calls' = calls + 1
          /\ UNCHANGED <<node, attempt, state, llm, trace, audit>>
     ELSE RetryAgent(calls + 1)
  /\ UNCHANGED inputs

\* A status of the 500s is LLMUnavailableError at once; another status is
\* raised as it is, and not retried by anyone.
ApiRefuses ==
  /\ llm = "asking"
  /\ Fault
  /\ RetryAgent(calls + 1) \/ Raise
  /\ UNCHANGED inputs

\* The explanation parses.
Explain ==
  /\ llm = "answered"
  /\ node = "explainability"
  /\ Return([state EXCEPT !.explanation = "card"])
  /\ UNCHANGED inputs

\* It does not: parse_llm_output reads phase1_error after its except clause
\* has deleted it, and the NameError becomes an OutputParseError.
ExplainMalformed ==
  /\ llm = "answered"
  /\ node = "explainability"
  /\ Fault
  /\ Raise
  /\ UNCHANGED inputs

\* The draft for the opportunity with the highest score.  The conversion in it
\* is asked of the model for each product in turn, and where that fails comes
\* from a heuristic that depends on the product: any opportunity may lead.  An
\* answer that is not JSON is used as it is, for both options.
Draft ==
  /\ llm = "answered"
  /\ node = "outreach_gen"
  /\ \E o \in state.opportunities : Return([state EXCEPT !.messages = {o.product}])
  /\ UNCHANGED inputs

------------------------------------------------------------------------------
\* Mutant: the summary has no edge to the end.
MutantSummarise ==
  /\ node \in Summaries
  /\ state' = [state EXCEPT !.explanation = node]
  /\ UNCHANGED <<inputs, node, attempt, llm, try, books, faults>>

\* no_opportunity_node and manual_review_node: a text for the RM, not an agent.
Summarise ==
  /\ node \in Summaries
  /\ state' = [state EXCEPT !.explanation = node]
  /\ node' = "end"
  /\ UNCHANGED <<inputs, attempt, llm, try, books, faults>>

Step ==
  \/ CustomerIntel \/ TransactionIntel \/ EventDetection
  \/ RiskAssessment \/ OpportunityScoring \/ ProductRec
  \/ NothingToWrite \/ Ask \/ Answer \/ Explain \/ Draft
  \/ Summarise

Failure == TimeOut \/ Break \/ ApiFails \/ ApiRefuses \/ ExplainMalformed

Next == Step \/ Failure

Spec == Init /\ [][Next]_vars

\* A run that waits for nobody goes on.
FairSpec == Spec /\ WF_vars(Step)

------------------------------------------------------------------------------
(* Properties.                                                             *)

Raised(n) == n \in state.errors
Nodes == Agents \cup Summaries \cup {"end"}

StateTyped ==
  /\ state.profile \subseteq Profiles
  /\ state.skip \in BOOLEAN
  /\ state.explanation \in {"none", "card"} \cup Summaries
  /\ state.errors \subseteq Agents
  /\ state.messages \subseteq {o.product : o \in state.opportunities}

\* Type invariant.
TypeOK ==
  /\ history \in Histories
  /\ customer \in Profiles
  /\ node \in Nodes
  /\ attempt \in 1..MaxAttempts
  /\ llm \in {"idle", "asking", "answered"}
  /\ llm # "idle" => node \in LLMAgents
  /\ try \in 0..MaxTries
  /\ trace \in Seq(Agents)
  /\ audit \subseteq Agents
  /\ calls \in Nat
  /\ faults \in 0..MaxFaults
  /\ StateTyped

\* A high-risk customer all of whose events are doubtful gets no automated
\* outreach (graph/router.py:41): such a draft can only be written when the
\* risk assessment itself failed, which lets the pipeline through.
DoubtfulHighRiskNotDrafted ==
  state.messages # {} /\ AllDoubtful(state) /\ ~Raised("risk_assessment")
    => Assessment(customer, history, TRUE).tier # "high"

\* A personal or education loan is drafted for a customer who may not have
\* it only when the risk assessment failed; neither a retry nor another
\* agent's failure opens the gate.
IneligibleLoanNotDrafted ==
  state.messages \cap GatedLoans # {} /\ ~Raised("risk_assessment")
    => Eligible(Assessment(customer, history, TRUE))

\* A run that detected an event accounts for itself: at its end there is a
\* draft, or a review was asked for, or some agent is on record as failed,
\* or the customer could be offered nothing.
EventIsAccountedFor ==
  node = "end" /\ Detected(Summary(history)) # <<>> =>
    \/ state.messages # {}
    \/ state.explanation = "manual_review_node"
    \/ state.errors # {}
    \/ Opportunities(customer, Detected(Summary(history)), state.risk) = {}

\* The nested retries of agent and router multiply, and no further: an agent
\* calls the API at most MaxAttempts * MaxTries times.
ApiCallsBounded == calls <= MaxAttempts * MaxTries

\* Every run reaches the end of the graph.
RunEnds == <>(node = "end")

==============================================================================

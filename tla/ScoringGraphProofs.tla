-------------------------- MODULE ScoringGraphProofs --------------------------
(***************************************************************************)
(* The gates of the scoring graph, the bound of its nested retries and the *)
(* reasons of a review and of a draft, for any histories, customers,       *)
(* attempts and failures.                                                  *)
(*                                                                         *)
(* GraphInv is the first invariant; nothing in its proof looks into the    *)
(* rules of LifeEvents.  HandedInv rests on it and says what the agents    *)
(* hand on; with what the rules compute, for histories of any length, it   *)
(* gives the last two theorems.                                            *)
(***************************************************************************)
EXTENDS ScoringGraph, FiniteSetTheorems, WellFoundedInduction, TLAPS

------------------------------------------------------------------------------
(* The nodes in their order, and what a state holds at each.               *)

Fields ==
  {"profile", "summary", "events", "skip", "risk", "opportunities", "products",
   "explanation", "messages", "errors"}

Early == {"customer_intel", "transaction_intel", "event_detection", "risk_assessment"}
Scored == {"product_rec", "explainability", "outreach_gen"}
Assessed == {"opportunity_scoring"} \cup Scored

\* The assessment is there and let the customer pass, or its agent failed.
Passed(s) ==
  \/ "risk_assessment" \in s.errors
  \/ LET r == Assessment(customer, history, s.summary # {})
     IN s.risk = {r} /\ ~(r.tier = "high" /\ AllDoubtful(s))

Gate(s, n) ==
  /\ s.summary \subseteq {Summary(history)} /\ s.profile \subseteq {customer}
  /\ s.events # <<>> => s.summary # {}
  /\ s.opportunities # {} => n \in Scored \cup {"end"}
  /\ \A o \in s.opportunities :
       s.events # <<>> /\ \A r \in s.risk : Eligible(r) \/ o.product \notin GatedLoans
  /\ s.messages # {} => n = "end"
  /\ s.messages \subseteq {o.product : o \in s.opportunities}
  /\ n \in Assessed \/ s.messages # {} => Passed(s)

\* Without an error every agent before n has written what it writes.
Found == Detected(Summary(history))

Told(s) ==
  \/ s.messages # {}
  \/ s.explanation = "manual_review_node"
  \/ Found = <<>>
  \/ Opportunities(customer, Found, s.risk) = {}

Story(s, n) ==
  s.errors = {} =>
    /\ n # "customer_intel" => s.profile = {customer}
    /\ n \notin {"customer_intel", "transaction_intel"} => s.summary = {Summary(history)}
    /\ n \in {"risk_assessment"} \cup Assessed => s.events = Found
    /\ n = "no_opportunity_node" => Found = <<>>
    /\ n \in Scored => s.opportunities = Opportunities(customer, Found, s.risk)
    /\ n = "end" => Told(s)

Written(s) ==
  /\ DOMAIN s = Fields
  /\ s.skip \in BOOLEAN
  /\ s.skip => s.events = <<>>
  /\ s.explanation \in {"none", "card"} \cup Summaries
  /\ s.errors \subseteq Agents

------------------------------------------------------------------------------
(* Retries.                                                                *)

Budget ==
  /\ attempt \in 1..MaxAttempts
  /\ try \in 0..MaxTries
  /\ calls \in Nat
  /\ llm \in {"idle", "asking", "answered"}
  /\ llm # "idle" => node \in LLMAgents
  /\ llm = "idle" => try = 0
  /\ llm = "asking" => try < MaxTries
  /\ calls <= (attempt - 1) * MaxTries + try

Records ==
  /\ history \in Histories
  /\ customer \in Profiles
  /\ node \in Nodes
  /\ trace \in Seq(Agents)
  /\ audit \subseteq Agents
  /\ faults \in 0..MaxFaults

GraphInv ==
  Records /\ Budget /\ Written(state) /\ Gate(state, node) /\ Story(state, node)

\* Where an agent leads.
LEMMA Edges ==
  ASSUME NEW s, NEW n \in Agents
  PROVE  /\ NextNode(n, s) \in Nodes /\ NextNode(n, s) # "customer_intel"
         /\ n = "customer_intel" => NextNode(n, s) = "transaction_intel"
         /\ n = "transaction_intel" => NextNode(n, s) = "event_detection"
         /\ n = "event_detection" =>
              \/ NextNode(n, s) = "no_opportunity_node" /\ (s.events = <<>> \/ s.skip)
              \/ NextNode(n, s) = "risk_assessment"
         /\ n = "risk_assessment" =>
              \/ NextNode(n, s) = "manual_review_node"
              \/ /\ NextNode(n, s) = "opportunity_scoring"
                 /\ ~((\E r \in s.risk : r.tier = "high") /\ AllDoubtful(s))
         /\ n = "opportunity_scoring" => NextNode(n, s) = "product_rec"
         /\ n = "product_rec" => NextNode(n, s) = "explainability"
         /\ n = "explainability" => NextNode(n, s) = "outreach_gen"
         /\ n = "outreach_gen" => NextNode(n, s) = "end"
  BY DEF NextNode, Nodes, Agents, LLMAgents, Summaries

\* The last attempt done, the calls are within the product of the bounds.
LEMMA Product ==
  ASSUME NEW a \in Nat \ {0}, NEW t \in Nat
  PROVE  (a - 1) * t \in Nat /\ (a - 1) * t + t = a * t
  <1>1. PICK b \in Nat : b = a - 1  OBVIOUS
  <1>2. b * t \in Nat /\ (b + 1) * t = b * t + t  OBVIOUS
  <1>3. b + 1 = a  BY <1>1
  <1> QED  BY <1>1, <1>2, <1>3

\* An agent that is done hands s on.
LEMMA GoOnKeeps ==
  ASSUME GraphInv, node \in Agents, NEW s, GoOn(s), UNCHANGED inputs,
         audit' \subseteq Agents, faults' \in 0..MaxFaults,
         Written(s), Gate(s, NextNode(node, s)), Story(s, NextNode(node, s))
  PROVE  GraphInv'
  <1>1. /\ state' = s /\ node' = NextNode(node, s) /\ attempt' = 1 /\ llm' = "idle"
        /\ try' = 0 /\ calls' = 0 /\ trace' = Append(trace, node)
        /\ history' = history /\ customer' = customer
    BY DEF GoOn, inputs
  <1>2. node' \in Nodes  BY <1>1, Edges
  <1>3. Records'  BY <1>1, <1>2 DEF GraphInv, Records
  <1>4. Budget'
    <2>1. MaxAttempts \in Nat \ {0} /\ MaxTries \in Nat \ {0}  BY ConstantsAssumption
    <2>2. (1 - 1) * MaxTries \in Nat  BY <2>1, Product
    <2> QED  BY <1>1, <2>1, <2>2 DEF Budget
  <1>5. Written(state)'  BY <1>1 DEF Written
  <1>6. Gate(state, node)'  BY <1>1 DEF Gate, Passed
  <1>7. Story(state, node)'  BY <1>1 DEF Story, Told, Found
  <1> QED  BY <1>3, <1>4, <1>5, <1>6, <1>7 DEF GraphInv

\* An agent that failed leaves the state as it found it, but for its name.
LEMMA RaiseKeeps ==
  ASSUME GraphInv, node \in Agents, Raise, UNCHANGED inputs, faults' \in 0..MaxFaults
  PROVE  GraphInv'
  <1> DEFINE s == [state EXCEPT !.errors = @ \cup {node}]
             n == NextNode(node, s)
  <1>1. GoOn(s) /\ audit' \subseteq Agents  BY DEF Raise, GraphInv, Records
  <1>2. Written(state) /\ Gate(state, node)  BY DEF GraphInv
  <1>3. /\ DOMAIN s = Fields /\ s.errors = state.errors \cup {node}
        /\ \A f \in Fields \ {"errors"} : s[f] = state[f]
    BY <1>2 DEF Written, Fields
  <1>4. /\ s.profile = state.profile /\ s.summary = state.summary /\ s.events = state.events
        /\ s.skip = state.skip /\ s.risk = state.risk
        /\ s.opportunities = state.opportunities /\ s.explanation = state.explanation
        /\ s.messages = state.messages
    BY <1>3 DEF Fields
  <1> HIDE DEF s
  <1>5. Written(s)  BY <1>2, <1>3, <1>4 DEF Written
  <1>6. state.messages = {} /\ node # "end"
    BY <1>2 DEF Gate, Agents, LLMAgents
  <1>7. Story(s, n)  BY <1>3 DEF Story
  <1>8. n \in Assessed => Passed(s)
    <2>1. CASE node = "risk_assessment"  BY <1>3, <2>1 DEF Passed
    <2>2. CASE node \in Assessed
      <3>1. Passed(state)  BY <1>2, <2>2 DEF Gate
      <3>2. AllDoubtful(s) <=> AllDoubtful(state)  BY <1>4 DEF AllDoubtful
      <3> QED  BY <1>3, <1>4, <3>1, <3>2 DEF Passed
    <2>3. CASE node \notin {"risk_assessment"} \cup Assessed
      BY <2>3, Edges DEF Agents, LLMAgents, Assessed, Scored
    <2> QED  BY <2>1, <2>2, <2>3
  <1>9. state.opportunities # {} => n \in Scored \cup {"end"}
    BY <1>2, <1>6, Edges DEF Gate, Scored, Agents, LLMAgents
  <1>10. Gate(s, n)
    BY <1>2, <1>4, <1>6, <1>8, <1>9 DEF Gate
  <1> QED  BY <1>1, <1>5, <1>7, <1>10, GoOnKeeps

\* A step that only counts.
LEMMA CountKeeps ==
  ASSUME GraphInv, UNCHANGED <<inputs, node, state, trace, audit>>,
         faults' \in 0..MaxFaults, Budget'
  PROVE  GraphInv'
  <1>1. Records'  BY DEF GraphInv, Records, inputs
  <1>2. Written(state)' /\ Gate(state, node)' /\ Story(state, node)'
    BY DEF GraphInv, Written, Gate, Passed, Story, Told, Found, inputs
  <1> QED  BY <1>1, <1>2 DEF GraphInv

LEMMA RetryKeeps ==
  ASSUME GraphInv, node \in Agents, NEW made \in Nat, RetryAgent(made),
         made <= (attempt - 1) * MaxTries + MaxTries,
         UNCHANGED inputs, faults' \in 0..MaxFaults
  PROVE  GraphInv'
  <1>1. CASE attempt < MaxAttempts
    <2>1. /\ attempt' = attempt + 1 /\ llm' = "idle" /\ try' = 0 /\ calls' = made
          /\ UNCHANGED <<node, state, trace, audit>>
      BY <1>1 DEF RetryAgent
    <2>2. /\ attempt \in Nat \ {0} /\ MaxAttempts \in Nat /\ MaxTries \in Nat \ {0}
      BY ConstantsAssumption DEF GraphInv, Budget
    <2>3. attempt * MaxTries \in Nat /\ made <= attempt * MaxTries
      BY <2>2, Product
    <2>4. (attempt' - 1) * MaxTries = attempt * MaxTries
      <3>1. attempt' - 1 = attempt  BY <2>1, <2>2
      <3> QED  BY <3>1
    <2>5. Budget'
      <3>1. calls' <= (attempt' - 1) * MaxTries + try'  BY <2>1, <2>3, <2>4
      <3>2. attempt' \in 1..MaxAttempts  BY <1>1, <2>1, <2>2
      <3> QED  BY <2>1, <2>2, <3>1, <3>2 DEF Budget
    <2> QED  BY <2>1, <2>5, CountKeeps
  <1>2. CASE ~(attempt < MaxAttempts)
    <2>1. Raise  BY <1>2 DEF RetryAgent
    <2> QED  BY <2>1, RaiseKeeps
  <1> QED  BY <1>1, <1>2

\* Failures of an agent.
LEMMA FailureKeeps ==
  ASSUME GraphInv, TimeOut \/ Break
  PROVE  GraphInv'
  <1>1. node \in Agents /\ UNCHANGED inputs /\ faults' \in 0..MaxFaults
    BY ConstantsAssumption DEF TimeOut, Break, Fault, GraphInv, Records
  <1>2. CASE TimeOut
    <2>1. /\ MaxTries \in Nat \ {0} /\ attempt \in Nat \ {0} /\ calls \in Nat /\ try \in 0..MaxTries
          /\ calls <= (attempt - 1) * MaxTries + try
      BY ConstantsAssumption DEF GraphInv, Budget
    <2>2. (attempt - 1) * MaxTries \in Nat  BY <2>1, Product
    <2>3. calls <= (attempt - 1) * MaxTries + MaxTries  BY <2>1, <2>2
    <2>4. RetryAgent(calls)  BY <1>2 DEF TimeOut
    <2> QED  BY <1>1, <2>1, <2>3, <2>4, RetryKeeps
  <1>3. CASE Break  BY <1>1, <1>3, RaiseKeeps DEF Break
  <1> QED  BY <1>2, <1>3

\* The call of the LLM.
LEMMA LLMKeeps ==
  ASSUME GraphInv, Ask \/ Answer \/ ApiFails \/ ApiRefuses \/ ExplainMalformed
  PROVE  GraphInv'
  <1>1. /\ MaxTries \in Nat \ {0} /\ attempt \in Nat \ {0} /\ calls \in Nat /\ try \in 0..MaxTries
        /\ attempt \in 1..MaxAttempts /\ calls <= (attempt - 1) * MaxTries + try
        /\ faults \in 0..MaxFaults /\ MaxFaults \in Nat
    BY ConstantsAssumption DEF GraphInv, Budget, Records
  <1>2. (attempt - 1) * MaxTries \in Nat  BY <1>1, Product
  <1>3. CASE Ask
    <2>1. llm = "idle" /\ llm' = "asking" /\ node \in LLMAgents /\ UNCHANGED <<node, attempt, try, calls>>
      BY <1>3 DEF Ask, books
    <2>2. Budget'  BY <1>1, <2>1 DEF GraphInv, Budget
    <2> QED  BY <1>1, <1>3, <2>2, CountKeeps DEF Ask, books
  <1>4. ASSUME llm = "asking"
        PROVE  /\ try < MaxTries /\ node \in LLMAgents /\ node \in Agents
               /\ calls + 1 \in Nat /\ calls + 1 <= (attempt - 1) * MaxTries + (try + 1)
               /\ calls + 1 <= (attempt - 1) * MaxTries + MaxTries
    BY <1>1, <1>2, <1>4 DEF GraphInv, Budget, Agents
  <1>5. CASE Answer
    <2>1. /\ llm = "asking" /\ llm' = "answered" /\ calls' = calls + 1 /\ try' = try + 1
          /\ UNCHANGED <<node, attempt>>
      BY <1>5 DEF Answer
    <2>2. Budget'  BY <1>1, <1>4, <2>1 DEF Budget
    <2> QED  BY <1>1, <1>5, <2>2, CountKeeps DEF Answer
  <1>6. CASE ApiFails
    <2>1. llm = "asking" /\ UNCHANGED inputs /\ faults' \in 0..MaxFaults
      BY <1>1, <1>6 DEF ApiFails, Fault
    <2>2. CASE try + 1 < MaxTries
      <3>1. /\ try' = try + 1 /\ calls' = calls + 1 /\ llm' = llm /\ attempt' = attempt
            /\ UNCHANGED <<node, state, trace, audit>>
        BY <1>6, <2>2 DEF ApiFails
      <3>2. Budget'  BY <1>1, <1>4, <2>1, <2>2, <3>1 DEF Budget
      <3> QED  BY <2>1, <3>1, <3>2, CountKeeps
    <2>3. CASE ~(try + 1 < MaxTries)
      <3>1. RetryAgent(calls + 1)  BY <1>6, <2>3 DEF ApiFails
      <3> QED  BY <1>4, <2>1, <3>1, RetryKeeps
    <2> QED  BY <2>2, <2>3
  <1>7. CASE ApiRefuses
    <2>1. llm = "asking" /\ UNCHANGED inputs /\ faults' \in 0..MaxFaults
      BY <1>1, <1>7 DEF ApiRefuses, Fault
    <2>2. CASE RetryAgent(calls + 1)  BY <1>4, <2>1, <2>2, RetryKeeps
    <2>3. CASE Raise  BY <1>4, <2>1, <2>3, RaiseKeeps
    <2> QED  BY <1>7, <2>2, <2>3 DEF ApiRefuses
  <1>8. CASE ExplainMalformed
    <2>1. node \in Agents /\ Raise /\ UNCHANGED inputs /\ faults' \in 0..MaxFaults
      BY <1>1, <1>8 DEF ExplainMalformed, Fault, Agents, LLMAgents
    <2> QED  BY <2>1, RaiseKeeps
  <1> QED  BY <1>3, <1>5, <1>6, <1>7, <1>8

------------------------------------------------------------------------------
(* The agents.                                                             *)

\* What is left of GoOnKeeps for an agent that returns s.
LEMMA ReturnKeeps ==
  ASSUME GraphInv, node \in Agents, NEW s, Return(s), UNCHANGED inputs,
         Written(s), Gate(s, NextNode(node, s)), Story(s, NextNode(node, s))
  PROVE  GraphInv'
  <1>1. GoOn(s) /\ audit' \subseteq Agents /\ faults' \in 0..MaxFaults
    BY ConstantsAssumption DEF Return, Audited, Fault, GraphInv, Records
  <1> QED  BY <1>1, GoOnKeeps

LEMMA IntelKeeps ==
  ASSUME GraphInv, CustomerIntel \/ TransactionIntel
  PROVE  GraphInv'
  <1>1. Written(state) /\ Gate(state, node) /\ Story(state, node)  BY DEF GraphInv
  <1>2. CASE CustomerIntel
    <2> DEFINE s == [state EXCEPT !.profile = {customer}]
               n == NextNode(node, s)
    <2>1. node = "customer_intel" /\ node \in Agents /\ Return(s) /\ UNCHANGED inputs
      BY <1>2 DEF CustomerIntel, Compute, Agents
    <2>2. /\ DOMAIN s = Fields /\ s.profile = {customer} /\ s.summary = state.summary
          /\ s.events = state.events /\ s.skip = state.skip /\ s.risk = state.risk
          /\ s.opportunities = state.opportunities /\ s.explanation = state.explanation
          /\ s.messages = state.messages /\ s.errors = state.errors
      BY <1>1 DEF Written, Fields
    <2> HIDE DEF s
    <2>3. n = "transaction_intel"  BY <2>1, Edges
    <2>4. Written(s)  BY <1>1, <2>2 DEF Written
    <2>5. Gate(s, n)  BY <1>1, <2>1, <2>2, <2>3 DEF Gate, Scored, Assessed
    <2>6. Story(s, n)  BY <2>2, <2>3 DEF Story, Assessed, Scored
    <2> QED  BY <2>1, <2>4, <2>5, <2>6, ReturnKeeps
  <1>3. CASE TransactionIntel
    <2> DEFINE s == [state EXCEPT !.summary = {Summary(history)}]
               n == NextNode(node, s)
    <2>1. node = "transaction_intel" /\ node \in Agents /\ Return(s) /\ UNCHANGED inputs
      BY <1>3 DEF TransactionIntel, Compute, Agents
    <2>2. /\ DOMAIN s = Fields /\ s.profile = state.profile /\ s.summary = {Summary(history)}
          /\ s.events = state.events /\ s.skip = state.skip /\ s.risk = state.risk
          /\ s.opportunities = state.opportunities /\ s.explanation = state.explanation
          /\ s.messages = state.messages /\ s.errors = state.errors
      BY <1>1 DEF Written, Fields
    <2> HIDE DEF s
    <2>3. n = "event_detection"  BY <2>1, Edges
    <2>4. Written(s)  BY <1>1, <2>2 DEF Written
    <2>5. Gate(s, n)  BY <1>1, <2>1, <2>2, <2>3 DEF Gate, Scored, Assessed
    <2>6. Story(s, n)  BY <1>1, <2>1, <2>2, <2>3 DEF Story, Assessed, Scored
    <2> QED  BY <2>1, <2>4, <2>5, <2>6, ReturnKeeps
  <1> QED  BY <1>2, <1>3

\* Without an event the route leaves the pipeline.
LEMMA EventDetectionKeeps ==
  ASSUME GraphInv, EventDetection
  PROVE  GraphInv'
  <1> DEFINE found == IF state.summary = {} THEN <<>>
                      ELSE Detected(CHOOSE x \in state.summary : TRUE)
             s == [state EXCEPT !.events = found, !.skip = (found = <<>>)]
             n == NextNode(node, s)
  <1>1. Written(state) /\ Gate(state, node) /\ Story(state, node)  BY DEF GraphInv
  <1>2. node = "event_detection" /\ node \in Agents /\ Return(s) /\ UNCHANGED inputs
    BY DEF EventDetection, Compute, Agents
  <1>3. state.summary = {} => found = <<>>
    OBVIOUS
  <1>4. state.summary = {Summary(history)} => found = Found
    BY DEF Found
  <1> HIDE DEF found
  <1>5. /\ DOMAIN s = Fields /\ s.profile = state.profile /\ s.summary = state.summary
        /\ s.events = found /\ s.skip = (found = <<>>) /\ s.risk = state.risk
        /\ s.opportunities = state.opportunities /\ s.explanation = state.explanation
        /\ s.messages = state.messages /\ s.errors = state.errors
    BY <1>1 DEF Written, Fields
  <1> HIDE DEF s
  <1>6. \/ n = "no_opportunity_node" /\ found = <<>>
        \/ n = "risk_assessment"
    BY <1>2, <1>5, Edges
  <1>7. Written(s)  BY <1>1, <1>5 DEF Written
  <1>8. Gate(s, n)  BY <1>1, <1>2, <1>3, <1>5, <1>6 DEF Gate, Scored, Assessed
  <1>9. Story(s, n)  BY <1>1, <1>2, <1>4, <1>5, <1>6 DEF Story, Scored, Assessed
  <1> QED  BY <1>2, <1>7, <1>8, <1>9, ReturnKeeps

\* The assessment is made for a customer with a summary, or it is the
\* agent's failure that lets the customer pass.
LEMMA RiskAssessmentKeeps ==
  ASSUME GraphInv, RiskAssessment
  PROVE  GraphInv'
  <1>1. Written(state) /\ Gate(state, node) /\ Story(state, node)  BY DEF GraphInv
  <1>2. CASE node = "risk_assessment" /\ Raise /\ UNCHANGED <<inputs, faults>>
    <2>1. node \in Agents /\ UNCHANGED inputs /\ faults' \in 0..MaxFaults
      BY <1>2 DEF Agents, GraphInv, Records
    <2> QED  BY <1>2, <2>1, RaiseKeeps
  <1>3. CASE state.profile # {} /\ Compute("risk_assessment",
               [state EXCEPT !.risk = {Assessment(p, history, state.summary # {}) : p \in state.profile}])
    <2> DEFINE risk == {Assessment(p, history, state.summary # {}) : p \in state.profile}
               r == Assessment(customer, history, state.summary # {})
               s == [state EXCEPT !.risk = risk]
               n == NextNode(node, s)
    <2>1. node = "risk_assessment" /\ node \in Agents /\ Return(s) /\ UNCHANGED inputs
      BY <1>3 DEF Compute, Agents
    <2>2. state.profile = {customer}  BY <1>1, <1>3 DEF Gate
    <2>3. risk = {r}  BY <2>2
    <2> HIDE DEF risk, r
    <2>4. /\ DOMAIN s = Fields /\ s.profile = state.profile /\ s.summary = state.summary
          /\ s.events = state.events /\ s.skip = state.skip /\ s.risk = risk
          /\ s.opportunities = state.opportunities /\ s.explanation = state.explanation
          /\ s.messages = state.messages /\ s.errors = state.errors
      BY <1>1 DEF Written, Fields
    <2> HIDE DEF s
    <2>5. \/ n = "manual_review_node"
          \/ n = "opportunity_scoring" /\ ~(r.tier = "high" /\ AllDoubtful(s))
      BY <2>1, <2>3, <2>4, Edges
    <2>6. Written(s)  BY <1>1, <2>4 DEF Written
    <2>7. n = "opportunity_scoring" => Passed(s)
      BY <2>3, <2>4, <2>5 DEF Passed, r
    <2>8. state.opportunities = {} /\ state.messages = {}
      BY <1>1, <2>1 DEF Gate, Scored
    <2>9. Gate(s, n)  BY <1>1, <2>4, <2>5, <2>7, <2>8 DEF Gate, Assessed, Scored
    <2>10. Story(s, n)  BY <1>1, <2>1, <2>4, <2>5 DEF Story, Scored, Assessed
    <2> QED  BY <2>1, <2>6, <2>9, <2>10, ReturnKeeps
  <1> QED  BY <1>2, <1>3 DEF RiskAssessment

\* What Opportunities withholds, the one fact about it that is needed.
LEMMA GateHolds ==
  ASSUME NEW p, NEW events, NEW risk, NEW o \in Opportunities(p, events, risk)
  PROVE  events # <<>> /\ \A r \in risk : Eligible(r) \/ o.product \notin GatedLoans
  <1>1. \A r \in risk : Eligible(r) \/ o.product \notin GatedLoans
    BY DEF Opportunities
  <1>2. \E i \in DOMAIN events : TRUE
    BY DEF Opportunities
  <1>3. events # <<>>  BY <1>2
  <1> QED  BY <1>1, <1>3

LEMMA OpportunityScoringKeeps ==
  ASSUME GraphInv, OpportunityScoring
  PROVE  GraphInv'
  <1> DEFINE opps == UNION {Opportunities(p, state.events, state.risk) : p \in state.profile}
             s == [state EXCEPT !.opportunities = opps]
             n == NextNode(node, s)
  <1>1. Written(state) /\ Gate(state, node) /\ Story(state, node)  BY DEF GraphInv
  <1>2. node = "opportunity_scoring" /\ node \in Agents /\ Return(s) /\ UNCHANGED inputs
    BY DEF OpportunityScoring, Compute, Agents
  <1>3. \A o \in opps : /\ state.events # <<>>
                       /\ \A r \in state.risk : Eligible(r) \/ o.product \notin GatedLoans
    BY GateHolds
  <1>4. state.profile = {customer} => opps = Opportunities(customer, state.events, state.risk)
    OBVIOUS
  <1> HIDE DEF opps
  <1>5. /\ DOMAIN s = Fields /\ s.profile = state.profile /\ s.summary = state.summary
        /\ s.events = state.events /\ s.skip = state.skip /\ s.risk = state.risk
        /\ s.opportunities = opps /\ s.explanation = state.explanation
        /\ s.messages = state.messages /\ s.errors = state.errors
    BY <1>1 DEF Written, Fields
  <1> HIDE DEF s
  <1>6. n = "product_rec"  BY <1>2, Edges
  <1>7. Written(s)  BY <1>1, <1>5 DEF Written
  <1>8. state.messages = {}  BY <1>1, <1>2 DEF Gate
  <1>9. Passed(s)
    <2>1. Passed(state)  BY <1>1, <1>2 DEF Gate, Assessed
    <2>2. AllDoubtful(s) <=> AllDoubtful(state)  BY <1>5 DEF AllDoubtful
    <2> QED  BY <1>5, <2>1, <2>2 DEF Passed
  <1>10. Gate(s, n)  BY <1>1, <1>3, <1>5, <1>6, <1>8, <1>9 DEF Gate, Scored
  <1>11. Story(s, n)
    BY <1>1, <1>2, <1>4, <1>5, <1>6 DEF Story, Scored, Assessed
  <1> QED  BY <1>2, <1>7, <1>10, <1>11, ReturnKeeps

\* An agent behind the gate that only adds what the gate does not look at.
LEMMA PassOn ==
  ASSUME GraphInv, node \in {"product_rec", "explainability"}, NEW s, Return(s), UNCHANGED inputs,
         DOMAIN s = Fields, s.profile = state.profile, s.summary = state.summary,
         s.events = state.events, s.skip = state.skip, s.risk = state.risk,
         s.opportunities = state.opportunities, s.messages = state.messages,
         s.errors = state.errors, s.explanation \in {state.explanation, "card"}
  PROVE  GraphInv'
  <1> DEFINE n == NextNode(node, s)
  <1>1. Written(state) /\ Gate(state, node) /\ Story(state, node)  BY DEF GraphInv
  <1>2. node \in Agents  BY DEF Agents, LLMAgents
  <1>3. n \in Scored  BY <1>2, Edges DEF Scored
  <1>4. Written(s)  BY <1>1 DEF Written
  <1>5. Passed(s)
    <2>1. Passed(state)  BY <1>1 DEF Gate, Assessed, Scored
    <2>2. AllDoubtful(s) <=> AllDoubtful(state)  BY DEF AllDoubtful
    <2> QED  BY <2>1, <2>2 DEF Passed
  <1>6. state.messages = {}  BY <1>1 DEF Gate
  <1>7. Gate(s, n)  BY <1>1, <1>3, <1>5, <1>6 DEF Gate
  <1>8. Story(s, n)  BY <1>1, <1>3 DEF Story, Scored, Assessed
  <1> QED  BY <1>2, <1>4, <1>7, <1>8, ReturnKeeps

LEMMA ProductRecKeeps ==
  ASSUME GraphInv, ProductRec
  PROVE  GraphInv'
  <1> DEFINE products == UNION {Recommended(p, state.events) : p \in state.profile}
             s == [state EXCEPT !.products = products]
  <1>1. node = "product_rec" /\ Return(s) /\ UNCHANGED inputs
    BY DEF ProductRec, Compute
  <1>2. DOMAIN state = Fields  BY DEF GraphInv, Written
  <1> HIDE DEF products
  <1>3. /\ DOMAIN s = Fields /\ s.profile = state.profile /\ s.summary = state.summary
        /\ s.events = state.events /\ s.skip = state.skip /\ s.risk = state.risk
        /\ s.opportunities = state.opportunities /\ s.explanation = state.explanation
        /\ s.messages = state.messages /\ s.errors = state.errors
    BY <1>2 DEF Fields
  <1> HIDE DEF s
  <1> QED  BY <1>1, <1>3, PassOn

LEMMA ExplainKeeps ==
  ASSUME GraphInv, Explain
  PROVE  GraphInv'
  <1> DEFINE s == [state EXCEPT !.explanation = "card"]
  <1>1. node = "explainability" /\ Return(s) /\ UNCHANGED inputs
    BY DEF Explain
  <1>2. DOMAIN state = Fields  BY DEF GraphInv, Written
  <1>3. /\ DOMAIN s = Fields /\ s.profile = state.profile /\ s.summary = state.summary
        /\ s.events = state.events /\ s.skip = state.skip /\ s.risk = state.risk
        /\ s.opportunities = state.opportunities /\ s.explanation = "card"
        /\ s.messages = state.messages /\ s.errors = state.errors
    BY <1>2 DEF Fields
  <1> HIDE DEF s
  <1> QED  BY <1>1, <1>3, PassOn

\* With nothing to write there was nothing to offer, or an agent failed.
LEMMA NothingKeeps ==
  ASSUME GraphInv, NothingToWrite
  PROVE  GraphInv'
  <1>1. Written(state) /\ Gate(state, node) /\ Story(state, node)  BY DEF GraphInv
  <1>2. /\ node \in LLMAgents /\ Return(state) /\ UNCHANGED inputs
        /\ state.profile = {} \/ state.opportunities = {}
    BY DEF NothingToWrite, HasWork
  <1>3. CASE node = "explainability"
    BY <1>1, <1>2, <1>3, PassOn DEF Written
  <1>4. CASE node = "outreach_gen"
    <2>1. node \in Agents  BY <1>2 DEF Agents
    <2>2. NextNode(node, state) = "end"  BY <1>4, <2>1, Edges
    <2>3. state.messages = {}  BY <1>1, <1>4 DEF Gate
    <2>4. Gate(state, "end")  BY <1>1, <2>3 DEF Gate, Assessed, Scored
    <2>5. Story(state, "end")
      BY <1>1, <1>2, <1>4 DEF Story, Told, Assessed, Scored
    <2> QED  BY <1>1, <1>2, <2>1, <2>2, <2>4, <2>5, ReturnKeeps
  <1> QED  BY <1>2, <1>3, <1>4 DEF LLMAgents

\* A draft is made of an opportunity that passed the gate.
LEMMA DraftKeeps ==
  ASSUME GraphInv, Draft
  PROVE  GraphInv'
  <1>1. Written(state) /\ Gate(state, node) /\ Story(state, node)  BY DEF GraphInv
  <1>2. PICK o \in state.opportunities :
          Return([state EXCEPT !.messages = {o.product}])
    BY DEF Draft
  <1>3. o \in state.opportunities  OBVIOUS
  <1> DEFINE s == [state EXCEPT !.messages = {o.product}]
             n == NextNode(node, s)
  <1>4. node = "outreach_gen" /\ node \in Agents /\ Return(s) /\ UNCHANGED inputs
    BY <1>2 DEF Draft, Agents, LLMAgents
  <1>5. /\ DOMAIN s = Fields /\ s.profile = state.profile /\ s.summary = state.summary
        /\ s.events = state.events /\ s.skip = state.skip /\ s.risk = state.risk
        /\ s.opportunities = state.opportunities /\ s.explanation = state.explanation
        /\ s.messages = {o.product} /\ s.errors = state.errors
    BY <1>1 DEF Written, Fields
  <1> HIDE DEF s
  <1>6. n = "end"  BY <1>4, Edges
  <1>7. Written(s)  BY <1>1, <1>5 DEF Written
  <1>8. Passed(s)
    <2>1. Passed(state)  BY <1>1, <1>4 DEF Gate, Assessed, Scored
    <2>2. AllDoubtful(s) <=> AllDoubtful(state)  BY <1>5 DEF AllDoubtful
    <2> QED  BY <1>5, <2>1, <2>2 DEF Passed
  <1>9. Gate(s, n)  BY <1>1, <1>3, <1>5, <1>6, <1>8 DEF Gate
  <1>10. Story(s, n)
    <2>1. o.product \in s.messages  BY <1>5
    <2>2. Told(s)  BY <2>1 DEF Told
    <2> QED  BY <1>1, <1>4, <1>5, <1>6, <2>2 DEF Story, Assessed, Scored
  <1> QED  BY <1>4, <1>7, <1>9, <1>10, ReturnKeeps

\* The two nodes that end a run without a draft.
LEMMA SummariseKeeps ==
  ASSUME GraphInv, Summarise
  PROVE  GraphInv'
  <1>1. Written(state) /\ Gate(state, node) /\ Story(state, node)  BY DEF GraphInv
  <1>2. /\ node \in Summaries /\ state' = [state EXCEPT !.explanation = node] /\ node' = "end"
        /\ UNCHANGED <<history, customer, attempt, llm, try, trace, audit, calls, faults>>
    BY DEF Summarise, inputs, books
  <1>3. /\ DOMAIN state' = Fields /\ state'.profile = state.profile
        /\ state'.summary = state.summary
        /\ state'.events = state.events /\ state'.skip = state.skip /\ state'.risk = state.risk
        /\ state'.opportunities = state.opportunities /\ state'.explanation = node
        /\ state'.messages = state.messages /\ state'.errors = state.errors
    BY <1>1, <1>2 DEF Written, Fields
  <1>4. /\ node \notin LLMAgents /\ node # "end" /\ node \notin Assessed /\ node \notin Scored
        /\ node \in {"no_opportunity_node", "manual_review_node"}
    BY <1>2 DEF Summaries, LLMAgents, Assessed, Scored
  <1>5. Records'  BY <1>2 DEF GraphInv, Records, Nodes
  <1>6. Budget'
    <2>1. llm = "idle"  BY <1>4 DEF GraphInv, Budget
    <2> QED  BY <1>2, <2>1 DEF GraphInv, Budget
  <1>7. Written(state)'  BY <1>1, <1>2, <1>3 DEF Written
  <1>8. state.messages = {} /\ state.opportunities = {}  BY <1>1, <1>4 DEF Gate
  <1>9. Gate(state, node)'
    BY <1>1, <1>2, <1>3, <1>8 DEF Gate, Assessed, Scored
  <1>10. Story(state, node)'
    BY <1>1, <1>2, <1>3, <1>4 DEF Story, Told, Found, Assessed, Scored
  <1> QED  BY <1>5, <1>6, <1>7, <1>9, <1>10 DEF GraphInv

------------------------------------------------------------------------------
LEMMA GraphInit == Init => GraphInv
  <1> SUFFICES ASSUME Init  PROVE GraphInv
    OBVIOUS
  <1>1. /\ state = EmptyState /\ DOMAIN state = Fields
        /\ state.profile = {} /\ state.summary = {} /\ state.events = <<>> /\ state.skip = FALSE
        /\ state.risk = {} /\ state.opportunities = {} /\ state.explanation = "none"
        /\ state.messages = {} /\ state.errors = {}
    BY DEF Init, EmptyState, Fields
  <1>2. node = "customer_intel" /\ <<>> \in Seq(Agents)  BY DEF Init
  <1>3. Records
    BY <1>2, ConstantsAssumption DEF Init, Records, Nodes, Agents
  <1>4. Budget
    <2>1. MaxAttempts \in Nat \ {0} /\ MaxTries \in Nat \ {0}  BY ConstantsAssumption
    <2>2. (1 - 1) * MaxTries \in Nat  BY <2>1, Product
    <2> QED  BY <2>1, <2>2 DEF Init, Budget
  <1>5. Written(state)  BY <1>1 DEF Written
  <1>6. Gate(state, node)  BY <1>1, <1>2 DEF Gate, Assessed, Scored
  <1>7. Story(state, node)  BY <1>1, <1>2 DEF Story, Assessed, Scored
  <1> QED  BY <1>3, <1>4, <1>5, <1>6, <1>7 DEF GraphInv

LEMMA GraphNext == GraphInv /\ [Next]_vars => GraphInv'
  <1> SUFFICES ASSUME GraphInv, [Next]_vars  PROVE GraphInv'
    OBVIOUS
  <1>1. CASE CustomerIntel \/ TransactionIntel  BY <1>1, IntelKeeps
  <1>2. CASE EventDetection  BY <1>2, EventDetectionKeeps
  <1>3. CASE RiskAssessment  BY <1>3, RiskAssessmentKeeps
  <1>4. CASE OpportunityScoring  BY <1>4, OpportunityScoringKeeps
  <1>5. CASE ProductRec  BY <1>5, ProductRecKeeps
  <1>6. CASE NothingToWrite  BY <1>6, NothingKeeps
  <1>7. CASE Explain  BY <1>7, ExplainKeeps
  <1>8. CASE Draft  BY <1>8, DraftKeeps
  <1>9. CASE Summarise  BY <1>9, SummariseKeeps
  <1>10. CASE Ask \/ Answer \/ ApiFails \/ ApiRefuses \/ ExplainMalformed
    BY <1>10, LLMKeeps
  <1>11. CASE TimeOut \/ Break  BY <1>11, FailureKeeps
  <1>12. CASE UNCHANGED vars
    BY <1>12 DEF GraphInv, vars, Records, Budget, Written, Gate, Passed, Story, Told, Found
  <1> QED
    BY <1>1, <1>2, <1>3, <1>4, <1>5, <1>6, <1>7, <1>8, <1>9, <1>10, <1>11, <1>12
    DEF Next, Step, Failure

LEMMA GraphHolds == Spec => []GraphInv
  BY GraphInit, GraphNext, PTL DEF Spec

------------------------------------------------------------------------------
(* Recursion on finite sets: the sums and the folds of LifeEvents.         *)

Below == {ss \in Nat \X Nat : ss[1] < ss[2]}

\* A set of numbers has a least one.
LEMMA LeastOf ==
  ASSUME NEW T, T \subseteq Nat, T # {}
  PROVE  \E m \in T : \A k \in T : m <= k
  <1>1. IsWellFoundedOn(Below, Nat)  BY NatLessThanWellFounded DEF OpToRel, Below
  <1>2. \A x, y \in Nat : x < y => <<x, y>> \in Below  BY DEF Below
  <1>3. PICK x \in T : \A y \in T : ~ (<<y, x>> \in Below)  BY <1>1, WFMin, Zenon
  <1>4. \A y \in T : ~ (y < x)  BY <1>2, <1>3
  <1> QED  BY <1>4

\* One element less, and one less to count.
LEMMA OneLess ==
  ASSUME NEW S, IsFiniteSet(S), NEW s \in SUBSET S, NEW x \in s
  PROVE  /\ Cardinality(s) \in Nat /\ Cardinality(s \ {x}) \in Nat
         /\ Cardinality(s \ {x}) = Cardinality(s) - 1 /\ Cardinality(s) # 0
  <1>1. IsFiniteSet(s)  BY FS_Subset
  <1>2. IsFiniteSet(s \ {x}) /\ Cardinality(s \ {x}) = Cardinality(s) - 1  BY <1>1, FS_RemoveElement
  <1>3. Cardinality(s) \in Nat /\ Cardinality(s \ {x}) \in Nat  BY <1>1, <1>2, FS_CardinalityType
  <1> QED  BY <1>2, <1>3

\* What holds of a set if it holds of it with any one element less, and holds
\* of the empty set, holds of every finite set.
LEMMA SubsetInduct ==
  ASSUME NEW S, IsFiniteSet(S), NEW Z, {} \in Z,
         \A s \in SUBSET S : s # {} /\ (\A x \in s : s \ {x} \in Z) => s \in Z
  PROVE  \A s \in SUBSET S : s \in Z
  <1> SUFFICES ASSUME NEW b \in SUBSET S, b \notin Z  PROVE FALSE
    OBVIOUS
  <1> DEFINE Bad == {s \in SUBSET S : s \notin Z}
             T == {Cardinality(s) : s \in Bad}
  <1>1. \A s \in SUBSET S : Cardinality(s) \in Nat  BY FS_Subset, FS_CardinalityType
  <1>2. T \subseteq Nat /\ T # {}  BY <1>1
  <1>3. PICK m \in T : \A k \in T : m <= k
    <2> HIDE DEF T
    <2> QED  BY <1>2, LeastOf
  <1>4. PICK s \in Bad : m = Cardinality(s)  OBVIOUS
  <1>5. ASSUME NEW x \in s  PROVE s \ {x} \in Z
    <2>1. /\ Cardinality(s) \in Nat /\ Cardinality(s \ {x}) \in Nat
          /\ Cardinality(s \ {x}) = Cardinality(s) - 1
      BY OneLess
    <2>2. s \ {x} \in Bad => m <= Cardinality(s \ {x})  BY <1>3
    <2>3. s \ {x} \notin Bad  BY <1>4, <2>1, <2>2
    <2> QED  BY <2>3
  <1> QED  BY <1>4, <1>5

\* f is defined on the sets of D from its values on sets with one element less.
IsRecursion(f, D, c, G, base) ==
  \A s \in D : f[s] = IF s = {} THEN base ELSE G[<<s, f[s \ {c[s]}]>>]

UpTo(S, n) == {s \in SUBSET S : Cardinality(s) <= n}

LEMMA RecursionExists ==
  ASSUME NEW S, IsFiniteSet(S), NEW A, NEW base \in A, NEW c, NEW G \in [(SUBSET S) \X A -> A],
         \A s \in SUBSET S : s # {} => c[s] \in s
  PROVE  \E f \in [SUBSET S -> A] : IsRecursion(f, SUBSET S, c, G, base)
  <1> DEFINE Has(n) == \E f \in [UpTo(S, n) -> A] : IsRecursion(f, UpTo(S, n), c, G, base)
             Z == {n \in Nat : Has(n)}
             Bad == Nat \ Z
  <1>0. \A s \in SUBSET S : Cardinality(s) \in Nat /\ (Cardinality(s) = 0 <=> s = {})
    <2> SUFFICES ASSUME NEW s \in SUBSET S
                 PROVE  Cardinality(s) \in Nat /\ (Cardinality(s) = 0 <=> s = {})
      OBVIOUS
    <2>1. IsFiniteSet(s)  BY FS_Subset
    <2> QED  BY <2>1, FS_CardinalityType, FS_EmptySet
  <1>1. 0 \in Z
    <2>1. UpTo(S, 0) = {{}}  BY <1>0 DEF UpTo
    <2>2. PICK f : f = [s \in {{}} |-> base]  OBVIOUS
    <2>3. f \in [{{}} -> A] /\ IsRecursion(f, {{}}, c, G, base)  BY <2>2 DEF IsRecursion
    <2> QED  BY <2>1, <2>3
  <1>2. ASSUME NEW n \in Nat, n \in Z  PROVE n + 1 \in Z
    <2>1. PICK f \in [UpTo(S, n) -> A] : IsRecursion(f, UpTo(S, n), c, G, base)  BY <1>2
    <2> DEFINE g == [s \in UpTo(S, n + 1) |->
                       IF s = {} THEN base ELSE G[<<s, f[s \ {c[s]}]>>]]
    <2>2. ASSUME NEW s \in UpTo(S, n + 1), s # {}
          PROVE  s \ {c[s]} \in UpTo(S, n)
      <3>1. c[s] \in s /\ s \in SUBSET S  BY <2>2 DEF UpTo
      <3>2. /\ Cardinality(s) \in Nat /\ Cardinality(s \ {c[s]}) \in Nat
            /\ Cardinality(s \ {c[s]}) = Cardinality(s) - 1
        BY <3>1, OneLess
      <3>3. Cardinality(s) <= n + 1  BY DEF UpTo
      <3>4. Cardinality(s \ {c[s]}) <= n  BY <3>2, <3>3
      <3> QED  BY <3>1, <3>4 DEF UpTo
    <2>3. \A s \in UpTo(S, n + 1) : s # {} => G[<<s, f[s \ {c[s]}]>>] \in A
      <3> SUFFICES ASSUME NEW s \in UpTo(S, n + 1), s # {}  PROVE G[<<s, f[s \ {c[s]}]>>] \in A
        OBVIOUS
      <3>1. f[s \ {c[s]}] \in A /\ s \in SUBSET S  BY <2>1, <2>2 DEF UpTo
      <3> QED  BY <3>1
    <2>4. g \in [UpTo(S, n + 1) -> A]  BY <2>3
    <2>5. \A s \in UpTo(S, n) : s \in UpTo(S, n + 1) /\ g[s] = f[s]
      <3>1. \A s \in UpTo(S, n) : s \in UpTo(S, n + 1)  BY <1>0 DEF UpTo
      <3> QED  BY <2>1, <3>1 DEF IsRecursion
    <2>6. \A s \in UpTo(S, n + 1) : g[s] = IF s = {} THEN base ELSE G[<<s, f[s \ {c[s]}]>>]
      OBVIOUS
    <2> HIDE DEF g
    <2>7. IsRecursion(g, UpTo(S, n + 1), c, G, base)  BY <2>2, <2>5, <2>6 DEF IsRecursion
    <2> QED  BY <2>4, <2>7
  <1>3. \A n \in Nat : n \in Z
    <2> SUFFICES ASSUME NEW b \in Bad  PROVE FALSE
      OBVIOUS
    <2> HIDE DEF Z
    <2>1. Bad \subseteq Nat /\ Bad # {}  OBVIOUS
    <2>2. PICK m \in Bad : \A k \in Bad : m <= k
      <3> HIDE DEF Bad
      <3> QED  BY <2>1, LeastOf
    <2>3. m \in Nat /\ m # 0 /\ m - 1 \in Nat  BY <1>1
    <2>4. m - 1 \notin Bad  BY <2>2, <2>3
    <2>5. (m - 1) + 1 \in Z  BY <1>2, <2>3, <2>4
    <2> QED  BY <2>3, <2>5
  <1>4. UpTo(S, Cardinality(S)) = SUBSET S
    <2>1. \A s \in SUBSET S : Cardinality(s) <= Cardinality(S)  BY FS_Subset
    <2> QED  BY <2>1 DEF UpTo
  <1>5. Cardinality(S) \in Nat  BY <1>0
  <1>6. Has(Cardinality(S))  BY <1>3, <1>5
  <1> QED  BY <1>4, <1>6

\* Whatever is defined so keeps to A.
LEMMA RecursionTyped ==
  ASSUME NEW S, IsFiniteSet(S), NEW A, NEW base \in A, NEW c, NEW G \in [(SUBSET S) \X A -> A],
         \A s \in SUBSET S : s # {} => c[s] \in s,
         NEW f, IsRecursion(f, SUBSET S, c, G, base)
  PROVE  \A s \in SUBSET S : f[s] \in A
  <1> DEFINE Z == {s \in SUBSET S : f[s] \in A}
  <1>1. {} \in Z  BY DEF IsRecursion
  <1>2. ASSUME NEW s \in SUBSET S, s # {}, \A x \in s : s \ {x} \in Z  PROVE s \in Z
    <2>1. f[s \ {c[s]}] \in A  BY <1>2
    <2>2. f[s] = G[<<s, f[s \ {c[s]}]>>]  BY <1>2 DEF IsRecursion
    <2> QED  BY <2>1, <2>2
  <1> HIDE DEF Z
  <1>3. \A s \in SUBSET S : s \in Z  BY <1>1, <1>2, SubsetInduct
  <1> QED  BY <1>3 DEF Z

------------------------------------------------------------------------------
(* What the rules of LifeEvents compute, for histories of any length.      *)

LEMMA DomainFinite ==
  ASSUME NEW X, NEW s \in Seq(X), NEW S, S \subseteq DOMAIN s
  PROVE  IsFiniteSet(S) /\ \A i \in S : s[i] \in X
  <1>1. DOMAIN s = 1..Len(s) /\ Len(s) \in Nat /\ \A i \in 1..Len(s) : s[i] \in X
    OBVIOUS
  <1>2. IsFiniteSet(1..Len(s))  BY <1>1, FS_Interval
  <1> QED  BY <1>1, <1>2, FS_Subset

LEMMA AmountsTyped ==
  ASSUME NEW h \in Seq(Transactions), NEW S, S \subseteq DOMAIN h
  PROVE  IsFiniteSet(S) /\ \A i \in S : h[i].amount \in Nat
  <1>1. IsFiniteSet(S) /\ \A i \in S : h[i] \in Transactions  BY DomainFinite
  <1> QED  BY <1>1 DEF Transactions

LEMMA TotalType ==
  ASSUME NEW h \in Seq(Transactions), NEW S, S \subseteq DOMAIN h
  PROVE  Total(h, S) \in Nat
  <1> DEFINE c == [s \in SUBSET S |-> CHOOSE x \in s : TRUE]
             G == [q \in (SUBSET S) \X Nat |-> IF q[1] = {} THEN 0 ELSE h[c[q[1]]].amount + q[2]]
             Sum(f) == [s \in SUBSET S |->
                IF s = {} THEN 0
                ELSE h[CHOOSE x \in s : TRUE].amount + f[s \ {CHOOSE x \in s : TRUE}]]
  <1>1. IsFiniteSet(S) /\ \A i \in S : h[i].amount \in Nat  BY AmountsTyped
  <1>2. \A s \in SUBSET S : s # {} => c[s] \in s /\ c[s] = CHOOSE x \in s : TRUE
    OBVIOUS
  <1>3. \A s \in SUBSET S : s # {} => h[c[s]].amount \in Nat  BY <1>1, <1>2
  <1>4. G \in [(SUBSET S) \X Nat -> Nat]
    <2> HIDE DEF c
    <2> QED  BY <1>3
  <1>5. \A s \in SUBSET S, n \in Nat : s # {} => G[<<s, n>>] = h[c[s]].amount + n
    OBVIOUS
  <1> HIDE DEF c, G
  <1>6. PICK f \in [SUBSET S -> Nat] : IsRecursion(f, SUBSET S, c, G, 0)
    BY <1>1, <1>2, <1>4, RecursionExists
  <1>7. f = Sum(f)
    <2>1. \A s \in SUBSET S :
            f[s] = IF s = {} THEN 0
                   ELSE h[CHOOSE x \in s : TRUE].amount + f[s \ {CHOOSE x \in s : TRUE}]
      <3> SUFFICES ASSUME NEW s \in SUBSET S, s # {}
                   PROVE  f[s] = h[c[s]].amount + f[s \ {c[s]}]
        BY <1>2, <1>6 DEF IsRecursion
      <3>1. f[s] = G[<<s, f[s \ {c[s]}]>>]  BY <1>6 DEF IsRecursion
      <3>2. f[s \ {c[s]}] \in Nat  BY <1>6
      <3> QED  BY <1>5, <3>1, <3>2
    <2> QED  BY <2>1
  <1>8. PICK g : g = Sum(g) /\ Total(h, S) = g[S]
    <2>1. Total(h, S) = (CHOOSE g : g = Sum(g))[S]
      BY DEF Total, MapThenSumSet, MapThenFoldSet
    <2> QED  BY <1>7, <2>1
  <1>9. ASSUME NEW s \in SUBSET S
        PROVE  s \in {t \in SUBSET S : g[t] \in Nat}
    <2> DEFINE Z == {t \in SUBSET S : g[t] \in Nat}
    <2>1. {} \in Z  BY <1>8
    <2>2. ASSUME NEW t \in SUBSET S, t # {}, \A x \in t : t \ {x} \in Z  PROVE t \in Z
      <3>1. g[t] = h[c[t]].amount + g[t \ {c[t]}]  BY <1>2, <1>8, <2>2
      <3>2. h[c[t]].amount \in Nat /\ g[t \ {c[t]}] \in Nat  BY <1>2, <1>3, <2>2
      <3> QED  BY <3>1, <3>2
    <2> HIDE DEF Z
    <2>3. \A t \in SUBSET S : t \in Z  BY <1>1, <2>1, <2>2, SubsetInduct
    <2> QED  BY <2>3 DEF Z
  <1> QED  BY <1>8, <1>9

LEMMA GreatestOf ==
  ASSUME NEW S, IsFiniteSet(S), NEW f \in [S -> Nat]
  PROVE  \A s \in SUBSET S : s # {} => \E i \in s : \A k \in s : f[k] <= f[i]
  <1> DEFINE Z == {s \in SUBSET S : s # {} => \E i \in s : \A k \in s : f[k] <= f[i]}
  <1>1. {} \in Z  OBVIOUS
  <1>2. ASSUME NEW s \in SUBSET S, s # {}, \A x \in s : s \ {x} \in Z  PROVE s \in Z
    <2>1. PICK x \in s : TRUE  BY <1>2
    <2>2. CASE s \ {x} = {}
      <3>1. \A k \in s : k = x  BY <2>2
      <3>2. f[x] \in Nat  OBVIOUS
      <3> QED  BY <2>1, <3>1, <3>2
    <2>3. CASE s \ {x} # {}
      <3>1. PICK i \in s \ {x} : \A k \in s \ {x} : f[k] <= f[i]  BY <1>2, <2>3
      <3>2. f[x] \in Nat /\ f[i] \in Nat /\ \A k \in s : f[k] \in Nat  OBVIOUS
      <3>3. CASE f[x] <= f[i]
        <4>1. \A k \in s : f[k] <= f[i]  BY <3>1, <3>3
        <4> QED  BY <4>1
      <3>4. CASE f[i] < f[x]
        <4>1. \A k \in s : f[k] <= f[x]  BY <3>1, <3>2, <3>4
        <4> QED  BY <4>1
      <3> QED  BY <3>2, <3>3, <3>4
    <2> QED  BY <2>2, <2>3
  <1> HIDE DEF Z
  <1>3. \A s \in SUBSET S : s \in Z  BY <1>1, <1>2, SubsetInduct
  <1> QED  BY <1>3 DEF Z

LEMMA LargestType ==
  ASSUME NEW h \in Seq(Transactions), NEW S, S \subseteq DOMAIN h
  PROVE  Largest(h, S) \in Nat
  <1>1. IsFiniteSet(S) /\ \A i \in S : h[i].amount \in Nat  BY AmountsTyped
  <1>2. CASE S = {}  BY <1>2 DEF Largest
  <1>3. CASE S # {}
    <2> DEFINE A == {h[i].amount : i \in S}
               f == [i \in S |-> h[i].amount]
    <2>1. f \in [S -> Nat]  BY <1>1
    <2>2. PICK i \in S : \A k \in S : f[k] <= f[i]
      <3> HIDE DEF f
      <3> QED  BY <1>1, <1>3, <2>1, GreatestOf
    <2>3. A \subseteq Nat /\ h[i].amount \in A  BY <1>1
    <2>4. \A y \in A : h[i].amount >= y
      <3> SUFFICES ASSUME NEW k \in S  PROVE h[i].amount >= h[k].amount
        OBVIOUS
      <3>1. f[k] <= f[i] /\ f[k] = h[k].amount /\ f[i] = h[i].amount  BY <2>2
      <3> QED  BY <1>1, <3>1
    <2> HIDE DEF A
    <2>5. Max(A) \in A  BY <2>3, <2>4, Zenon DEF Max
    <2> QED  BY <1>3, <2>3, <2>5 DEF Largest, A
  <1> QED  BY <1>2, <1>3

LEMMA SummaryTyped ==
  ASSUME NEW h \in Seq(Transactions)
  PROVE  /\ Summary(h).hospital \in Nat
         /\ Summary(h).savings \in Int
         /\ Summary(h).salary.raises \in {0, 1}
  <1>1. Summary(h).hospital \in Nat
    <2> DEFINE S == {i \in Debits(h) : h[i].mcc = "medical_hospital"
                                         \/ "medical_hospital" \in h[i].words}
    <2>1. S \subseteq DOMAIN h  BY DEF Debits
    <2>2. Summary(h).hospital = Largest(h, S)  BY DEF Summary
    <2> HIDE DEF S
    <2> QED  BY <2>1, <2>2, LargestType
  <1>2. Summary(h).savings \in Int
    <2>1. Credits(h) \subseteq DOMAIN h /\ Debits(h) \subseteq DOMAIN h  BY DEF Credits, Debits
    <2>2. PICK in \in Nat : in = Total(h, Credits(h))  BY <2>1, TotalType
    <2>3. PICK out \in Nat : out = Total(h, Debits(h))  BY <2>1, TotalType
    <2>4. Summary(h).savings = IF in = 0 THEN 0 ELSE ((in - out) * 1000) \div in
      BY <2>2, <2>3 DEF Summary
    <2> QED  BY <2>4
  <1>3. Summary(h).salary.raises \in {0, 1}
    <2>1. Summary(h).salary = Salary(h)  BY DEF Summary
    <2>2. Salary(h).raises \in {0, 1}  BY DEF Salary
    <2> QED  BY <2>1, <2>2
  <1> QED  BY <1>1, <1>2, <1>3

LEMMA FlagIs == \A b : Flag(b) \in {0, 1}
  BY DEF Flag

LEMMA MinOfTwo ==
  ASSUME NEW a \in Int, NEW b \in Int
  PROVE  Min({a, b}) = IF a <= b THEN a ELSE b
  <1>1. CASE a <= b
    <2>1. a \in {a, b} /\ \A y \in {a, b} : a =< y  BY <1>1
    <2>2. \A x \in {a, b} : (\A y \in {a, b} : x =< y) => x = a  BY <1>1
    <2> QED  BY <1>1, <2>1, <2>2 DEF Min
  <1>2. CASE b < a
    <2>1. b \in {a, b} /\ \A y \in {a, b} : b =< y  BY <1>2
    <2>2. \A x \in {a, b} : (\A y \in {a, b} : x =< y) => x = b  BY <1>2
    <2> QED  BY <1>2, <2>1, <2>2 DEF Min
  <1> QED  BY <1>1, <1>2

LEMMA AtMostOneIs ==
  ASSUME NEW c \in Nat
  PROVE  AtMostOne(c) = IF c <= 1000 THEN c ELSE 1000
  <1>1. Min({1000, c}) = IF 1000 <= c THEN 1000 ELSE c  BY MinOfTwo
  <1> QED  BY <1>1 DEF AtMostOne

\* The rules one by one: the confidence each can have.
LEMMA WeddingIs == \A s : WeddingRule(s) \in {0, 500, 750, 1000}
  <1> SUFFICES ASSUME NEW s  PROVE WeddingRule(s) \in {0, 500, 750, 1000}
    OBVIOUS
  <1>1. PICK a \in {0, 1}, b \in {0, 1}, l \in {0, 1} :
          /\ a = Flag(s.jewellery >= 25) /\ b = Flag(s.banquet >= 15)
          /\ l = Flag(s.large > 100)
    BY FlagIs
  <1>2. PICK n \in 0..5 : n = 2 * a + 2 * b + l  OBVIOUS
  <1>3. WeddingRule(s) = IF n < 2 THEN 0 ELSE AtMostOne(n * 250)  BY <1>1, <1>2 DEF WeddingRule
  <1>4. n * 250 \in Nat  OBVIOUS
  <1>5. AtMostOne(n * 250) = IF n * 250 <= 1000 THEN n * 250 ELSE 1000  BY <1>4, AtMostOneIs
  <1> QED  BY <1>3, <1>5

LEMMA PromotionIs ==
  \A s : /\ PromotionRule(s) \in {0, 750, 1000}
         /\ PromotionRule(s) # 0 => s.salary.raises >= 2 \/ (s.large > 100 /\ s.salary.growth > 100)
  <1> SUFFICES ASSUME NEW s
               PROVE  /\ PromotionRule(s) \in {0, 750, 1000}
                      /\ PromotionRule(s) # 0 => s.salary.raises >= 2 \/ (s.large > 100 /\ s.salary.growth > 100)
    OBVIOUS
  <1>1. PICK a \in {0, 1}, b \in {0, 1} :
          /\ a = Flag(s.salary.raises >= 2)
          /\ b = Flag(s.large > 100 /\ s.salary.growth > 100)
    BY FlagIs
  <1>2. a = 1 => s.salary.raises >= 2  BY <1>1 DEF Flag
  <1>3. b = 1 => s.large > 100 /\ s.salary.growth > 100  BY <1>1 DEF Flag
  <1>4. PICK n \in 0..2 : n = a + b  OBVIOUS
  <1>5. PromotionRule(s) = IF n = 0 THEN 0 ELSE AtMostOne(500 + 250 * n)
    BY <1>1, <1>4 DEF PromotionRule
  <1>6. 500 + 250 * n \in Nat  OBVIOUS
  <1>7. AtMostOne(500 + 250 * n) = IF 500 + 250 * n <= 1000 THEN 500 + 250 * n ELSE 1000
    BY <1>6, AtMostOneIs
  <1>8. PromotionRule(s) \in {0, 750, 1000} /\ (PromotionRule(s) # 0 => n # 0)  BY <1>5, <1>7
  <1>9. n # 0 => a = 1 \/ b = 1  BY <1>4
  <1> QED  BY <1>2, <1>3, <1>8, <1>9

LEMMA OthersAre ==
  ASSUME NEW s, s.hospital \in Nat, s.savings \in Int
  PROVE  /\ HomePurchaseRule(s) \in {0, 700}
         /\ ForeignEducationRule(s) \in {0, 500, 1000}
         /\ BusinessExpansionRule(s) \in {0, 700}
         /\ MedicalRule(s) \in 0..1000
         /\ RetirementPlanningRule(s) \in {0} \cup 700..900
         /\ WealthMigrationRule(s) \in {0, 800, 1000}
  <1>1. HomePurchaseRule(s) \in {0, 700}  BY DEF HomePurchaseRule
  <1>2. ForeignEducationRule(s) \in {0, 500, 1000}
    <2>1. PICK a \in {0, 1}, b \in {0, 1} : a = Flag(s.education > 0) /\ b = Flag(s.forex > 50)
      BY FlagIs
    <2>2. ForeignEducationRule(s) = 500 * (a + b)  BY <2>1 DEF ForeignEducationRule
    <2> QED  BY <2>2
  <1>3. BusinessExpansionRule(s) \in {0, 700}  BY DEF BusinessExpansionRule
  <1>4. MedicalRule(s) \in 0..1000
    <2>1. PICK a \in Nat : a = s.hospital  OBVIOUS
    <2>2. PICK n \in Nat : n = 500 + (a * 5) \div 2
      <3>1. 500 + (a * 5) \div 2 \in Nat  OBVIOUS
      <3> QED  BY <3>1
    <2>3. AtMostOne(n) \in 0..1000  BY AtMostOneIs
    <2>4. MedicalRule(s) = IF a < 50 THEN 0 ELSE AtMostOne(n)  BY <2>1, <2>2 DEF MedicalRule
    <2> QED  BY <2>3, <2>4
  <1>5. RetirementPlanningRule(s) \in {0} \cup 700..900
    <2>1. PICK a \in Int : a = s.savings  OBVIOUS
    <2>2. Min({400, a}) = IF 400 <= a THEN 400 ELSE a  BY MinOfTwo
    <2>3. RetirementPlanningRule(s) = IF s.investor /\ a >= 200 THEN 500 + Min({400, a}) ELSE 0
      BY <2>1 DEF RetirementPlanningRule
    <2>4. a >= 200 => 500 + Min({400, a}) \in 700..900  BY <2>2
    <2> QED  BY <2>3, <2>4
  <1>6. WealthMigrationRule(s) \in {0, 800, 1000}  BY DEF WealthMigrationRule
  <1> QED  BY <1>1, <1>2, <1>3, <1>4, <1>5, <1>6

LEMMA EventNamesAre ==
  /\ EventNames = {"wedding", "home_purchase", "foreign_education", "promotion",
                   "business_expansion", "medical", "retirement_planning", "wealth_migration"}
  /\ DOMAIN RuleNames = 1..8
  /\ \A i \in 1..8 : RuleNames[i] \in EventNames
  BY DEF EventNames, RuleNames

LEMMA ConfidenceIs ==
  ASSUME NEW s, NEW e \in EventNames
  PROVE  RuleConfidence(s)[e] =
           CASE e = "wedding" -> WeddingRule(s)
             [] e = "home_purchase" -> HomePurchaseRule(s)
             [] e = "foreign_education" -> ForeignEducationRule(s)
             [] e = "promotion" -> PromotionRule(s)
             [] e = "business_expansion" -> BusinessExpansionRule(s)
             [] e = "medical" -> MedicalRule(s)
             [] e = "retirement_planning" -> RetirementPlanningRule(s)
             [] e = "wealth_migration" -> WealthMigrationRule(s)
  BY DEF RuleConfidence

LEMMA ConfidenceCases ==
  ASSUME NEW s, s.hospital \in Nat, s.savings \in Int, NEW e \in EventNames
  PROVE  /\ RuleConfidence(s)[e] \in 0..1000
         /\ RuleConfidence(s)[e] \in 1..599 => e \in {"wedding", "foreign_education", "medical"}
         /\ e = "promotion" /\ RuleConfidence(s)[e] # 0 => PromotionRule(s) # 0
  <1>1. CASE e = "wedding"  BY <1>1, ConfidenceIs, WeddingIs
  <1>2. CASE e = "home_purchase"  BY <1>2, ConfidenceIs, OthersAre
  <1>3. CASE e = "foreign_education"  BY <1>3, ConfidenceIs, OthersAre
  <1>4. CASE e = "promotion"  BY <1>4, ConfidenceIs, PromotionIs
  <1>5. CASE e = "business_expansion"  BY <1>5, ConfidenceIs, OthersAre
  <1>6. CASE e = "medical"  BY <1>6, ConfidenceIs, OthersAre
  <1>7. CASE e = "retirement_planning"
    <2>1. PICK r \in {0} \cup 700..900 : r = RetirementPlanningRule(s)  BY OthersAre
    <2>2. RuleConfidence(s)[e] = r  BY <1>7, <2>1, ConfidenceIs
    <2>3. r = 0 \/ (r \in Int /\ r >= 700 /\ r <= 900)  BY <2>1
    <2>4. r \in 0..1000 /\ ~(r \in 1..599)  BY <2>3
    <2> HIDE DEF RuleConfidence
    <2> QED  BY <1>7, <2>2, <2>4
  <1>8. CASE e = "wealth_migration"  BY <1>8, ConfidenceIs, OthersAre
  <1> QED  BY <1>1, <1>2, <1>3, <1>4, <1>5, <1>6, <1>7, <1>8, EventNamesAre

------------------------------------------------------------------------------
(* The events that the rules detect.                                       *)

\* The events whose rule fires with the confidence asked of it.
Firing(s) ==
  {e \in EventNames : RuleConfidence(s)[e] > 0 /\ RuleConfidence(s)[e] >= MinConfidence[e]}

LEMMA MaxIsIn ==
  ASSUME NEW n \in Nat, NEW t \in SUBSET (1..n), t # {}
  PROVE  Max(t) \in t
  <1> DEFINE f == [i \in 1..n |-> i]
  <1>1. f \in [1..n -> Nat] /\ \A i \in t : f[i] = i  OBVIOUS
  <1> HIDE DEF f
  <1>2. IsFiniteSet(1..n)  BY FS_Interval
  <1>3. PICK i \in t : \A k \in t : f[k] <= f[i]  BY <1>1, <1>2, GreatestOf
  <1>4. i \in t /\ \A k \in t : i >= k  BY <1>1, <1>3
  <1> QED  BY <1>4, Zenon DEF Max

LEMMA RangeAppend ==
  ASSUME NEW X, NEW s \in Seq(X), NEW x
  PROVE  Range(Append(s, x)) = Range(s) \cup {x}
  <1>1. /\ Len(s) \in Nat /\ DOMAIN s = 1..Len(s)
        /\ DOMAIN Append(s, x) = 1..(Len(s) + 1)
        /\ Append(s, x)[Len(s) + 1] = x
        /\ \A i \in 1..Len(s) : Append(s, x)[i] = s[i]
    OBVIOUS
  <1>2. \A i \in 1..(Len(s) + 1) : i \in 1..Len(s) \/ i = Len(s) + 1  BY <1>1
  <1>3. \A i \in 1..Len(s) : i \in 1..(Len(s) + 1)  BY <1>1
  <1>4. Len(s) + 1 \in 1..(Len(s) + 1)  BY <1>1
  <1> QED  BY <1>1, <1>2, <1>3, <1>4 DEF Range

\* The events detected are those, whatever their number.
LEMMA DetectedLaw ==
  \A s : Detected(s) \in Seq(Firing(s)) /\ Range(Detected(s)) = Firing(s)
  <1> SUFFICES ASSUME NEW s
               PROVE  Detected(s) \in Seq(Firing(s)) /\ Range(Detected(s)) = Firing(s)
    OBVIOUS
  <1> DEFINE S == 1..8
             R == RuleNames
             F == Firing(s)
             c == [t \in SUBSET S |-> Max(t)]
             G == [q \in (SUBSET S) \X Seq(F) |->
                     IF q[1] # {} /\ R[c[q[1]]] \in F THEN Append(q[2], R[c[q[1]]]) ELSE q[2]]
             Sieve(f) == [t \in SUBSET S |->
                IF t = {} THEN <<>>
                ELSE IF RuleConfidence(s)[R[Max(t)]] > 0
                          /\ RuleConfidence(s)[R[Max(t)]] >= MinConfidence[R[Max(t)]]
                     THEN Append(f[t \ {Max(t)}], R[Max(t)]) ELSE f[t \ {Max(t)}]]
  <1>1. IsFiniteSet(S)
    <2>1. 1 \in Int /\ 8 \in Int  OBVIOUS
    <2> QED  BY <2>1, FS_Interval
  <1>2. \A t \in SUBSET S : t # {} => c[t] \in t /\ c[t] = Max(t)
    <2>1. \A t \in SUBSET S : t # {} => Max(t) \in t  BY MaxIsIn
    <2> QED  BY <2>1
  <1>3. DOMAIN R = S /\ \A i \in S : R[i] \in EventNames  BY EventNamesAre
  <1>4. EventNames = {R[i] : i \in S}  BY <1>3 DEF EventNames
  <1>5. \A i \in S : R[i] \in F <=> /\ RuleConfidence(s)[R[i]] > 0
                                    /\ RuleConfidence(s)[R[i]] >= MinConfidence[R[i]]
    BY <1>3 DEF Firing
  <1>6. F = {R[i] : i \in {k \in S : R[k] \in F}}  BY <1>4 DEF Firing
  <1> HIDE DEF R, F, c
  <1>7. <<>> \in Seq(F) /\ G \in [(SUBSET S) \X Seq(F) -> Seq(F)]  OBVIOUS
  <1>8. \A t \in SUBSET S, a \in Seq(F) :
          t # {} => G[<<t, a>>] = IF R[c[t]] \in F THEN Append(a, R[c[t]]) ELSE a
    OBVIOUS
  <1> HIDE DEF G
  <1>9. PICK h \in [SUBSET S -> Seq(F)] : IsRecursion(h, SUBSET S, c, G, <<>>)
    BY <1>1, <1>2, <1>7, RecursionExists
  <1>10. \A f : Sieve(f) = [t \in SUBSET S |->
                IF t = {} THEN <<>>
                ELSE IF R[c[t]] \in F THEN Append(f[t \ {c[t]}], R[c[t]]) ELSE f[t \ {c[t]}]]
    BY <1>2, <1>5
  <1> HIDE DEF Sieve
  <1>11. h = Sieve(h)
    <2>1. ASSUME NEW t \in SUBSET S
          PROVE  h[t] = IF t = {} THEN <<>>
                        ELSE IF R[c[t]] \in F THEN Append(h[t \ {c[t]}], R[c[t]]) ELSE h[t \ {c[t]}]
      <3>1. h[t] = IF t = {} THEN <<>> ELSE G[<<t, h[t \ {c[t]}]>>]  BY <1>9 DEF IsRecursion
      <3>2. h[t \ {c[t]}] \in Seq(F)  BY <1>9
      <3> QED  BY <1>8, <3>1, <3>2
    <2> QED  BY <1>9, <1>10, <2>1
  <1>12. PICK g : g = Sieve(g) /\ Detected(s) = g[S]
    <2>1. Detected(s) = (CHOOSE g : g = Sieve(g))[S]
      BY <1>3 DEF Detected, FoldLeft, MapThenFoldSet, Sieve, R
    <2> QED  BY <1>11, <2>1
  <1>13. \A t \in SUBSET S :
           g[t] = IF t = {} THEN <<>>
                  ELSE IF R[c[t]] \in F THEN Append(g[t \ {c[t]}], R[c[t]]) ELSE g[t \ {c[t]}]
    BY <1>10, <1>12
  <1> DEFINE Kept(t) == {R[i] : i \in {k \in t : R[k] \in F}}
             Z == {t \in SUBSET S : g[t] \in Seq(F) /\ Range(g[t]) = Kept(t)}
  <1>14. {} \in Z
    <2>1. g[{}] = <<>>  BY <1>13
    <2>2. DOMAIN <<>> = {}  OBVIOUS
    <2>3. Range(<<>>) = {}  BY <2>2, Zenon DEF Range
    <2>4. Kept({}) = {}  OBVIOUS
    <2> QED  BY <1>7, <2>1, <2>3, <2>4
  <1>15. ASSUME NEW t \in SUBSET S, t # {}, \A x \in t : t \ {x} \in Z  PROVE t \in Z
    <2> DEFINE i == c[t]
               u == t \ {i}
    <2>1. i \in t /\ i \in S  BY <1>2, <1>15
    <2>2. g[u] \in Seq(F) /\ Range(g[u]) = Kept(u)  BY <1>15, <2>1
    <2>3. g[t] = IF R[i] \in F THEN Append(g[u], R[i]) ELSE g[u]  BY <1>13, <1>15
    <2> HIDE DEF i
    <2>4. Kept(t) = IF R[i] \in F THEN Kept(u) \cup {R[i]} ELSE Kept(u)  BY <2>1
    <2>5. R[i] \in F => Range(Append(g[u], R[i])) = Range(g[u]) \cup {R[i]}  BY <2>2, RangeAppend
    <2>6. R[i] \in F => Append(g[u], R[i]) \in Seq(F)  BY <2>2
    <2> QED  BY <2>2, <2>3, <2>4, <2>5, <2>6
  <1> HIDE DEF Z
  <1>16. \A t \in SUBSET S : t \in Z  BY <1>1, <1>14, <1>15, SubsetInduct
  <1>17. g[S] \in Seq(F) /\ Range(g[S]) = Kept(S)  BY <1>16 DEF Z
  <1> QED  BY <1>6, <1>12, <1>17 DEF F

------------------------------------------------------------------------------
(* What the agents hand on: the events found, the assessment of the        *)
(* customer, the opportunities of those events, a draft for one that leads.*)

Before == {"customer_intel", "transaction_intel", "event_detection"}

\* A review was asked for on these grounds.
Reviewed(s) ==
  /\ s.events # <<>>
  /\ s.summary = {Summary(history)}
  /\ AllDoubtful(s)
  /\ \E r \in s.risk : r.tier = "high"

Handed(s, n) ==
  /\ s.events \in {<<>>, Found}
  /\ n \in Before => s.events = <<>>
  /\ n \in {"risk_assessment", "manual_review_node"} => s.events # <<>>
  /\ n \in Early => s.risk = {}
  /\ s.risk \subseteq {Assessment(customer, history, TRUE)}
  /\ s.opportunities \in {{}, Opportunities(customer, Found, s.risk)}
  /\ s.messages \subseteq {o.product : o \in s.opportunities}
  /\ n = "manual_review_node" \/ s.explanation = "manual_review_node" => Reviewed(s)
  /\ s.explanation = "manual_review_node" => n = "end"

HandedInv == Handed(state, node)

\* The two routes.
LEMMA Routes ==
  \A s : /\ NextNode("event_detection", s) =
              IF s.events = <<>> \/ s.skip THEN "no_opportunity_node" ELSE "risk_assessment"
         /\ NextNode("risk_assessment", s) =
              IF (\E r \in s.risk : r.tier = "high") /\ AllDoubtful(s)
              THEN "manual_review_node" ELSE "opportunity_scoring"
  BY DEF NextNode

LEMMA GoOnHands ==
  ASSUME NEW s, GoOn(s), UNCHANGED inputs, Handed(s, NextNode(node, s))
  PROVE  HandedInv'
  <1>1. state' = s /\ node' = NextNode(node, s) /\ history' = history /\ customer' = customer
    BY DEF GoOn, inputs
  <1> QED  BY <1>1 DEF HandedInv, Handed, Reviewed, AllDoubtful, Found

\* An agent that writes nothing the invariant speaks of.
LEMMA MoveOn ==
  ASSUME GraphInv, HandedInv, node \in Agents, NEW s, GoOn(s), UNCHANGED inputs,
         s.summary = state.summary \/ node \in Before,
         s.events = state.events, s.risk = state.risk,
         s.opportunities = state.opportunities, s.messages = state.messages,
         s.explanation \in {state.explanation, "card"}
  PROVE  HandedInv'
  <1> DEFINE n == NextNode(node, s)
  <1>1. Handed(state, node)  BY DEF HandedInv
  <1>2. node # "end" /\ node # "manual_review_node"  BY DEF Agents, LLMAgents
  <1>3. s.explanation # "manual_review_node"  BY <1>1, <1>2 DEF Handed
  <1>4. CASE node \in {"customer_intel", "transaction_intel"}
    <2>1. n \in Before /\ n # "manual_review_node"  BY <1>4, Edges DEF Before
    <2>2. s.events = <<>> /\ s.risk = {}  BY <1>1, <1>4 DEF Handed, Before, Early
    <2>3. n \notin {"risk_assessment", "manual_review_node"}  BY <2>1 DEF Before
    <2>4. Handed(s, n)  BY <1>1, <1>3, <2>1, <2>2, <2>3 DEF Handed
    <2> QED  BY <2>4, GoOnHands
  <1>5. CASE node = "event_detection"
    <2>1. s.events = <<>> /\ s.risk = {}  BY <1>1, <1>5 DEF Handed, Before, Early
    <2>2. n = "no_opportunity_node"  BY <1>5, <2>1, Routes
    <2>3. Handed(s, n)  BY <1>1, <1>3, <2>1, <2>2 DEF Handed, Before
    <2> QED  BY <2>3, GoOnHands
  <1>6. CASE node = "risk_assessment"
    <2>1. s.risk = {}  BY <1>1, <1>6 DEF Handed, Early
    <2>2. n = "opportunity_scoring"  BY <1>6, <2>1, Routes
    <2>3. Handed(s, n)  BY <1>1, <1>3, <2>1, <2>2 DEF Handed, Before
    <2> QED  BY <2>3, GoOnHands
  <1>7. CASE node \in Assessed
    <2>1. n \in Scored \cup {"end"}  BY <1>2, <1>7, Edges DEF Assessed, Scored, Agents, LLMAgents
    <2>2. n \notin Before /\ n \notin Early /\ n \notin {"risk_assessment", "manual_review_node"}
      BY <2>1 DEF Scored, Before, Early
    <2>3. Handed(s, n)  BY <1>1, <1>3, <2>2 DEF Handed
    <2> QED  BY <2>3, GoOnHands
  <1> QED  BY <1>4, <1>5, <1>6, <1>7 DEF Agents, LLMAgents, Assessed, Scored

LEMMA RaiseHands ==
  ASSUME GraphInv, HandedInv, node \in Agents, Raise, UNCHANGED inputs
  PROVE  HandedInv'
  <1> DEFINE s == [state EXCEPT !.errors = @ \cup {node}]
  <1>1. GoOn(s) /\ DOMAIN state = Fields  BY DEF Raise, GraphInv, Written
  <1>2. /\ s.summary = state.summary /\ s.events = state.events /\ s.risk = state.risk
        /\ s.opportunities = state.opportunities /\ s.explanation = state.explanation
        /\ s.messages = state.messages
    BY <1>1 DEF Fields
  <1> HIDE DEF s
  <1> QED  BY <1>1, <1>2, MoveOn

\* What only counts hands on nothing.
LEMMA CountHands ==
  ASSUME HandedInv, UNCHANGED <<inputs, node, state>>
  PROVE  HandedInv'
  <1>1. state' = state /\ node' = node /\ history' = history /\ customer' = customer
    BY DEF inputs
  <1> QED  BY <1>1 DEF HandedInv, Handed, Reviewed, AllDoubtful, Found

LEMMA RetryHands ==
  ASSUME GraphInv, HandedInv, node \in Agents, NEW made, RetryAgent(made), UNCHANGED inputs
  PROVE  HandedInv'
  <1>1. CASE attempt < MaxAttempts  BY <1>1, CountHands DEF RetryAgent
  <1>2. CASE ~(attempt < MaxAttempts)  BY <1>2, RaiseHands DEF RetryAgent
  <1> QED  BY <1>1, <1>2

LEMMA FailureHands ==
  ASSUME GraphInv, HandedInv, Failure
  PROVE  HandedInv'
  <1>1. llm # "idle" => node \in Agents  BY DEF GraphInv, Budget, Agents
  <1>2. CASE TimeOut  BY <1>2, RetryHands DEF TimeOut
  <1>3. CASE Break  BY <1>3, RaiseHands DEF Break
  <1>4. CASE ApiFails
    <2>1. node \in Agents /\ UNCHANGED inputs  BY <1>1, <1>4 DEF ApiFails
    <2>2. CASE try + 1 < MaxTries  BY <1>4, <2>2, CountHands DEF ApiFails
    <2>3. CASE ~(try + 1 < MaxTries)  BY <1>4, <2>1, <2>3, RetryHands DEF ApiFails
    <2> QED  BY <2>2, <2>3
  <1>5. CASE ApiRefuses
    <2>1. node \in Agents /\ UNCHANGED inputs  BY <1>1, <1>5 DEF ApiRefuses
    <2> QED  BY <1>5, <2>1, RetryHands, RaiseHands DEF ApiRefuses
  <1>6. CASE ExplainMalformed
    BY <1>1, <1>6, RaiseHands DEF ExplainMalformed
  <1> QED  BY <1>2, <1>3, <1>4, <1>5, <1>6 DEF Failure

LEMMA EventDetectionHands ==
  ASSUME GraphInv, HandedInv, EventDetection
  PROVE  HandedInv'
  <1> DEFINE found == IF state.summary = {} THEN <<>>
                      ELSE Detected(CHOOSE x \in state.summary : TRUE)
             s == [state EXCEPT !.events = found, !.skip = (found = <<>>)]
             n == NextNode(node, s)
  <1>1. Handed(state, node) /\ Written(state) /\ Gate(state, node)  BY DEF HandedInv, GraphInv
  <1>2. node = "event_detection" /\ GoOn(s) /\ UNCHANGED inputs
    BY DEF EventDetection, Compute, Return
  <1>3. found \in {<<>>, Found}
    <2>1. CASE state.summary = {}  BY <2>1
    <2>2. CASE state.summary # {}
      <3>1. state.summary = {Summary(history)}  BY <1>1, <2>2 DEF Gate
      <3> QED  BY <3>1 DEF Found
    <2> QED  BY <2>1, <2>2
  <1> HIDE DEF found
  <1>4. /\ s.summary = state.summary /\ s.events = found /\ s.skip = (found = <<>>)
        /\ s.risk = state.risk /\ s.opportunities = state.opportunities
        /\ s.explanation = state.explanation /\ s.messages = state.messages
    BY <1>1 DEF Written, Fields
  <1> HIDE DEF s
  <1>5. n = IF found = <<>> THEN "no_opportunity_node" ELSE "risk_assessment"
    BY <1>2, <1>4, Routes
  <1>6. s.risk = {} /\ s.explanation # "manual_review_node"
    BY <1>1, <1>2, <1>4 DEF Handed, Early
  <1>7. Handed(s, n)  BY <1>1, <1>3, <1>4, <1>5, <1>6 DEF Handed, Before
  <1> QED  BY <1>2, <1>7, GoOnHands

LEMMA RiskAssessmentHands ==
  ASSUME GraphInv, HandedInv, RiskAssessment
  PROVE  HandedInv'
  <1>1. Handed(state, node) /\ Written(state) /\ Gate(state, node)  BY DEF HandedInv, GraphInv
  <1>2. CASE node = "risk_assessment" /\ Raise /\ UNCHANGED <<inputs, faults>>
    BY <1>2, RaiseHands DEF Agents
  <1>3. CASE state.profile # {} /\ Compute("risk_assessment",
               [state EXCEPT !.risk = {Assessment(p, history, state.summary # {}) : p \in state.profile}])
    <2> DEFINE risk == {Assessment(p, history, state.summary # {}) : p \in state.profile}
               s == [state EXCEPT !.risk = risk]
               n == NextNode(node, s)
    <2>1. node = "risk_assessment" /\ GoOn(s) /\ UNCHANGED inputs
      BY <1>3 DEF Compute, Return
    <2>2. state.events # <<>> /\ state.profile = {customer}
      BY <1>1, <1>3, <2>1 DEF Gate, Handed
    <2>3. (state.summary # {}) = TRUE /\ state.summary = {Summary(history)}
      BY <1>1, <2>2 DEF Gate
    <2>4. risk = {Assessment(customer, history, TRUE)}  BY <2>2, <2>3
    <2> HIDE DEF risk
    <2>5. /\ s.summary = state.summary /\ s.events = state.events
          /\ s.risk = risk /\ s.opportunities = state.opportunities
          /\ s.explanation = state.explanation /\ s.messages = state.messages
      BY <1>1 DEF Written, Fields
    <2> HIDE DEF s
    <2>6. n = IF (\E r \in s.risk : r.tier = "high") /\ AllDoubtful(s)
              THEN "manual_review_node" ELSE "opportunity_scoring"
      BY <2>1, Routes
    <2>7. n = "manual_review_node" => Reviewed(s)  BY <2>2, <2>3, <2>5, <2>6 DEF Reviewed
    <2>8. state.opportunities = {} /\ s.explanation # "manual_review_node"
      BY <1>1, <2>1, <2>5 DEF Handed, Gate, Scored
    <2>9. n \notin Before /\ n \notin Early  BY <2>6 DEF Before, Early
    <2>10. Handed(s, n)  BY <1>1, <2>2, <2>4, <2>5, <2>7, <2>8, <2>9 DEF Handed
    <2> QED  BY <2>1, <2>10, GoOnHands
  <1> QED  BY <1>2, <1>3 DEF RiskAssessment

LEMMA OpportunityScoringHands ==
  ASSUME GraphInv, HandedInv, OpportunityScoring
  PROVE  HandedInv'
  <1> DEFINE opps == UNION {Opportunities(p, state.events, state.risk) : p \in state.profile}
             s == [state EXCEPT !.opportunities = opps]
             n == NextNode(node, s)
  <1>1. Handed(state, node) /\ Written(state) /\ Gate(state, node)  BY DEF HandedInv, GraphInv
  <1>2. node = "opportunity_scoring" /\ node \in Agents /\ GoOn(s) /\ UNCHANGED inputs
    BY DEF OpportunityScoring, Compute, Return, Agents
  <1>3. \A p : state.events = <<>> => Opportunities(p, state.events, state.risk) = {}
    BY GateHolds
  <1>4. state.profile = {customer} => opps = Opportunities(customer, state.events, state.risk)
    OBVIOUS
  <1>5. state.profile = {} => opps = {}  OBVIOUS
  <1> HIDE DEF opps
  <1>6. opps \in {{}, Opportunities(customer, Found, state.risk)}
    <2>1. state.profile = {} \/ state.profile = {customer}  BY <1>1 DEF Gate
    <2>2. state.events = <<>> \/ state.events = Found  BY <1>1 DEF Handed
    <2> QED  BY <1>3, <1>4, <1>5, <2>1, <2>2
  <1>7. /\ s.summary = state.summary /\ s.events = state.events
        /\ s.risk = state.risk /\ s.opportunities = opps
        /\ s.explanation = state.explanation /\ s.messages = state.messages
    BY <1>1 DEF Written, Fields
  <1> HIDE DEF s
  <1>8. n = "product_rec"  BY <1>2, Edges
  <1>9. s.messages = {} /\ s.explanation # "manual_review_node"
    BY <1>1, <1>2, <1>7 DEF Handed, Gate
  <1>10. Handed(s, n)  BY <1>1, <1>6, <1>7, <1>8, <1>9 DEF Handed, Before, Early
  <1> QED  BY <1>2, <1>10, GoOnHands

LEMMA DraftHands ==
  ASSUME GraphInv, HandedInv, Draft
  PROVE  HandedInv'
  <1>1. Handed(state, node) /\ Written(state)  BY DEF HandedInv, GraphInv
  <1>2. PICK o \in state.opportunities :
          Return([state EXCEPT !.messages = {o.product}])
    BY DEF Draft
  <1> DEFINE s == [state EXCEPT !.messages = {o.product}]
             n == NextNode(node, s)
  <1>3. node = "outreach_gen" /\ node \in Agents /\ GoOn(s) /\ UNCHANGED inputs
    BY <1>2 DEF Draft, Return, Agents, LLMAgents
  <1>4. /\ s.summary = state.summary /\ s.events = state.events
        /\ s.risk = state.risk /\ s.opportunities = state.opportunities
        /\ s.explanation = state.explanation /\ s.messages = {o.product}
    BY <1>1 DEF Written, Fields
  <1> HIDE DEF s
  <1>5. n = "end"  BY <1>3, Edges
  <1>6. s.explanation # "manual_review_node"  BY <1>1, <1>3, <1>4 DEF Handed
  <1>7. s.messages \subseteq {q.product : q \in s.opportunities}  BY <1>2, <1>4
  <1>8. Handed(s, n)  BY <1>1, <1>4, <1>5, <1>6, <1>7 DEF Handed, Before, Early
  <1> QED  BY <1>3, <1>8, GoOnHands

LEMMA SummariseHands ==
  ASSUME GraphInv, HandedInv, Summarise
  PROVE  HandedInv'
  <1>1. Handed(state, node) /\ Written(state)  BY DEF HandedInv, GraphInv
  <1>2. /\ node \in Summaries /\ state' = [state EXCEPT !.explanation = node] /\ node' = "end"
        /\ history' = history /\ customer' = customer
    BY DEF Summarise, inputs
  <1>3. /\ state'.summary = state.summary /\ state'.events = state.events
        /\ state'.risk = state.risk /\ state'.opportunities = state.opportunities
        /\ state'.explanation = node /\ state'.messages = state.messages
    BY <1>1, <1>2 DEF Written, Fields
  <1>4. Handed(state', "end")
    <2>1. AllDoubtful(state') <=> AllDoubtful(state)  BY <1>3 DEF AllDoubtful
    <2>2. node = "manual_review_node" => Reviewed(state')  BY <1>1, <1>3, <2>1 DEF Handed, Reviewed
    <2> QED  BY <1>1, <1>3, <2>2 DEF Handed, Before, Early
  <1> QED  BY <1>2, <1>4 DEF HandedInv, Handed, Reviewed, AllDoubtful, Found

LEMMA HandedInit == Init => HandedInv
  <1> SUFFICES ASSUME Init  PROVE HandedInv
    OBVIOUS
  <1>1. /\ state.events = <<>> /\ state.risk = {} /\ state.opportunities = {}
        /\ state.messages = {} /\ state.explanation = "none" /\ node = "customer_intel"
    BY DEF Init, EmptyState
  <1> QED  BY <1>1 DEF HandedInv, Handed

LEMMA HandedNext == GraphInv /\ HandedInv /\ [Next]_vars => HandedInv'
  <1> SUFFICES ASSUME GraphInv, HandedInv, [Next]_vars  PROVE HandedInv'
    OBVIOUS
  <1>1. DOMAIN state = Fields  BY DEF GraphInv, Written
  <1>2. CASE CustomerIntel
    <2> DEFINE s == [state EXCEPT !.profile = {customer}]
    <2>1. /\ node = "customer_intel" /\ node \in Agents /\ node \in Before
          /\ GoOn(s) /\ UNCHANGED inputs
      BY <1>2 DEF CustomerIntel, Compute, Return, Agents, Before
    <2>2. /\ s.events = state.events /\ s.risk = state.risk
          /\ s.opportunities = state.opportunities /\ s.explanation = state.explanation
          /\ s.messages = state.messages
      BY <1>1 DEF Fields
    <2> HIDE DEF s
    <2> QED  BY <2>1, <2>2, MoveOn
  <1>3. CASE TransactionIntel
    <2> DEFINE s == [state EXCEPT !.summary = {Summary(history)}]
    <2>1. /\ node = "transaction_intel" /\ node \in Agents /\ node \in Before
          /\ GoOn(s) /\ UNCHANGED inputs
      BY <1>3 DEF TransactionIntel, Compute, Return, Agents, Before
    <2>2. /\ s.events = state.events /\ s.risk = state.risk
          /\ s.opportunities = state.opportunities /\ s.explanation = state.explanation
          /\ s.messages = state.messages
      BY <1>1 DEF Fields
    <2> HIDE DEF s
    <2> QED  BY <2>1, <2>2, MoveOn
  <1>4. CASE EventDetection  BY <1>4, EventDetectionHands
  <1>5. CASE RiskAssessment  BY <1>5, RiskAssessmentHands
  <1>6. CASE OpportunityScoring  BY <1>6, OpportunityScoringHands
  <1>7. CASE ProductRec
    <2> DEFINE products == UNION {Recommended(p, state.events) : p \in state.profile}
               s == [state EXCEPT !.products = products]
    <2>1. node \in Agents /\ GoOn(s) /\ UNCHANGED inputs
      BY <1>7 DEF ProductRec, Compute, Return, Agents
    <2> HIDE DEF products
    <2>2. /\ s.summary = state.summary /\ s.events = state.events /\ s.risk = state.risk
          /\ s.opportunities = state.opportunities /\ s.explanation = state.explanation
          /\ s.messages = state.messages
      BY <1>1 DEF Fields
    <2> HIDE DEF s
    <2> QED  BY <2>1, <2>2, MoveOn
  <1>8. CASE NothingToWrite
    <2>1. node \in Agents /\ GoOn(state) /\ UNCHANGED inputs
      BY <1>8 DEF NothingToWrite, Return, Agents
    <2> QED  BY <2>1, MoveOn
  <1>9. CASE Explain
    <2> DEFINE s == [state EXCEPT !.explanation = "card"]
    <2>1. node \in Agents /\ GoOn(s) /\ UNCHANGED inputs
      BY <1>9 DEF Explain, Return, Agents, LLMAgents
    <2>2. /\ s.summary = state.summary /\ s.events = state.events /\ s.risk = state.risk
          /\ s.opportunities = state.opportunities /\ s.explanation = "card"
          /\ s.messages = state.messages
      BY <1>1 DEF Fields
    <2> HIDE DEF s
    <2> QED  BY <2>1, <2>2, MoveOn
  <1>10. CASE Draft  BY <1>10, DraftHands
  <1>11. CASE Summarise  BY <1>11, SummariseHands
  <1>12. CASE Ask  BY <1>12, CountHands DEF Ask
  <1>13. CASE Answer  BY <1>13, CountHands DEF Answer
  <1>14. CASE Failure  BY <1>14, FailureHands
  <1>15. CASE UNCHANGED vars
    <2>1. UNCHANGED <<inputs, node, state>>  BY <1>15 DEF vars, inputs
    <2> QED  BY <2>1, CountHands
  <1> QED
    BY <1>2, <1>3, <1>4, <1>5, <1>6, <1>7, <1>8, <1>9, <1>10, <1>11, <1>12, <1>13, <1>14, <1>15
    DEF Next, Step

LEMMA HandedHolds == Spec => []HandedInv
  BY GraphHolds, HandedInit, HandedNext, PTL DEF Spec

------------------------------------------------------------------------------
(* The theorems.                                                           *)

\* Types.
THEOREM TypeCorrect == Spec => []TypeOK
  <1>1. GraphInv => TypeOK
    <2> SUFFICES ASSUME GraphInv  PROVE TypeOK
      OBVIOUS
    <2>1. StateTyped
      BY DEF GraphInv, Records, Written, Gate, StateTyped
    <2> QED  BY <2>1 DEF GraphInv, Records, Budget, TypeOK
  <1> QED  BY <1>1, GraphHolds, PTL

\* What an assessment that did not fail says of a customer who is offered
\* something: that of a customer whose transactions were summarised.
LEMMA OfferedMeansSummarised ==
  ASSUME GraphInv, state.messages # {}, ~Raised("risk_assessment")
  PROVE  /\ state.risk = {Assessment(customer, history, TRUE)}
         /\ ~(Assessment(customer, history, TRUE).tier = "high" /\ AllDoubtful(state))
         /\ \A o \in state.opportunities, r \in state.risk :
              Eligible(r) \/ o.product \notin GatedLoans
  <1>1. Gate(state, node)  BY DEF GraphInv
  <1>2. state.opportunities # {}  BY <1>1 DEF Gate
  <1>3. (state.summary # {}) = TRUE  BY <1>1, <1>2 DEF Gate
  <1>4. Passed(state)  BY <1>1 DEF Gate
  <1>5. /\ state.risk = {Assessment(customer, history, state.summary # {})}
        /\ ~(Assessment(customer, history, state.summary # {}).tier = "high" /\ AllDoubtful(state))
    BY <1>4 DEF Passed, Raised
  <1> QED  BY <1>1, <1>3, <1>5 DEF Gate

\* A high-risk customer all of whose events are doubtful gets no draft unless
\* the risk assessment itself failed (graph/router.py:41).
THEOREM DoubtfulIsNotDrafted == Spec => []DoubtfulHighRiskNotDrafted
  <1>1. GraphInv => DoubtfulHighRiskNotDrafted
    BY OfferedMeansSummarised DEF DoubtfulHighRiskNotDrafted
  <1> QED  BY <1>1, GraphHolds, PTL

\* Nor does one who may not have it get a personal or an education loan
\* (opportunity_scoring.py:157).
THEOREM IneligibleIsNotDrafted == Spec => []IneligibleLoanNotDrafted
  <1>1. GraphInv => IneligibleLoanNotDrafted
    <2> SUFFICES ASSUME GraphInv, state.messages \cap GatedLoans # {}, ~Raised("risk_assessment")
                 PROVE  Eligible(Assessment(customer, history, TRUE))
      BY DEF IneligibleLoanNotDrafted
    <2>1. PICK product \in state.messages : product \in GatedLoans
      OBVIOUS
    <2>2. PICK o \in state.opportunities : o.product = product
      BY <2>1 DEF GraphInv, Gate
    <2> QED  BY <2>1, <2>2, OfferedMeansSummarised
  <1> QED  BY <1>1, GraphHolds, PTL

\* A run that ends with a detected event has a draft, a review, an error on
\* record or nothing to offer.
THEOREM EventsAreAccountedFor == Spec => []EventIsAccountedFor
  <1>1. GraphInv => EventIsAccountedFor
    BY DEF GraphInv, Story, Told, Found, EventIsAccountedFor
  <1> QED  BY <1>1, GraphHolds, PTL

\* The retries of the agent and those of the router multiply, and no more
\* (base_agent.py:176, llm/router.py).
THEOREM ApiCallsAreBounded == Spec => []ApiCallsBounded
  <1>1. GraphInv => ApiCallsBounded
    <2> SUFFICES ASSUME GraphInv  PROVE ApiCallsBounded
      OBVIOUS
    <2>1. /\ MaxTries \in Nat \ {0} /\ attempt \in 1..MaxAttempts /\ attempt \in Nat \ {0}
          /\ MaxAttempts \in Nat /\ calls \in Nat /\ try \in 0..MaxTries
          /\ calls <= (attempt - 1) * MaxTries + try
      BY ConstantsAssumption DEF GraphInv, Budget
    <2>2. (attempt - 1) * MaxTries \in Nat /\ (attempt - 1) * MaxTries + MaxTries = attempt * MaxTries
      BY <2>1, Product
    <2>3. calls <= attempt * MaxTries  BY <2>1, <2>2
    <2>4. attempt * MaxTries <= MaxAttempts * MaxTries
      <3>1. PICK d \in Nat : MaxAttempts = attempt + d
        <4>1. MaxAttempts - attempt \in Nat /\ MaxAttempts = attempt + (MaxAttempts - attempt)
          BY <2>1
        <4> QED  BY <4>1
      <3>2. (attempt + d) * MaxTries = attempt * MaxTries + d * MaxTries
            /\ d * MaxTries \in Nat /\ attempt * MaxTries \in Nat
        BY <2>1
      <3>3. attempt * MaxTries <= attempt * MaxTries + d * MaxTries  BY <3>2
      <3> QED  BY <3>1, <3>2, <3>3
    <2>5. attempt * MaxTries \in Nat /\ MaxAttempts * MaxTries \in Nat  BY <2>1
    <2> QED  BY <2>1, <2>3, <2>4, <2>5 DEF ApiCallsBounded
  <1> QED  BY <1>1, GraphHolds, PTL


\* A rule's confidence is a share, "0.0 to 1.0" (event_detection.py:8,
\* agent_state.py:160), whatever the transactions.
THEOREM ConfidencesAreShares ==
  \A h \in Histories, e \in EventNames : RuleConfidence(Summary(h))[e] \in 0..1000
  <1> SUFFICES ASSUME NEW h \in Histories, NEW e \in EventNames
               PROVE  RuleConfidence(Summary(h))[e] \in 0..1000
    OBVIOUS
  <1>1. h \in Seq(Transactions)  BY ConstantsAssumption
  <1>2. PICK s : s = Summary(h)  OBVIOUS
  <1>3. s.hospital \in Nat /\ s.savings \in Int  BY <1>1, <1>2, SummaryTyped
  <1>4. RuleConfidence(s)[e] \in 0..1000  BY <1>3, ConfidenceCases
  <1> QED  BY <1>2, <1>4

\* Two salary increases in three months are never counted, so a promotion is
\* only ever detected by a large credit together with a growth
\* (event_detection.py:159, transaction_intel.py:147).
THEOREM PromotionNeedsBonus ==
  \A h \in Histories :
    "promotion" \in Range(Detected(Summary(h))) =>
      Summary(h).large > 100 /\ Summary(h).salary.growth > 100
  <1> SUFFICES ASSUME NEW h \in Histories, "promotion" \in Range(Detected(Summary(h)))
               PROVE  Summary(h).large > 100 /\ Summary(h).salary.growth > 100
    OBVIOUS
  <1>1. h \in Seq(Transactions)  BY ConstantsAssumption
  <1>2. PICK s : s = Summary(h)  OBVIOUS
  <1>3. /\ s.hospital \in Nat /\ s.savings \in Int /\ s.salary.raises \in {0, 1}
    BY <1>1, <1>2, SummaryTyped
  <1>4. "promotion" \in Firing(s)  BY <1>2, DetectedLaw
  <1>5. "promotion" \in EventNames /\ RuleConfidence(s)["promotion"] > 0  BY <1>4 DEF Firing
  <1>6. PromotionRule(s) # 0
    <2>1. RuleConfidence(s)["promotion"] \in 0..1000
          /\ (RuleConfidence(s)["promotion"] # 0 => PromotionRule(s) # 0)
      BY <1>3, <1>5, ConfidenceCases
    <2> QED  BY <1>5, <2>1
  <1>7. s.salary.raises >= 2 \/ (s.large > 100 /\ s.salary.growth > 100)  BY <1>6, PromotionIs
  <1> QED  BY <1>2, <1>3, <1>7

LEMMA MedicalMinimum ==
  ASSUME NEW e \in EventNames, e = "medical"
  PROVE  MinConfidence[e] = 700
  <1>1. "medical" \notin {"foreign_education", "promotion"}
        /\ "medical" \notin {"business_expansion", "retirement_planning"}
    OBVIOUS
  <1> QED  BY <1>1 DEF MinConfidence

\* The medical rule fires from 50 000 on, but the confidence asked of it is one
\* that its formula reaches at 80 000 and not before: what is detected is every
\* customer with such an expense and nobody else (event_detection.py:200, 261).
THEOREM MedicalNeedsMore ==
  \A h \in Histories :
    "medical" \in Range(Detected(Summary(h))) <=> Summary(h).hospital >= 80
  <1> SUFFICES ASSUME NEW h \in Histories
               PROVE  "medical" \in Firing(Summary(h)) <=> Summary(h).hospital >= 80
    BY DetectedLaw
  <1>1. h \in Seq(Transactions)  BY ConstantsAssumption
  <1>2. PICK s : s = Summary(h)  OBVIOUS
  <1>3. PICK a \in Nat : a = s.hospital  BY <1>1, <1>2, SummaryTyped
  <1>4. PICK n \in Nat : n = 500 + (a * 5) \div 2
    <2>1. 500 + (a * 5) \div 2 \in Nat  OBVIOUS
    <2> QED  BY <2>1
  <1>5. PICK c \in 0..1000 : c = AtMostOne(n) /\ (c >= 700 <=> n >= 700)
    <2>1. AtMostOne(n) = IF n <= 1000 THEN n ELSE 1000  BY AtMostOneIs
    <2> QED  BY <2>1
  <1>6. MedicalRule(s) = IF a < 50 THEN 0 ELSE c  BY <1>3, <1>4, <1>5 DEF MedicalRule
  <1>7. n >= 700 <=> a >= 80  BY <1>4
  <1>8. "medical" \in EventNames
    <2>1. "medical" \in {"wedding", "home_purchase", "foreign_education", "promotion",
                         "business_expansion", "medical", "retirement_planning", "wealth_migration"}
      OBVIOUS
    <2> QED  BY <2>1, EventNamesAre
  <1>9. RuleConfidence(s)["medical"] = MedicalRule(s)  BY <1>8, ConfidenceIs
  <1>10. MinConfidence["medical"] = 700  BY <1>8, MedicalMinimum
  <1>11. "medical" \in Firing(s) <=> MedicalRule(s) > 0 /\ MedicalRule(s) >= 700
    BY <1>8, <1>9, <1>10 DEF Firing
  <1>12. MedicalRule(s) > 0 /\ MedicalRule(s) >= 700 <=> a >= 80  BY <1>5, <1>6, <1>7
  <1> QED  BY <1>2, <1>3, <1>11, <1>12

\* A confidence below 0.60 that is detected at all is that of a wedding or of
\* an education abroad; the others ask for more than they doubt.
LEMMA DoubtsAre ==
  ASSUME NEW h \in Seq(Transactions), NEW e \in Firing(Summary(h)),
         RuleConfidence(Summary(h))[e] < 600
  PROVE  e \in {"wedding", "foreign_education"}
  <1>1. PICK s : s = Summary(h)  OBVIOUS
  <1>2. s.hospital \in Nat /\ s.savings \in Int  BY <1>1, SummaryTyped
  <1>3. /\ e \in EventNames /\ RuleConfidence(s)[e] > 0
        /\ RuleConfidence(s)[e] >= MinConfidence[e] /\ RuleConfidence(s)[e] < 600
    BY <1>1 DEF Firing
  <1>4. /\ RuleConfidence(s)[e] \in 0..1000
        /\ RuleConfidence(s)[e] \in 1..599 => e \in {"wedding", "foreign_education", "medical"}
    BY <1>2, <1>3, ConfidenceCases
  <1>5. PICK c \in 0..1000 : c = RuleConfidence(s)[e]  BY <1>4, Zenon
  <1>6. c \in 1..599
    <2>1. c > 0 /\ c < 600  BY <1>3, <1>5, Zenon
    <2> QED  BY <2>1
  <1>7. e # "medical"
    <2>1. SUFFICES ASSUME e = "medical"  PROVE FALSE
      OBVIOUS
    <2>2. MinConfidence[e] = 700  BY <1>3, <2>1, MedicalMinimum
    <2> QED  BY <1>3, <1>5, <1>6, <2>2
  <1> QED  BY <1>4, <1>5, <1>6, <1>7

\* What a review is asked for: a customer at high risk whose events are all
\* weak signals of a wedding or of an education abroad.
ReviewIsForWeakSignals ==
  state.explanation = "manual_review_node" =>
    /\ state.events # <<>>
    /\ Range(state.events) \subseteq {"wedding", "foreign_education"}
    /\ Assessment(customer, history, TRUE).tier = "high"

\* The manual review of graph/router.py:41 is reached for weak weddings and
\* weak educations abroad only, and only at high risk: a failed assessment
\* asks for none.
THEOREM ReviewsAreForWeakSignals == Spec => []ReviewIsForWeakSignals
  <1>1. GraphInv /\ HandedInv => ReviewIsForWeakSignals
    <2> SUFFICES ASSUME GraphInv, HandedInv, state.explanation = "manual_review_node"
                 PROVE  /\ state.events # <<>>
                        /\ Range(state.events) \subseteq {"wedding", "foreign_education"}
                        /\ Assessment(customer, history, TRUE).tier = "high"
      BY DEF ReviewIsForWeakSignals
    <2>1. Reviewed(state) /\ state.risk \subseteq {Assessment(customer, history, TRUE)}
          /\ state.events \in {<<>>, Found}
      BY DEF HandedInv, Handed
    <2>2. /\ state.events # <<>> /\ state.events = Found /\ state.summary = {Summary(history)}
          /\ \E r \in state.risk : r.tier = "high"
      BY <2>1 DEF Reviewed
    <2>3. PICK h \in Seq(Transactions) : h = history
      BY ConstantsAssumption DEF GraphInv, Records
    <2>4. \A i \in DOMAIN state.events : RuleConfidence(Summary(h))[state.events[i]] < 600
      BY <2>1, <2>2, <2>3 DEF Reviewed, AllDoubtful
    <2>5. Range(state.events) = Firing(Summary(h))  BY <2>2, <2>3, DetectedLaw DEF Found
    <2>6. ASSUME NEW e \in Range(state.events)
          PROVE  e \in {"wedding", "foreign_education"}
      <3>1. PICK i \in DOMAIN state.events : e = state.events[i]  BY DEF Range
      <3>2. RuleConfidence(Summary(h))[e] < 600 /\ e \in Firing(Summary(h))  BY <2>4, <2>5, <3>1
      <3> QED  BY <3>2, DoubtsAre
    <2> QED  BY <2>1, <2>2, <2>6
  <1> QED  BY <1>1, GraphHolds, HandedHolds, PTL

\* A draft is for an event that the whole history shows, and for a product of
\* that event that the customer does not hold and that the assessment in the
\* state, if there is one, does not withhold.
DraftIsAnOffer ==
  \A q \in state.messages :
    \E e \in Firing(Summary(history)) :
      /\ q \in EventProducts(e) \ customer.holdings
      /\ \A r \in state.risk : Eligible(r) \/ q \notin GatedLoans

\* Whatever failed on the way and was retried, no draft is made of what an
\* agent left half done (opportunity_scoring.py:148-166, outreach_gen.py:53-57).
THEOREM DraftsAreOffers == Spec => []DraftIsAnOffer
  <1>1. ASSUME NEW events, NEW risk, NEW o \in Opportunities(customer, events, risk)
        PROVE  /\ o.event \in Range(events)
               /\ o.product \in EventProducts(o.event) \ customer.holdings
               /\ \A r \in risk : Eligible(r) \/ o.product \notin GatedLoans
    <2>1. /\ o.product \notin customer.holdings
          /\ \A r \in risk : Eligible(r) \/ o.product \notin GatedLoans
          /\ \E i \in DOMAIN events : \E q \in EventProducts(events[i]) :
               o = [event |-> events[i], product |-> q]
      BY DEF Opportunities
    <2>2. PICK i \in DOMAIN events : \E q \in EventProducts(events[i]) :
                                    o = [event |-> events[i], product |-> q]
      BY <2>1
    <2>3. o.event = events[i] /\ o.product \in EventProducts(events[i])  BY <2>2
    <2>4. events[i] \in Range(events)  BY DEF Range
    <2> QED  BY <2>1, <2>3, <2>4
  <1>2. HandedInv => DraftIsAnOffer
    <2> SUFFICES ASSUME HandedInv, NEW q \in state.messages
                 PROVE  \E e \in Firing(Summary(history)) :
                          /\ q \in EventProducts(e) \ customer.holdings
                          /\ \A r \in state.risk : Eligible(r) \/ q \notin GatedLoans
      BY DEF DraftIsAnOffer
    <2>1. /\ state.opportunities \in {{}, Opportunities(customer, Found, state.risk)}
          /\ \E o \in state.opportunities : q = o.product
      BY DEF HandedInv, Handed
    <2>2. PICK o \in state.opportunities : q = o.product  BY <2>1
    <2>3. o \in Opportunities(customer, Found, state.risk)  BY <2>1, <2>2
    <2>4. /\ o.event \in Range(Found)
          /\ o.product \in EventProducts(o.event) \ customer.holdings
          /\ \A r \in state.risk : Eligible(r) \/ o.product \notin GatedLoans
      BY <1>1, <2>3
    <2>5. Range(Found) = Firing(Summary(history))  BY DetectedLaw DEF Found
    <2> QED  BY <2>2, <2>4, <2>5
  <1> QED  BY <1>2, HandedHolds, PTL

==============================================================================

----------------------------- MODULE EventScoring -----------------------------
(***************************************************************************)
(* The two Celery jobs that turn transactions into opportunities: the      *)
(* 15-minute event scan and the nightly scoring, on one database and one   *)
(* feature cache, with the RM who dismisses what they propose.             *)
(*                                                                         *)
(*   services/workers/tasks/event_scan.py      run_event_scan              *)
(*   services/workers/tasks/daily_scoring.py   run_daily_scoring           *)
(*   services/ml/features/feature_store.py     rag:features:{customer}     *)
(*   services/ml/features/feature_pipeline.py  compute_features            *)
(*   services/orchestrator/tools/scoring_tools.py                          *)
(*   services/gateway/routers/customers.py     dismiss_opportunity         *)
(*                                                                         *)
(* A job goes through its customers with one database session, one awaited *)
(* call at a time.  An exception of one customer is caught and the job     *)
(* goes on to the next with that same session, which is never rolled back: *)
(* "fresh" is a session with no transaction under way, "open" one that has *)
(* a connection, and "broken" one whose transaction has failed, on which   *)
(* every later call raises.  Scores are abstracted to the feature vector   *)
(* they are computed from, and a vector to the events it counts.           *)
(***************************************************************************)
EXTENDS Naturals, Sequences, FiniteSets

CONSTANTS
  Customers,     \* customers with an account
  EventTypes,    \* life events the rule engine knows
  RuleOrder,     \* RuleOrder[e]: the place of e's rule in _RULES
  Confidence,    \* Confidence[e]: the confidence e is detected with
  Jobs,          \* messages on the events and scoring queues
  Scans,         \* those of them that are event scans; the rest are nightly
  Slots,         \* worker processes: how many jobs may run at once
  Blank,         \* a vector of defaults, left by a computation that failed
  NoVector,      \* no features cached
  Unknown,       \* event type of a customer without events
  NoCustomer,
  MaxRetries,    \* self.retry: 3 for a scan, 2 for the nightly scoring
  MaxFaults,     \* bound: failed calls and lost processes in a behaviour
  MaxDismissals  \* bound: opportunities an RM dismisses

ASSUME ConstantsAssumption ==
  /\ IsFiniteSet(Jobs)
  /\ Scans \subseteq Jobs
  /\ RuleOrder \in [EventTypes -> Nat]
  /\ Confidence \in [EventTypes -> Nat]
  /\ Slots \in Nat \ {0}
  /\ MaxRetries \in Nat
  /\ MaxFaults \in Nat
  /\ MaxDismissals \in Nat
  /\ Unknown \notin EventTypes
  /\ NoCustomer \notin Customers
  /\ Blank \notin Nat
  /\ NoVector \notin Nat \cup {Blank}

VARIABLES
  signals,    \* signals[c]: events whose rules fire on c's last 90 days
  recent,     \* customers with a transaction in the scan window
  events,     \* events[c]: event types of c's rows of detected_events
  opps,       \* opps[c]: c's rows of opportunities
  feats,      \* feats[c]: Redis rag:features:{c}
  job,        \* job[j]: the Celery message
  ex,         \* ex[j]: the locals of the job's execution
  faults,     \* calls that failed and processes that were lost so far
  dismissals  \* opportunities dismissed so far

db == <<signals, recent, events, opps>>
vars == <<signals, recent, events, opps, feats, job, ex, faults, dismissals>>

------------------------------------------------------------------------------
(* Data.                                                                   *)

Vectors == Nat \cup {Blank}

\* compute_features: feature 6 counts the customer's recent events.
Features(c) == Len(events[c])

HasEvent(c, e) == \E i \in DOMAIN events[c] : events[c][i] = e

NewOpps(c) == {i \in DOMAIN opps[c] : opps[c][i].status = "NEW"}

\* The not yet actioned event of highest confidence; no code marks an event
\* as actioned, so all of the customer's events are candidates.
TopEvents(c) ==
  {e \in EventTypes : /\ HasEvent(c, e)
                      /\ \A f \in EventTypes : HasEvent(c, f) => Confidence[f] <= Confidence[e]}

IdleJob ==
  [pc |-> "idle", todo |-> {}, cust |-> NoCustomer, found |-> {}, ev |-> Unknown,
   use |-> "load", made |-> NoVector, vec |-> NoVector, top |-> Unknown, opp |-> 0, session |-> "fresh"]

Init ==
  /\ signals = [c \in Customers |-> {}]
  /\ recent = {}
  /\ events = [c \in Customers |-> <<>>]
  /\ opps = [c \in Customers |-> <<>>]
  /\ feats = [c \in Customers |-> NoVector]
  /\ job = [j \in Jobs |-> [status |-> "queued", retries |-> 0]]
  /\ ex = [j \in Jobs |-> IdleJob]
  /\ faults = 0
  /\ dismissals = 0

Running == {j \in Jobs : ex[j].pc # "idle"}

------------------------------------------------------------------------------
(* A call that fails.                                                      *)

Fault ==
  /\ faults < MaxFaults
  /\ faults' = faults + 1

\* What a session may be after a statement on it failed: without a
\* transaction it may be the connection that failed, and nothing is spoilt.
AfterFailure(s) == IF s = "fresh" THEN {"fresh", "broken"} ELSE {"broken"}

\* The loop over the customers logs the exception and goes on.
GiveUp(j, s) ==
  ex' = [ex EXCEPT ![j] = [IdleJob EXCEPT !.pc = "pick", !.todo = ex[j].todo,
                                          !.session = s]]

\* The exception reaches the task, which calls self.retry.
RetryOrFail(j) ==
  /\ ex' = [ex EXCEPT ![j] = IdleJob]
  /\ job' = [job EXCEPT ![j] =
       IF job[j].retries < MaxRetries
       THEN [status |-> "queued", retries |-> job[j].retries + 1]
       ELSE [status |-> "failed", retries |-> job[j].retries]]

\* The database calls made for one customer.
DbCalls == {"detect", "check", "insert", "event", "select", "upsert"}

\* A database call for a customer raises, always so on a broken session.
CustomerFails(j) ==
  /\ ex[j].pc \in DbCalls
  /\ \/ /\ ex[j].session = "broken"
        /\ GiveUp(j, "broken")
        /\ UNCHANGED faults
     \/ /\ ex[j].session # "broken"
        /\ Fault
        /\ \E s \in AfterFailure(ex[j].session) : GiveUp(j, s)
  /\ UNCHANGED <<signals, recent, events, opps, feats, job, dismissals>>

------------------------------------------------------------------------------
(* A job's execution: its start and its customers.                         *)

\* A worker process takes the message; the nightly job first deletes every
\* cached vector (KEYS and DEL as one step), unless Redis fails.
Start(j) ==
  /\ job[j].status = "queued"
  /\ Cardinality(Running) < Slots
  /\ job' = [job EXCEPT ![j].status = "running"]
  /\ ex' = [ex EXCEPT ![j] = [IdleJob EXCEPT !.pc = "fetch"]]
  /\ \/ /\ feats' = IF j \in Scans THEN feats ELSE [c \in Customers |-> NoVector]
        /\ UNCHANGED faults
     \/ /\ j \notin Scans
        /\ Fault
        /\ UNCHANGED feats
  /\ UNCHANGED <<db, dismissals>>

\* The customers with new transactions, or all of them.
Fetch(j) ==
  /\ ex[j].pc = "fetch"
  /\ ex' = [ex EXCEPT ![j].pc = "pick", ![j].session = "open",
                      ![j].todo = IF j \in Scans THEN recent ELSE Customers]
  /\ UNCHANGED <<db, feats, job, faults, dismissals>>

\* An exception leaves the loop over the customers: the first query failed,
\* or the soft time limit struck.
JobFails(j) ==
  /\ ex[j].pc # "idle"
  /\ Fault
  /\ RetryOrFail(j)
  /\ UNCHANGED <<db, feats, dismissals>>

\* Mutant: the loop never gets past a customer.
MutantPickAgain(j, c) ==
  /\ ex[j].pc = "pick"
  /\ c \in ex[j].todo
  /\ ex' = [ex EXCEPT ![j].cust = c, ![j].pc = IF j \in Scans THEN "detect" ELSE "get"]
  /\ UNCHANGED <<db, feats, job, faults, dismissals>>

\* The next customer of the loop.
Pick(j, c) ==
  /\ ex[j].pc = "pick"
  /\ c \in ex[j].todo
  /\ ex' = [ex EXCEPT ![j].todo = @ \ {c}, ![j].cust = c,
                      ![j].pc = IF j \in Scans THEN "detect" ELSE "get"]
  /\ UNCHANGED <<db, feats, job, faults, dismissals>>

\* No customer is left: the nightly job writes the priority queues to
\* Redis, where an exception makes the whole job retry.
Finish(j) ==
  /\ ex[j].pc = "pick"
  /\ ex[j].todo = {}
  /\ \/ /\ ex' = [ex EXCEPT ![j] = IdleJob]
        /\ job' = [job EXCEPT ![j].status = "done"]
        /\ UNCHANGED faults
     \/ /\ j \notin Scans
        /\ Fault
        /\ RetryOrFail(j)
  /\ UNCHANGED <<db, feats, dismissals>>

------------------------------------------------------------------------------
(* event_scan._process_customer.                                           *)

\* Read the transactions, run the rules, read the RM.
Detect(j) ==
  /\ ex[j].pc = "detect"
  /\ ex[j].session # "broken"
  /\ ex' = [ex EXCEPT ![j].pc = "check", ![j].session = "open",
                      ![j].found = signals[ex[j].cust]]
  /\ UNCHANGED <<db, feats, job, faults, dismissals>>

\* Every detected event has been seen to.
ScanNext(j) ==
  /\ ex[j].pc = "check"
  /\ ex[j].found = {}
  /\ GiveUp(j, ex[j].session)
  /\ UNCHANGED <<db, feats, job, faults, dismissals>>

\* The detected events whose turn it is.
FirstFound(j) ==
  {e \in ex[j].found : \A f \in ex[j].found : RuleOrder[e] <= RuleOrder[f]}

\* Mutant: a known event is inserted again.
MutantNoCheck(j) ==
  /\ ex[j].pc = "check"
  /\ ex[j].session # "broken"
  /\ \E e \in FirstFound(j) :
       ex' = [ex EXCEPT ![j].session = "open", ![j].found = @ \ {e},
                        ![j].ev = e, ![j].pc = "insert"]
  /\ UNCHANGED <<db, feats, job, faults, dismissals>>

\* Is there a row for the event already?
CheckEvent(j) ==
  /\ ex[j].pc = "check"
  /\ ex[j].session # "broken"
  /\ \E e \in FirstFound(j) :
       ex' = [ex EXCEPT ![j].session = "open", ![j].found = @ \ {e}, ![j].ev = e,
                        ![j].pc = IF HasEvent(ex[j].cust, e) THEN "check" ELSE "insert"]
  /\ UNCHANGED <<db, feats, job, faults, dismissals>>

\* Mutant: the customer is not scored again.
MutantInsertOnly(j) ==
  /\ ex[j].pc = "insert"
  /\ ex[j].session # "broken"
  /\ events' = [events EXCEPT ![ex[j].cust] = Append(@, ex[j].ev)]
  /\ ex' = [ex EXCEPT ![j].pc = "check", ![j].session = "fresh"]
  /\ UNCHANGED <<signals, recent, opps, feats, job, faults, dismissals>>

\* INSERT the event and COMMIT.
InsertEvent(j) ==
  /\ ex[j].pc = "insert"
  /\ ex[j].session # "broken"
  /\ events' = [events EXCEPT ![ex[j].cust] = Append(@, ex[j].ev)]
  /\ ex' = [ex EXCEPT ![j].pc = "invalidate", ![j].session = "fresh"]
  /\ UNCHANGED <<signals, recent, opps, feats, job, faults, dismissals>>

\* The commit took place and its answer was lost.
InsertUnanswered(j) ==
  /\ ex[j].pc = "insert"
  /\ ex[j].session # "broken"
  /\ Fault
  /\ events' = [events EXCEPT ![ex[j].cust] = Append(@, ex[j].ev)]
  /\ GiveUp(j, "broken")
  /\ UNCHANGED <<signals, recent, opps, feats, job, dismissals>>

\* invalidate_features, which swallows an exception of Redis.
Invalidate(j) ==
  /\ ex[j].pc = "invalidate"
  /\ \/ /\ feats' = [feats EXCEPT ![ex[j].cust] = NoVector]
        /\ UNCHANGED faults
     \/ /\ Fault
        /\ UNCHANGED feats
  /\ ex' = [ex EXCEPT ![j].pc = "get"]
  /\ UNCHANGED <<db, job, dismissals>>

\* DEL priority_queue:{rm}, the one call to Redis of a scan that may raise.
ClearQueue(j) ==
  /\ ex[j].pc = "queue"
  /\ \/ /\ ex' = [ex EXCEPT ![j].pc = "check"]
        /\ UNCHANGED faults
     \/ /\ Fault
        /\ GiveUp(j, ex[j].session)
  /\ UNCHANGED <<db, feats, job, dismissals>>

------------------------------------------------------------------------------
(* daily_scoring._score_customer.                                          *)

\* Mutant: the vector does not reach the conversion model.
MutantLoadedForgets(x, v) ==
  CASE x.use = "load" -> [x EXCEPT !.pc = "event"]
    [] x.use = "conversion" -> [x EXCEPT !.pc = "get", !.use = "churn"]
    [] x.use = "churn" -> [x EXCEPT !.pc = "select"]

\* get_or_compute_features returns: the first call's vector is not used, the
\* second's goes to the conversion model, the third's to the churn model.
Loaded(x, v) ==
  CASE x.use = "load" -> [x EXCEPT !.pc = "event"]
    [] x.use = "conversion" -> [x EXCEPT !.pc = "get", !.use = "churn", !.vec = v]
    [] x.use = "churn" -> [x EXCEPT !.pc = "select"]

\* GET the cached vector; an exception of Redis counts as a miss.
GetFeatures(j) ==
  LET v == feats[ex[j].cust] IN
  /\ ex[j].pc = "get"
  /\ \/ /\ v # NoVector
        /\ ex' = [ex EXCEPT ![j] = Loaded(ex[j], v)]
        /\ UNCHANGED faults
     \/ /\ IF v = NoVector THEN UNCHANGED faults ELSE Fault
        /\ ex' = [ex EXCEPT ![j].pc = "compute"]
  /\ UNCHANGED <<db, feats, job, dismissals>>

\* compute_features reads the database.
ComputeFeatures(j) ==
  /\ ex[j].pc = "compute"
  /\ ex[j].session # "broken"
  /\ ex' = [ex EXCEPT ![j].pc = "cache", ![j].session = "open",
                      ![j].made = Features(ex[j].cust)]
  /\ UNCHANGED <<db, feats, job, faults, dismissals>>

\* A query of compute_features raises: it returns the defaults.
ComputeBlank(j) ==
  /\ ex[j].pc = "compute"
  /\ \/ /\ ex[j].session = "broken"
        /\ ex' = [ex EXCEPT ![j].pc = "cache", ![j].made = Blank]
        /\ UNCHANGED faults
     \/ /\ ex[j].session # "broken"
        /\ Fault
        /\ \E s \in AfterFailure(ex[j].session) :
             ex' = [ex EXCEPT ![j].pc = "cache", ![j].made = Blank, ![j].session = s]
  /\ UNCHANGED <<db, feats, job, dismissals>>

\* SETEX the vector, which swallows an exception of Redis.
CacheFeatures(j) ==
  /\ ex[j].pc = "cache"
  /\ \/ /\ feats' = [feats EXCEPT ![ex[j].cust] = ex[j].made]
        /\ UNCHANGED faults
     \/ /\ Fault
        /\ UNCHANGED feats
  /\ ex' = [ex EXCEPT ![j] = Loaded(ex[j], ex[j].made)]
  /\ UNCHANGED <<db, job, dismissals>>

\* The event to score for.
ReadTopEvent(j) ==
  LET c == ex[j].cust IN
  /\ ex[j].pc = "event"
  /\ ex[j].session # "broken"
  /\ \E e \in IF events[c] = <<>> THEN {Unknown} ELSE TopEvents(c) :
       ex' = [ex EXCEPT ![j].pc = "get", ![j].use = "conversion", ![j].top = e,
                        ![j].session = "open"]
  /\ UNCHANGED <<db, feats, job, faults, dismissals>>

\* Read the RM, then look for an active opportunity of the customer.
SelectOpp(j) ==
  LET new == NewOpps(ex[j].cust) IN
  /\ ex[j].pc = "select"
  /\ ex[j].session # "broken"
  /\ \E i \in IF new = {} THEN {0} ELSE new :
       ex' = [ex EXCEPT ![j].pc = "upsert", ![j].opp = i, ![j].session = "open"]
  /\ UNCHANGED <<db, feats, job, faults, dismissals>>

\* Mutant: an update sets every column, the status too.
MutantUpsertedWholeRow(j) ==
  LET c == ex[j].cust
      i == ex[j].opp
      x == [status |-> "NEW", product |-> ex[j].top, vec |-> ex[j].vec]
  IN IF i = 0 THEN Append(opps[c], x) ELSE [opps[c] EXCEPT ![i] = x]

\* Mutant: a row is inserted although there is an active one.
MutantUpsertedAnyway(j) ==
  Append(opps[ex[j].cust], [status |-> "NEW", product |-> ex[j].top, vec |-> ex[j].vec])

\* What _upsert_opportunity makes of the customer's rows: a new one, or new
\* scores in the one that was found.
Upserted(j) ==
  LET c == ex[j].cust
      i == ex[j].opp
  IN IF i = 0
     THEN Append(opps[c], [status |-> "NEW", product |-> ex[j].top, vec |-> ex[j].vec])
     ELSE [opps[c] EXCEPT ![i].vec = ex[j].vec]

\* INSERT or UPDATE, and COMMIT; then the scan clears the RM's queue, and
\* the nightly job goes on.
Upsert(j) ==
  /\ ex[j].pc = "upsert"
  /\ ex[j].session # "broken"
  /\ opps' = [opps EXCEPT ![ex[j].cust] = Upserted(j)]
  /\ IF j \in Scans
     THEN ex' = [ex EXCEPT ![j].pc = "queue", ![j].use = "load", ![j].opp = 0,
                           ![j].top = Unknown, ![j].session = "fresh",
                           ![j].made = NoVector, ![j].vec = NoVector]
     ELSE GiveUp(j, "fresh")
  /\ UNCHANGED <<signals, recent, events, feats, job, faults, dismissals>>

\* The commit took place and its answer was lost.
UpsertUnanswered(j) ==
  /\ ex[j].pc = "upsert"
  /\ ex[j].session # "broken"
  /\ Fault
  /\ opps' = [opps EXCEPT ![ex[j].cust] = Upserted(j)]
  /\ GiveUp(j, "broken")
  /\ UNCHANGED <<signals, recent, events, feats, job, dismissals>>

------------------------------------------------------------------------------
(* What else happens.                                                      *)

\* The hard time limit ends an execution and acknowledges its message.
TimeLimit(j) ==
  /\ ex[j].pc # "idle"
  /\ Fault
  /\ ex' = [ex EXCEPT ![j] = IdleJob]
  /\ job' = [job EXCEPT ![j].status = "killed"]
  /\ UNCHANGED <<db, feats, dismissals>>

\* The process is lost, and the message is delivered again.
LoseWorker(j) ==
  /\ ex[j].pc # "idle"
  /\ Fault
  /\ ex' = [ex EXCEPT ![j] = IdleJob]
  /\ job' = [job EXCEPT ![j].status = "queued"]
  /\ UNCHANGED <<db, feats, dismissals>>

\* Transactions of a customer come in that make the rule of e fire.
Transact(c, e) ==
  /\ e \notin signals[c]
  /\ signals' = [signals EXCEPT ![c] = @ \cup {e}]
  /\ recent' = recent \cup {c}
  /\ UNCHANGED <<events, opps, feats, job, ex, faults, dismissals>>

\* The transactions of a customer are no longer in the scan window.
LeaveWindow(c) ==
  /\ c \in recent
  /\ recent' = recent \ {c}
  /\ UNCHANGED <<signals, events, opps, feats, job, ex, faults, dismissals>>

\* The feature cache's TTL runs out.
Expire(c) ==
  /\ feats[c] # NoVector
  /\ feats' = [feats EXCEPT ![c] = NoVector]
  /\ UNCHANGED <<db, job, ex, faults, dismissals>>

\* POST .../dismiss: an RM dismisses an opportunity that is not dismissed.
Dismiss(c, i) ==
  /\ dismissals < MaxDismissals
  /\ opps[c][i].status # "DISMISSED"
  /\ opps' = [opps EXCEPT ![c][i].status = "DISMISSED"]
  /\ dismissals' = dismissals + 1
  /\ UNCHANGED <<signals, recent, events, feats, job, ex, faults>>

------------------------------------------------------------------------------
\* The execution of j goes on to its next await, or to the next customer.
Advance(j) ==
  \/ Fetch(j)
  \/ \E c \in Customers : Pick(j, c)
  \/ Finish(j)
  \/ Detect(j)
  \/ ScanNext(j)
  \/ CheckEvent(j)
  \/ InsertEvent(j)
  \/ Invalidate(j)
  \/ ClearQueue(j)
  \/ GetFeatures(j)
  \/ ComputeFeatures(j)
  \/ ComputeBlank(j)
  \/ CacheFeatures(j)
  \/ ReadTopEvent(j)
  \/ SelectOpp(j)
  \/ Upsert(j)
  \/ CustomerFails(j)

Disturb(j) ==
  \/ JobFails(j)
  \/ InsertUnanswered(j)
  \/ UpsertUnanswered(j)
  \/ TimeLimit(j)
  \/ LoseWorker(j)

Environment ==
  \E c \in Customers :
    \/ \E e \in EventTypes : Transact(c, e)
    \/ LeaveWindow(c)
    \/ Expire(c)
    \/ \E i \in DOMAIN opps[c] : Dismiss(c, i)

Next ==
  \/ \E j \in Jobs : Start(j) \/ Advance(j) \/ Disturb(j)
  \/ Environment

Spec == Init /\ [][Next]_vars

\* Celery keeps delivering queued messages and a running job keeps running;
\* nothing obliges transactions to come, an RM to act or a call to fail.
Fairness == \A j \in Jobs : WF_vars(Start(j)) /\ WF_vars(Advance(j))

FairSpec == Spec /\ Fairness

------------------------------------------------------------------------------
(* Properties.                                                             *)

JobPcs == {"idle", "fetch", "pick", "detect", "check", "insert", "invalidate",
           "get", "compute", "cache", "event", "select", "upsert", "queue"}

OppType == [status : {"NEW", "DISMISSED"}, product : EventTypes \cup {Unknown},
            vec : Vectors]

JobType ==
  [status : {"queued", "running", "done", "failed", "killed"}, retries : 0..MaxRetries]

ExecutionType ==
  [pc : JobPcs, todo : SUBSET Customers, cust : Customers \cup {NoCustomer},
   found : SUBSET EventTypes, ev : EventTypes \cup {Unknown},
   use : {"load", "conversion", "churn"}, made : Vectors \cup {NoVector},
   vec : Vectors \cup {NoVector}, top : EventTypes \cup {Unknown}, opp : Nat,
   session : {"fresh", "open", "broken"}]

DataTyped ==
  /\ signals \in [Customers -> SUBSET EventTypes]
  /\ recent \subseteq Customers
  /\ events \in [Customers -> Seq(EventTypes)]
  /\ opps \in [Customers -> Seq(OppType)]
  /\ feats \in [Customers -> Vectors \cup {NoVector}]
  /\ faults \in 0..MaxFaults
  /\ dismissals \in 0..MaxDismissals

\* An execution at work on a customer knows which, and one that is to update
\* an opportunity points at a row of that customer.
ExecutionTyped(j) ==
  /\ ex[j].pc # "idle" <=> job[j].status = "running"
  /\ ex[j].pc \notin {"idle", "fetch", "pick"} => ex[j].cust \in Customers
  /\ ex[j].pc = "insert" => ex[j].ev \in EventTypes
  /\ ex[j].pc = "cache" => ex[j].made \in Vectors
  /\ ex[j].use = "churn" \/ ex[j].pc \in {"select", "upsert"} => ex[j].vec \in Vectors
  /\ ex[j].pc = "upsert" => ex[j].opp \in 0..Len(opps[ex[j].cust])

JobsTyped ==
  /\ job \in [Jobs -> JobType]
  /\ ex \in [Jobs -> ExecutionType]
  /\ \A j \in Jobs : ExecutionTyped(j)

\* Type invariant: the rows, the cache, the messages and the executions.
TypeOK == DataTyped /\ JobsTyped

\* Executions about to insert an opportunity for c, or the event e of c.
InsertingOpp(c) == {j \in Jobs : ex[j].pc = "upsert" /\ ex[j].cust = c /\ ex[j].opp = 0}
InsertingEvent(c, e) == {j \in Jobs : ex[j].pc = "insert" /\ ex[j].cust = c /\ ex[j].ev = e}

\* _upsert_opportunity looks for an active opportunity and then inserts one,
\* and no key stands in the way, so a customer can have two; but never more
\* than there are worker processes, however many jobs, retries and
\* redeliveries go over the customer.
NewOpportunitiesBounded ==
  \A c \in Customers : Cardinality(NewOpps(c)) + Cardinality(InsertingOpp(c)) <= Slots

\* The same for the rows of one event.
EventRowsBounded ==
  \A c \in Customers, e \in EventTypes :
    Cardinality({i \in DOMAIN events[c] : events[c][i] = e})
      + Cardinality(InsertingEvent(c, e)) <= Slots

\* A detected event triggers a re-scoring of its customer (event_scan.py:15):
\* unless a call failed, a customer with an event has an opportunity, or an
\* execution is still at work on the customer.
DetectedEventIsScored ==
  \A c \in Customers :
    events[c] # <<>> /\ faults = 0 =>
      opps[c] # <<>> \/ \E j \in Jobs : ex[j].cust = c

\* A dismissed opportunity stays dismissed, and its product is not changed,
\* although jobs that had found it active still write to it.
DismissedStaysDismissed ==
  [][\A c \in Customers : \A i \in DOMAIN opps[c] :
       opps[c][i].status = "DISMISSED" =>
         /\ i \in DOMAIN opps'[c]
         /\ opps'[c][i].status = "DISMISSED"
         /\ opps'[c][i].product = opps[c][i].product]_vars

\* Every message is eventually settled: a job gets through its customers
\* whatever fails for them, and its retries are finite.
EveryJobSettles ==
  \A j \in Jobs : job[j].status = "queued" ~> job[j].status \in {"done", "failed", "killed"}

==============================================================================

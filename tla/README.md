# Agentic Banking CRM: TLA+ models and proofs

These modules model the parts of the CRM where several processes meet: the FastAPI
gateway, the Celery workers, PostgreSQL, Redis, the messaging providers and their
webhooks. TLC checks the models on small instances and TLAPS proves the theorems of
section 6 for every value of the constants. File and line references are to the
repository.

## 1. The system

### Components, state and operations

| Component | State | Operations | What makes it correct |
|---|---|---|---|
| Outreach gateway (`gateway/routers/outreach.py`) | `outreach_campaigns` rows; Redis `outreach:list:*` | draft (JSON or SSE stream), approve, status, list | an RM approves before anything is sent; an approval never undoes a send or a receipt; drafts of one channel survive the failure of another |
| Outreach dispatch (`workers/tasks/outreach_dispatch.py`) | one Celery task per approval, its retries; the row; the PII vault; the rate counters | load, `can_send`, tokenise, send, record, count | only approved text goes out, to the right person; duplicates are bounded; the record tells the truth |
| Compliance (`notifications/compliance.py`) | `dnd_registry`; Redis `rate_limit:{channel}:{id}:{date}` | `can_send`, `increment_rate_limit` | an opt-out stops messages; the daily limit holds, up to a known overshoot |
| PII vault (`gateway/middleware/pii_mask.py`) | Redis `pii_vault:{session}` with a TTL | `store_vault`, `load_vault`, `mask_text`, `unmask_text` | a token resolves to what it was made for or to nothing |
| Providers (`notifications/providers/*`) | none of their own | `send_whatsapp`, `send_sms`, `send_email` | what the RM approved is what is delivered |
| Delivery tracker (`notifications/tracker.py`, `routers/webhooks.py`) | timestamps of the row | `process_delivery_receipt` | receipts in any order climb the funnel and never fall back |
| Customer endpoints (`routers/customers.py`) | Redis `priority_queue:*`, `customer_profile:*`, `customer_opps:*` | priority queue, profile, opportunities, dismiss | a read after a write that invalidated its key is not older than that write |
| Nightly scoring and event scan (`workers/tasks/daily_scoring.py`, `event_scan.py`) | `opportunities`, `detected_events`, Redis | detect, deduplicate, score, upsert, invalidate | no event or NEW opportunity twice; one customer's failure does not affect another's; an event leads to a score |
| Feature store (`ml/features/feature_store.py`) | Redis `rag:features:{customer}` | get, compute and cache, invalidate | an invalidation is not undone by an older fill |
| Embedding sync (`workers/tasks/embedding_sync.py`, `rag/ingestion/*`) | `embeddings` rows | chunk, hash, embed, insert in batches | each chunk once; the reported counts are those of the rows |
| Retrieval (`rag/retrieval/*`) | Redis re-ranking cache | dense and sparse search, fusion, re-rank, context | fusion ranks as RRF defines; the context stays in its budget |
| Scoring graph and `BaseAgent` (`orchestrator/graph/*`, `orchestrator/agents/*`) | one `CRMState` per run | agents in sequence with two routes, retries, timeouts | the graph ends; a failed agent is recorded and does not pass as success |
| LLM router, output parser (`orchestrator/llm/*`) | none | model fallback, parse, self-correct | a malformed answer is corrected or reported |
| Copilot chat (`routers/chat.py`) | token queue, session | SSE stream fed by an agent task | no token lost or repeated, one final event |
| Celery configuration (`workers/celery_app.py`, `beat_schedule.py`) | queues | late acknowledgement, limits, schedule | a task is settled once in spite of redelivery |
| Rate limiter, audit, auth (`gateway/middleware/*`) | Redis counters | per-minute limit | at most N calls a minute (inactive: `request.state.rm_id` is never set) |

The remaining parts are listed in section 8 and in `PROJECT.json`, with the reason why they
are not modelled.

### How they interact

    RM -> gateway: approve --(commit row)--> PostgreSQL
                   gateway --dispatch_campaign.delay--> Celery queue
    Celery -> worker: load row -> DND (PostgreSQL) -> counter (Redis)
              -> vault GET, GET, SETEX (Redis) -> provider: vault GET, unmask, POST
              -> commit row -> counter INCR
    provider -> gateway webhook: receipt -> row
    beat -> event_scan, daily_scoring -> scoring graph -> opportunities, caches
    gateway reads <- Redis read-through caches <- PostgreSQL

The gateway and the workers share only PostgreSQL rows and Redis keys. Each handler is an
asyncio coroutine with its own database session, so it can be overtaken at every `await`.
SQLAlchemy writes back only the columns a handler assigned, which is what keeps a stale
row from erasing a newer one.

### Hard behaviours

* Interleaving: two approvals of a campaign, two workers on one vault, read-through fills
  that race with invalidations, two scans of one customer.
* Check-then-act with awaits between: `sent_at`, the daily counter, the vault's
  read-modify-write, event and opportunity deduplication.
* Retries and redelivery: `self.retry` on any exception, redelivery when a process is lost
  (`acks_late`), the hard time limit that acknowledges instead.
* Lost answers: the provider took the message and the worker cannot know.
* Ordering: receipts repeated, out of order, or before the id they name is recorded.
* Partial failure: a batch, a customer or a channel fails among others.

`PROJECT.json` lists each of these at its line under `hazards`, with the properties that
cover it or the reason why none can.

## 2. Modules

| Module | What it is |
|---|---|
| `OutreachLifecycle` | The abstract specification: a campaign goes draft, approved, accepted, and its status climbs `pending < sent < delivered < opened < converted`. |
| `OutreachDispatch` | The core: approve endpoint, Celery queue, dispatch worker, compliance, vault, providers, receipts. Implements `OutreachLifecycle`. |
| `MCOutreachDispatch` | Instances of it for TLC. |
| `OutreachDispatchProofs` | Theorems about it: types, approval, the funnel. |
| `OutreachDeliveryProofs` | More of them, on those: counts of messages, outcomes, limits, recipients, opt-outs, and the refinement of `OutreachLifecycle`. |
| `EventScoring` | The event scan and the nightly scoring on one database and one feature cache, with the RM who dismisses opportunities. |
| `MCEventScoring` | Instances of it for TLC. |
| `EventScoringProofs` | Theorems about it. |
| `LifeEvents` | What the deterministic agents compute: a customer's summary, the events, the risk, the opportunities, the products. Operators only. |
| `ScoringGraph` | One run of the graph: agents, routes, nested retries. Uses `LifeEvents`. |
| `ReadCaches` | The read-through caches of the gateway and those who write behind them. |
| `DraftOutcome` | The abstract specification of a request for drafts: per channel pending, saved, told, or pending, failed. |
| `DraftStream` | Drafting: a task per channel, the merged queue, the response, and the blocking call. Implements `DraftOutcome`. |
| `CopilotChat` | One question to the copilot: the response's polling loop and the agent behind it. |
| `RagAlgorithms` | The chunker, rank fusion and the context budget. Operators only. |
| `KnowledgeBase` | The embedding sync and the search on one table. Uses `RagAlgorithms`. |
| `ReadCachesProofs`, `DraftStreamProofs`, `CopilotChatProofs`, `KnowledgeBaseProofs`, `ScoringGraphProofs` | Theorems about them. |
| `MC...` | Instances for TLC. |

The components are checked one by one, since they share little: the dispatch path reads the
opportunity it was made for and writes none; what the jobs of `EventScoring` do to the
caches of the gateway is an action of `ReadCaches`, which keeps no more of a job than that;
a draft becomes the campaign of `OutreachDispatch` once it is saved.

### OutreachDispatch against the code

| State | Code |
|---|---|
| `row[c]` | `message_body`, `session_id`, `sent_at`, `provider_message_id`, `delivered_at`, `opened_at`, `converted_at` of `outreach_campaigns`; a timestamp is a boolean, whether it is set |
| `req[r]` | the locals of one call of `approve_outreach`, and the await it is at |
| `task[t]` | the Celery message a call queued: `queued`, `running`, or how it ended; `retries` is `request.retries`, `lost` the times its process was lost |
| `wk[w]` | the locals of `_dispatch_async` and the await it is at |
| `vault[s]` | `pii_vault:{s}`; a token is its kind and its number |
| `rate`, `dnd`, `day` | the Redis counters, `dnd_registry`, the UTC date |
| `outbox`, `approved` | history: what the providers took, and what RMs confirmed |

| Action | Code |
|---|---|
| `ApproveRefused`, `ApproveSelect`, `ApproveCommit`, `ApproveQueue` | `approve_outreach`: the 409, the read, the commit, `delay` |
| `Load`, `LoadNoContact` | step 1: take the task and read campaign, opportunity, customer |
| `CheckDND`, `CheckRate` | step 2: the two reads of `can_send` |
| `LoadVault`, `StoreGet`, `StoreSet` | step 3: `load_vault`, then the GET and the SETEX of `store_vault` |
| `Unmask`, `Post`, `PostUnanswered` | step 4: the provider unmasks and posts; its answer comes or does not |
| `Commit`, `Increment` | steps 5 and 6 |
| `Raise`, `RetryOrFail`, `LoseWorker`, `TimeLimit` | an exception and `self.retry`; redelivery after a lost process; the hard limit |
| `Receipt`, `OptOut`, `Expire`, `NextDay` | webhook, DND registry, vault TTL, midnight |

A message text, a contact and a session are model values. The id of a message is its place
in `outbox`, so ids are unique, as the providers' are. The wording, the parsing of the
providers' payloads, logging and authentication are left out, and so is the deletion of
the `outreach:list` keys by an approval, which is a step of `ReadCaches`.

### EventScoring against the code

| State | Code |
|---|---|
| `signals[c]`, `recent` | the transactions of 90 days, as the events whose rules fire with the confidence the scan asks for; the customers with a transaction in the last 20 minutes |
| `events[c]`, `opps[c]` | the rows of `detected_events` and `opportunities` |
| `feats[c]` | `rag:features:{c}`; a vector is the number of the customer's events it counts, or `Blank`, the zeros of a computation that failed |
| `job[j]`, `ex[j]` | a Celery message of one of the two tasks, and the locals of its execution; `session` is `fresh` (no transaction), `open`, or `broken` (its transaction failed and nobody rolls back) |

| Action | Code |
|---|---|
| `Start`, `Fetch`, `Pick`, `Finish` | a worker takes the message (the nightly job deletes every vector); the query for the customers; the loop; the return, with the nightly job's write of the queues |
| `Detect`, `CheckEvent`, `InsertEvent`, `Invalidate`, `ClearQueue`, `ScanNext` | `_process_customer`: transactions and rules; is there a row; insert and commit; `invalidate_features`; the DEL of the RM's queue; the end |
| `GetFeatures`, `ComputeFeatures`, `ComputeBlank`, `CacheFeatures` | `get_or_compute_features`, called three times for a customer: before the event is read (its vector is not used), for the conversion model and for the churn model (`use`) |
| `ReadTopEvent`, `SelectOpp`, `Upsert` | `_score_customer` and `_upsert_opportunity` |
| `CustomerFails` | an exception of one customer: caught, and the loop goes on with the session as it is |
| `JobFails`, `RetryOrFail` | an exception outside the loop, or the soft time limit: `self.retry` |
| `InsertUnanswered`, `UpsertUnanswered` | a commit whose answer is lost |
| `TimeLimit`, `LoseWorker` | the hard limit, acknowledged; a lost process, redelivered |
| `Transact`, `LeaveWindow`, `Expire`, `Dismiss` | transactions come and age, the cache's TTL, `dismiss_opportunity` |

Left out: the score's arithmetic, the notification published to the RM (it changes no
state and its failure is swallowed), the `priority_queue` keys (`ReadCaches`), and the age of
an event row.

### ScoringGraph and LifeEvents against the code

| State | Code |
|---|---|
| `history`, `customer` | the transactions of six months, `customers` and `customer_profiles` of one customer; amounts are thousands of rupees, shares per mille |
| `node`, `attempt` | the node LangGraph is at, and the attempt of `BaseAgent._run_with_retry` |
| `llm`, `try`, `calls` | the call of `LLMRouter` under way, the API calls made in it, and those of the agent in all |
| `state`, `trace`, `audit` | the fields of `AgentState`, `agent_trace`, the rows of `agent_execution_logs`; an optional value is a set of at most one element |

`CustomerIntel` to `ProductRec` are the `execute` of the deterministic agents; `Ask`,
`Answer`, `Explain`, `ExplainMalformed` and `Draft` those of the two that call the LLM;
`TimeOut`, `Break`, `ApiFails`, `ApiRefuses` are what can go wrong, by who retries it;
`NextNode` holds the edges and the two routes. `Draft` writes for any of the opportunities:
which one has the highest score depends on a conversion that is predicted for each product
in turn and falls back, product by product, to a heuristic about the product
(`opportunity_scoring.py:168`-`184`), and those numbers stay out.

### ReadCaches against the code

| State | Code |
|---|---|
| `opp`, `campaign`, `profile` | the rows, as statuses and versions |
| `cache[k]` | the Redis keys: the value, how many invalidations of the key the read came after, and whether it expires |
| `read[r]`, `dismiss[o]`, `approve` | the locals of a GET, of `dismiss_opportunity` and of `approve_outreach` |

`Lookup`, `Query`, `Fill` are the three awaits of each read-through endpoint. Every Redis
call is wrapped in a `try` that swallows its failure, so each may fail in the model.

### DraftStream against the code

`task[ch]` and `queue` are the tasks and the queue of `generate/stream`, `stream` its
generator, `page` what the browser has been sent, `rows` the campaigns, `call` the
blocking `generate`. `Render` may raise outside the `try`; `ApiError` is
`stream_primary`, which yields an error's text as one more token; `Save` commits and
refreshes; `Disconnect` cancels the generator while the tasks go on.

The prompt asks the LLM for JSON with `option_a` and `option_b`, and what is saved is read
out of the accumulated text. A text is a sequence of words: the two keys, the end of the
object, plain words, one of the form `<PII_...>` and one of the form of the vault's tokens.
`Drafts` is what the LLM may set out to write, each draft cut into the tokens in which it
comes; it may stop after any of them. `IsObject` is whether `json.loads` accepts the text,
with or without its fence; `Option` is `parsed.get`, or the whole text when it does not
parse; `Sanitised` replaces the one form and not the other. An option that the object lacks
is the whole text in the stream (`OptionsOf`) and empty in the blocking call (`Answers`).
Values that are not strings, white space and the escapes of JSON are left out.

### CopilotChat against the code

`stream` is the place in the polling loop of `chat.py`, `agent` and `score` the locals of
`RMCopilotAgent.execute` and of the graphs it gathers, `queue` the token queue; `put` and
`shown` are histories. `Timeout` is `asyncio.wait_for` with the retry around it: the
attempt starts again, and what it had put stays on the queue. `Cancel` is Starlette
cancelling the response of a browser that has gone, and with it what the generator awaits.

### KnowledgeBase and RagAlgorithms against the code

`files`, `rows`, `sync[j]` are the documents, `knowledge_embeddings` and the locals of an
execution of `sync_embeddings`; `ranking` is the re-ranker's cached list of ids, `search`
the locals of `search_knowledge_base`. A chunk is the sequence of its paragraphs, a
paragraph the sequence of its sentences, and a row is its chunk, since `content_hash` is
unique. A query is two orders, in which the dense and the sparse search rank the chunks
that are similar enough; `Fusions` is the set of lists that sorting by the RRF scores may
give, with fractions compared by cross-multiplication.

## 3. Runs

The `dispatch_` runs have two approve calls, so at most two tasks, but for one. Two is the
smallest number at which one call, execution or writer can come between two steps of
another, and most properties below are about such pairs. To overshoot a limit of one by
more than one takes three messages, so `dispatch_daily_limit` has three calls.

| Run | Instance | Shows |
|---|---|---|
| `dispatch_two_approvals` | one SMS campaign, one possible edit, two workers, one retry | only approved text goes out (`SentTextWasApproved`), the row records a message that was taken (`SentRecordsAcceptedMessage`), the funnel is ordered (`FunnelOrder`), the whole implements the lifecycle, in which nothing is taken back (`LifecycleHolds`) |
| `dispatch_shared_vault` | WhatsApp and e-mail to one customer, one session, two workers | the vault loses entries but never misdirects (`RightRecipient`) |
| `dispatch_daily_limit` | one SMS campaign approved three times, two workers, two days, limit 1 | a day's counter passes its limit by at most the other execution, also when midnight comes between check and count (`OvershootBounded`) |
| `dispatch_redelivery` | two campaigns, one customer without e-mail, one worker, one retry, one lost process, opt-outs | duplicates are bounded (`SendsPerApprovalBounded`), the task's result is true (`OutcomeIsHonest`), an opt-out stops all but executions past the check (`OptOutTakesEffect`), every task settles (`EveryTaskSettles`) |
| `dispatch_shared_header` | two customers, one session | violation of `RightRecipient` |
| `scoring_overlap` | one customer, one event, two scans and a nightly job, two worker processes, one failure, one retry, one dismissal | a customer has at most as many NEW opportunities, and an event as many rows, as there are worker processes (`NewOpportunitiesBounded`, `EventRowsBounded`); a stale update does not undo a dismissal (`DismissedStaysDismissed`) |
| `scoring_one_worker` | two customers, a scan and a nightly job, one worker process, one failure | without failures every detected event is scored (`DetectedEventIsScored`); every job is settled (`EveryJobSettles`) |
| `scoring_graph` | seven histories on both sides of the rules' thresholds, four customers on both sides of the risk gate, two attempts, two tries, five failures | a doubtful high-risk customer, or a gated loan for one who may not have it, is drafted only if the risk assessment itself failed (`DoubtfulHighRiskNotDrafted`, `IneligibleLoanNotDrafted`); a detected event ends in a draft, a review, an error on record or nothing to offer (`EventIsAccountedFor`); nested retries multiply and no more (`ApiCallsBounded`); every run ends (`RunEnds`) |
| `read_caches` | two opportunities, two GETs, one edit, one change | what was read since the last invalidation, or is about to be stored, shows no dismissed opportunity and no superseded text (`DismissedNotListed`, `ListShowsApprovedText`); every cached answer is eventually gone or true (`CachesSettle`) |
| `draft_stream` | two channels, each with a draft of both options in two tokens or of one option in one, whole, cut short or ended by an error; a blocking call | the options in a done event are saved, and are what the tokens shown for the channel parse to (`DoneDraftIsOfTheTokens`); the refinement of `DraftOutcome` (`OutcomesHold`); a reported end is heard (`ReportedDraftsAreShown`); the response ends (`StreamEnds`) |
| `copilot_chat` | two customers, three attempts, one displayed error, answers of up to two tokens | the last event is last (`DoneMeansAllShown`), the page ends with the answer (`PageEndsWithAnswer`), response and agent end (`ChatEnds`) |
| `knowledge` | three versions of a file, two syncs, batches of two, one edit, one failure, one retry | the chunker keeps its promise (`FilesAreWellChunked`), losses are bounded (`LossesAreBounded`), an answer is the best that fits (`AnswerIsBestThatFits`) |

The bound of `NewOpportunitiesBounded` is tight: two worker processes do leave two NEW
opportunities for one customer, and nothing merges them. `DetectedEventIsScored` assumes
that no call failed, and must: the event is committed before the scoring, and the next
scan finds it and goes on, so after a failure only the nightly job makes up for it.
`DoubtfulHighRiskNotDrafted` and `IneligibleLoanNotDrafted` except a failed
`RiskAssessmentAgent`, and must: the route takes an absent assessment for a low risk.
`ReportedDraftsAreShown` and `StreamEnds` except a broken response and a prompt that could
not be rendered: the second is waited for until the RM gives up.

The caches promise little. A fill that read before an invalidation may store after it, so
`DismissedNotListed` and `ListShowsApprovedText` are about answers read since the last
attempt to delete the key, whether or not Redis did it, and `CachesSettle` is what is left
for the others: they go by their TTL. Since the number of writes is bounded it says that
once nothing is written any more, each key is absent or true for good.

Bounds: `LIMITS` is 1 on every channel, so the counter is at its limit after one message.
`MaxRetries` is 0 or 1 (3 in the code): one retry already shows a step done twice.
In `EventScoring`, `MaxFaults` is 1 where faults matter: one failed call already poisons a
session for the customers after it. `MaxLost`, `MaxDays`, `MaxFaults`, `MaxDismissals`, `MaxEdits`, `MaxChanges`, `MaxTokens` and
`Drafts` are bounds of the model, named as such.
`ScoringGraph` has two attempts and two tries for the code's three: the product is still
told from the sum of either. Its histories put an amount on each side of the wedding,
medical and forex thresholds. `KnowledgeBase` has batches of two for fifty, a context of
five tokens and a chunk of three, so that a batch can hold one text twice, a paragraph be
too long for a chunk, and a chunk be too long for the context; one document has a text
twice and one an oversized paragraph between others. Opt-outs are never
withdrawn, as no code withdraws them. `Symmetry` permutes workers and approve calls, which
no definition tells apart, in `MCEventScoring` the two scans and in `MCKnowledgeBase` the two syncs; the runs with a liveness
property do not use it. `CHECK_DEADLOCK FALSE`: the calls, requests and jobs are
finitely many, so the system comes to rest when the last of them has settled.

Fairness (`FairSpec`): weak fairness of `Take(t)` for each task, since Celery keeps
delivering what is queued, and of `Advance(w)` for each worker, since an execution that is
not killed goes on to its next await. `EventScoring` assumes the same of `Start(j)` and
`Advance(j)`, and the others of whatever the event loop, the graph or Redis (a TTL) carries
on by itself: `Step` of the graph, `Reading`, `Dismissing`, `ApproveDelete` and `Expire` of
the caches, the tasks, the response and a commit under way of the drafts, the response and
the agent of the chat. `Answering` of the chat has one weak fairness for all its steps,
timeouts among them, so a token is not preferred to a timeout. Nothing obliges an RM to approve, to ask or to disconnect, a
customer to opt out, a provider to send receipts, a vault to expire or a fault to occur.

Each property has a mutant: a definition of the module changed the way a slip in the code
would change it (a row written back whole, a counter compared with `<=`, a retry that is
not counted), under which TLC finds the property violated.

## 4. What the models found

1. `dispatch_shared_header`: a token is numbered from the size of the vault that was read
   and stored by a GET and a SETEX. When two customers' campaigns share a session, which
   happens when an API client sends one `X-Session-ID` with its calls (`outreach.py:140`,
   `:473`; the frontend sends none), both workers can create `[PHONE_1]` and one message
   goes to the other customer. Within one customer this cannot happen, since the two
   contacts have tokens of different kinds; `dispatch_shared_vault` shows it.
2. E-mail for a personal loan is rendered from `wedding_personal_loan.j2`, and the approved
   or edited text is not sent (`outreach_dispatch.py:153`, against `schemas/outreach.py:49`);
   `SentTextWasApproved` leaves these campaigns out (`Templated`).
3. The dispatch task does not look at `sent_at`, so a retry after the commit, or a second
   approval that read the row early, sends a campaign that is already recorded as sent
   (against the 409 of `outreach.py:467`); `SendsPerApprovalBounded` is what remains true.
4. `actioned` is never set (`models.py:327` says it is, once an opportunity has been
   created), so an event whose opportunity was dismissed is proposed again by the next
   nightly run (`daily_scoring.py:159`).
5. The priority queue is served from `priority_queue:{rm}:{limit}` and invalidated under
   `priority_queue:{rm}`: nothing but the TTL ever corrects it (`CachesSettle`).
6. The eligibility gate names "personal loan / working capital" (`agent_state.py:189`); the
   code withholds personal and education loans, and a working capital loan never.
7. The indexer counts a batch that was rolled back as new and reports one failed chunk for
   it; a failed final commit is in no count (`indexer.py:86`-`109`). One text twice in a
   batch fails that batch in every run, and it is never indexed (`LossesAreBounded` holds
   with one batch for each failure).
8. A failed dense search aborts the transaction, so the sparse search of
   `retriever.py:144` does not "still run".
9. A chunk that does not fit the context is counted as its truncated copy and included
   whole (`context_builder.py:76`-`80`).

Read while modelling, and not the claim of a run:

* A session broken by one customer makes every later customer of the job fail, and the job
  then reports success; a vector of zeros left by a failed query is cached for four hours
  and scored as if it were real; a receipt that arrives before the worker has recorded the
  id is dropped for good (`tracker.py:62`); the hard time limit acknowledges a task that may
  not have sent anything.
* Rules: the salary growth compares two months only, so the promotion rule's two raises can
  never be counted; the medical rule asks for a confidence its own formula reaches at 80 000
  and not at its threshold of 50 000; the large one-time credit includes the salary; a
  high instalment share lowers a tier that the database holds as high to medium; a month
  without any instalment is not a missed one.
* Output: `phase1_error` is unbound when the self-correction reads it (`output_parser.py:73`),
  so a malformed explanation always fails. `stream_primary` turns an API error into text,
  which does not parse and is then saved as both options of a draft; so is a draft that was
  cut short, with its braces and keys. Where the draft does parse, the text saved is
  `option_a` of it, not the text the RM saw arrive. Only words of the form `<PII_...>` are
  replaced in a draft (`outreach.py:190`), while the vault's tokens have the form
  `[PHONE_1]` (`pii_mask.py:210`) and pass. A prompt that cannot be rendered raises outside the `try`
  and its channel is waited for without end. The chat reports an agent that failed as done.
* Retrieval: a ranking made while the sparse search failed is cached for an hour; a cached
  ranking does not skip the retrieval (`reranker.py:47` says so); chunks of an edited
  document are never deleted; the section hint of every chunk is the last heading of the
  document (`chunker.py:54`).
* The priority queue of the gateway is in no order; a comment speaks of the best
  opportunity score (`customers.py:79`).

## 5. Only model-checked

Liveness (`EveryTaskSettles`, `EveryJobSettles`, `RunEnds`, `CachesSettle`,
`ReportedDraftsAreShown`, `StreamEnds`, `ChatEnds`) is out of the prover's reach, as it
needs fairness and ENABLED. Every other property of the runs is a theorem, too. Of what
`LifeEvents` computes, the risk assessment and the recommended products are only checked:
the theorems hold whatever tier an assessment gives.

## 6. What is proved

Each theorem is for any value of the constants that the module's `ConstantsAssumption` (or
`KnowledgeAssumption`) allows, and rests on nothing else.

In `OutreachDispatchProofs`, for any set of campaigns and calls, any finite set of workers,
any limits and any bounds:

* `TypeCorrect`: `Spec => []TypeOK`. `TypeOK` is inductive. Its part that is not a type is
  that a task exists only for an accepted call and is about that call's campaign; without
  it a running worker could not be known to have a campaign.
* `OnlyApprovedTextsAreSent`: `Spec => []SentTextWasApproved`. The property is about the
  messages already sent and is not inductive; `ApprovalInv` adds where an approved text
  can be on its way to a provider: the row of a campaign whose call has committed, and
  the body carried by an execution. The step that matters is `ApproveCommit`, which adds
  its text to the approved ones as it writes it, and `Load`, which takes the row's text
  only when a call has committed.
* `SentIsAccepted` (`SentRecordsAcceptedMessage`) and `FunnelIsOrdered` (`FunnelOrder`)
  follow from one invariant, `FunnelInv`, which adds that an execution about to commit
  holds the id of a message that was accepted for its own campaign.

In `OutreachDeliveryProofs`, with the same generality and on those invariants:

* `SendsAreBounded` (`SendsPerApprovalBounded`) and `OutcomesAreHonest` (`OutcomeIsHonest`)
  follow from `SendsInv`. The bound of one message more than the redeliveries is used up by
  an execution when it posts, so the invariant says of an execution that has not posted
  that its task has sent no more than its repeats, and that no other worker runs that task
  (`OwnsItsTask`): a second runner could post within the same delivery.
* `OvershootIsBounded` (`OvershootBounded`) is inductive but for midnight, where those in
  flight begin to count for a new day; `QuotaInv` adds that a day to come has counted
  nothing. The step that matters is `CheckRate`, which lets one more into flight only under
  a counter below its limit.
* `DispatchImplementsLifecycle`, `Spec => LifecycleHolds`: each step is one of the four
  abstract steps, for one campaign, or a stutter. `ApprovalInv` gives that what is accepted
  has been approved, `FunnelInv` that what is recorded has been accepted and that a receipt
  never lowers a status.
* `RecipientIsRight` (`RightRecipient`) and `OptOutIsObeyed` (`OptOutTakesEffect`) assume
  `SessionsApart`: campaigns that share a session and a kind of token have one contact.
  Without it `dispatch_shared_header` refutes the first, and the second would count
  messages misdirected to the contact. The instances of the passing runs satisfy it.
  `RecipientInv` says that an entry of a vault was stored for some campaign of the session,
  under a token of its kind, in the vault, in the copy `store_vault` read, and in the token
  an execution carries; `OptOutInv` adds up the late messages and the executions that the
  registry let through.

The assumption says that the workers are finitely many, that channels, contacts and
sessions are functions of the campaign, that a draft has a session, that "no edit" is not
an edit, that templates are for e-mail, and that limits are positive.

In `EventScoringProofs`, for any customers, events, confidences, finite set of jobs and
number of worker processes, and any bounds:

* `ScoringTypeCorrect`: `Spec => []TypeOK`. Its parts beyond types are that an execution is
  under way exactly when its message is running, that it knows its customer, and that one
  that is to update an opportunity points at a row that exists: `TypeOK` is inductive
  because no action shortens a customer's rows (`OneJobMoves`).
* `NewOpportunitiesAreBounded` and `EventRowsAreBounded`. A bound on the rows alone is not
  inductive, since executions that have looked may all insert; the invariants `OppInv` and
  `RowInv` count the inserts that are on their way together with the rows, and need that
  there are no more executions than worker processes (`WorkersBounded`). The step that
  matters is the look (`SelectOpp`, `CheckEvent`): it leads to an insert only if there is
  no row, and then the inserts on their way are all among the executions.
* `DismissalsLast`, an action property: an upsert appends a row or writes the scores of
  one, and no other action of a job writes opportunities (`WhoWrites`).
* `DetectedEventsAreScored`. The property is not inductive, as any execution at work on the
  customer satisfies it; `ScoredInv` names the places between the insert and the upsert
  (`Scoring`), and adds that no session is broken while nothing has failed.

In `ReadCachesProofs`, for any opportunities and requests: `TypeCorrect`, and
`DismissalsHold` and `ListIsApproved` from one invariant, `FreshInv`. The two properties
speak of values read after the last invalidation; the invariant adds that nobody has seen
an invalidation that has not happened (`SeenBehind`), so that a DEL makes every older value
stale at once, and that a dismissal whose DEL is done is in the table
(`DismissalsCommitted`), so that a query after it cannot list the opportunity.

In `DraftStreamProofs`, for any finite set of channels, any calls and any drafts:

* `DraftsRefineOutcome`, `Spec => OutcomesHold`. The invariant `DraftInv` says where the end
  of a channel can be: not reported, on the queue once, in hand, or handled; and that while
  it is not handled nothing was saved or told of the channel. Every step is then a step of
  `DraftOutcome` for one channel or a stutter (`Same`).
* `DoneIsOfTheTokens` (`DoneDraftIsOfTheTokens`). Tokens of all channels arrive interleaved on one queue,
  so the invariant `TextInv` has to say of each channel what is on its way: `Track` gives
  every place of the queue the length the draft will have on the page when the messages
  before it have been handled, from what is shown to all that was accumulated (`Moves`). The
  end of the channel comes at the full length and carries the whole text, whose options are
  then saved and, after the commit, told. What `OptionsOf` makes of a text is not looked
  into.
* `TypeCorrect`: `Spec => []TypeOK`, from the same invariant. Its part that is not a type is
  that `finished` counts the channels whose end was handled (`GatewayOK`), which needs that
  an end is handled once.

In `CopilotChatProofs`, for any finite portfolio, number of attempts and length of an
answer: `TypeCorrect`, `DoneIsLast` and `AnswerIsLast`. The invariant `ChatInv` says that
what was put is what was shown followed by what is on the queue (`PutTyped`), that the loop
is left with a listening browser only when the agent is over and the queue empty
(`Drained`), and that the chunks of the attempt under way are the last that were put
(`AnswerPut`).

In `KnowledgeBaseProofs`, for any documents and edits, number of syncs, batch size, sizes of
chunks and of the context, rankings, and number of faults:

* `LossesBounded`. `LossesAreBounded` counts a difference of two sets and is not inductive;
  `JobsOK` adds that the chunks missing from the table can be accounted for by the pending
  ones and a set no larger than a batch for each reported failure, and that the pending ones
  are the new ones modulo the batch (`Waiting`). The step that matters is the failed commit,
  which moves what was pending to that set.
* `FilesChunkedWell` (`FilesAreWellChunked`): what `chunker.py` promises of a document holds
  of every document, whatever its length (`ChunkDocumentOK`). The two loops have an
  invariant each, of the buffer and what has been read so far: `Gathered` of the sentences
  of an oversized paragraph, `Waits` of the paragraphs. The steps that matter are the
  flushes: what is flushed and the first of what follows would not have fit together, or one
  of them is a piece of an oversized paragraph.
* `AnswersAreBest` (`AnswerIsBestThatFits`). `SearchesOK` says that the candidates begin a
  fusion of both rankings, and that the context begins it too unless the cache ordered it.
  `FusionLaw` and `BeginningIsBest` say that no chunk left out of a beginning of a fusion
  beats one in it (a chunk that is nowhere later in the two rankings, and somewhere earlier,
  has the higher score, which is a fact about sums of fractions); `BuildContextLaw`
  says that the budget is passed at most by the last block.
* `KnowledgeTypeCorrect`: `Spec => []TypeOK`, with `PendingCounted`, from `JobsOK`,
  `JobsTyped` (a chunk is counted at most once, so `new` stays behind `next`) and `RowsTyped`
  (what is committed was chunked). It is the conjunction `KnowledgeOK` of all these that is
  inductive.

The chunker, the fusion and the budget are folds over sequences. The library's induction
theorems take an operator as a parameter, which the provers here cannot instantiate, and
nothing is known to them of a fold. The module therefore states induction for sets
(`Induct`: a set of numbers that has 0 and the successors of its members has every number;
`SeqInduct`: the same for sequences and `Append`), and proves from the definitions of the
community modules what a fold over a longer sequence is (`FoldSteps`), by showing that the
recursive function it is defined with exists and is unique (`IterationExists`, `RunsAgree`).
For each fold of the model there is a law in that form: `ParaTokensLaw`, `ChunkTokensLaw`,
`ContextTokensLaw`, `OnlyLaw`, `GatheredSentencesLaw`, `MergedParagraphsLaw`, `FlattenLaw`.

In `ScoringGraphProofs`, for any histories, profiles, attempts, tries and failures, and
without looking into the rules of `LifeEvents`: `TypeCorrect`, `DoubtfulIsNotDrafted`,
`IneligibleIsNotDrafted`, `EventsAreAccountedFor` and `ApiCallsAreBounded`. The invariant
`GraphInv` goes along the nodes. `Gate` says that past the risk assessment the customer
passed or the agent is on record as failed, that nothing is offered without an event, and
no event found without a summary (so that the assessment that passed is the one of a
summarised customer). `Story` says what each agent has written by each node as long as no
error is on record. `Budget` counts the calls of finished attempts with those of the one
under way.

In the same module, about the rules and on a second invariant, for histories of any length:

* `ConfidencesAreShares`, `PromotionNeedsBonus` and `MedicalNeedsMore` say what the rules of
  `event_detection.py` compute, among them two things their thresholds do not show: a
  promotion needs the large credit, and a medical event 80 000. They rest on
  `ConfidenceCases` (the values of each confidence), `SummaryTyped` (sums and maxima over a
  history are numbers) and `DetectedLaw` (the events detected are those whose rule fires
  with the confidence asked of it). The only assumption is that histories are sequences of
  transactions, with amounts without a sign, as the direction is a column of its own.
* `ReviewsAreForWeakSignals` and `DraftsAreOffers` (a draft is for a detected event, a
  product of it not held, and one that the assessment allows). `HandedInv`, inductive on top of
  `GraphInv`, says of each node what was handed to it: the events are none or those found,
  the assessment is absent or that of a summarised customer, the opportunities are none or
  all of the events found under the assessment that is still in the state, and the node of
  the review is entered with its reasons. A failed agent leaves the field empty, so each
  conjunct says "nothing, or the right thing". With the rules it follows that the doubt of
  `route_after_risk_assessment` (below 0.60) can only be about a weak wedding or a weak
  education abroad: every other rule asks for 0.70 or never answers less than 0.70.

Sums and folds over a finite set are recursive functions that nothing is known of either;
`RecursionExists` and `SubsetInduct` (what holds of {} and of a set if of the set with one
element less, holds of every finite set) give `TotalType`, `LargestType` and `DetectedLaw`.

The proof modules have the same shape: lemmas for each action or group of actions and the
invariant, lemmas that say which actions can disturb a conjunct, and the theorem.

## 7. What is left

The components of `PROJECT.json` that hold state or order are modelled. What could be added:

1. Theorems about the rest of `LifeEvents`: what the risk assessment makes of the
   instalments, and that only a poor score or missed ones make a tier high that was not.
2. One composition of `ReadCaches` with `EventScoring`, in place of the job that
   `ReadCaches` has in one step.

## 8. Not modelled

* Report generation: it reads, aggregates and stores a report under a key that nothing else
  reads or deletes.
* The rate limiter, which lets every request through because `request.state.rm_id` is never
  set; the audit middleware, which finds no `request.state.db`; token checks and start-up.
* `mask_text` and the masking patterns of the vault: nothing in the live system calls them.
* The numbers of the ML models, RFM and churn scores: floating-point code without state.
  Their order, their failures and what they are computed from are modelled.
* In `OutreachDispatch`, an INCR that Redis applied and whose answer was lost, or a crash
  between the INCR and the acknowledgement (`compliance.py:68`): the message is then counted
  twice, on the safe side of the limit.
* In `EventScoring`, the redelivery of a job that has run for longer than the visibility
  timeout of the broker while its first execution goes on: a message has one execution at a
  time, so the bounds by worker processes leave that case out.
* In `ReadCaches`, the update of an opportunity that is NEW already (`daily_scoring.py:251`):
  it changes scores that the cached list shows, without a DEL; the model keeps only which
  opportunities are listed.
* In `CopilotChat`, exceptions while the report is formatted or after the first chunk
  (`rm_copilot.py:109`, `254`-`320`): the agent fails in the model where its filters are read,
  before it has put anything, or by a timeout at any step.
* In `KnowledgeBase`, the sync of a single file that cannot be read, which raises and is
  retried (`embedding_sync.py:66`-`72`); the model has the directory, where such a file is
  left out.
* The wording of prompts, answers and messages, the keyword filters of the copilot's
  questions, the formats of documents.
* Stub tools, the frontend, deployment files, migrations and scripts.

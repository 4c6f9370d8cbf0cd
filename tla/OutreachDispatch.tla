--------------------------- MODULE OutreachDispatch ---------------------------
(***************************************************************************)
(* The life of an outreach campaign once its draft is in the database:     *)
(* the gateway's approve endpoint, the Celery queue and its redeliveries,  *)
(* the dispatch worker one awaited call at a time, the PII vault it keeps  *)
(* the recipient in, the messaging provider and the delivery webhook.      *)
(*                                                                         *)
(*   services/gateway/routers/outreach.py          POST /{id}/approve      *)
(*   services/workers/tasks/outreach_dispatch.py   dispatch_campaign       *)
(*   services/notifications/compliance.py          DND and daily limits    *)
(*   services/gateway/middleware/pii_mask.py       the vault               *)
(*   services/notifications/providers/*.py         unmask, then POST       *)
(*   services/notifications/tracker.py             delivery receipts       *)
(*                                                                         *)
(* Each worker action ends at an await of the code, so that everything     *)
(* another process can do between two awaits is a behaviour here.          *)
(* Two steps of the code are one here where nothing could tell: the select *)
(* and the commit of a receipt, which only set columns, and the queries of *)
(* _dispatch_async's step 1, of which only one reads a column that changes.*)
(* The Redis list cache the flow deletes is left to the cache model.       *)
(***************************************************************************)
EXTENDS Naturals, Sequences, FiniteSets

CONSTANTS
  Campaigns,      \* rows of outreach_campaigns, drafts when the model starts
  Requests,       \* calls of the approve endpoint; each may queue one task
  Workers,        \* Celery worker processes on the outreach queue
  Channel,        \* Channel[c]: the campaign's channel
  Contact,        \* Contact[c]: the phone or email it goes to, or NoContact
  NoContact,      \* the customer has no phone (email) on record
  Templated,      \* email campaigns whose opportunity is a personal loan
  GenSession,     \* GenSession[c]: session_id stored with the draft
  HdrSession,     \* HdrSession[c]: X-Session-ID of approve calls, or NoSession
  NoSession,
  Draft, Edits,   \* message texts: the generated draft, what an RM may type
  NoEdit,         \* the approve body has no edited_message
  TemplateText,   \* what wedding_personal_loan.j2 renders to
  LIMITS,         \* LIMITS[ch]: daily limit of a channel
  MaxRetries,     \* max_retries of the task (3 in the code)
  MaxDays,        \* bound: calendar days the model may span
  MaxLost         \* bound: times one task may lose its worker process

Channels == {"whatsapp", "sms", "email"}
Sessions == ({GenSession[c] : c \in Campaigns} \cup {HdrSession[c] : c \in Campaigns})
              \ {NoSession}
Contacts == {Contact[c] : c \in Campaigns} \ {NoContact}
Texts == {Draft} \cup Edits
Days == 1..MaxDays

ASSUME ConstantsAssumption ==
  /\ IsFiniteSet(Workers)
  /\ Channel \in [Campaigns -> Channels]
  /\ DOMAIN Contact = Campaigns
  /\ DOMAIN GenSession = Campaigns
  /\ DOMAIN HdrSession = Campaigns
  /\ \A c \in Campaigns : GenSession[c] # NoSession
  /\ Templated \subseteq {c \in Campaigns : Channel[c] = "email"}
  /\ NoEdit \notin Edits
  /\ LIMITS \in [Channels -> Nat \ {0}]
  /\ MaxRetries \in Nat
  /\ MaxDays \in Nat \ {0}
  /\ MaxLost \in Nat

VARIABLES
  row,        \* row[c]: the columns of outreach_campaigns the flow uses
  req,        \* req[r]: where an approve call stands, and what it read
  task,       \* task[r]: the Celery task the call r queued
  wk,         \* wk[w]: the locals of dispatch_campaign on worker w
  vault,      \* vault[s]: Redis pii_vault:{s}, a map from token to contact
  rate,       \* Redis rate_limit:{channel}:{identifier}:{date}
  dnd,        \* the contacts in dnd_registry
  day,        \* the UTC date
  outbox,     \* history: what the providers accepted, in order; the index
              \* of a message stands for its provider_message_id
  approved    \* history: the texts RMs confirmed for each campaign

vars == <<row, req, task, wk, vault, rate, dnd, day, outbox, approved>>

------------------------------------------------------------------------------
(* Data.                                                                   *)

NoId == 0

Kind(c) == IF Channel[c] \in {"whatsapp", "sms"} THEN "PHONE" ELSE "EMAIL"

\* A vault token [PHONE_n] or [EMAIL_n].
Tokens == {"PHONE", "EMAIL"} \X Nat
NoToken == <<"PHONE", 0>>

EmptyVault == [tok \in {} |-> NoContact]

\* dict.update with one entry
PutToken(v, tok, x) ==
  [k \in DOMAIN v \cup {tok} |-> IF k = tok THEN x ELSE v[k]]

\* The Redis counter a send of campaign c on day d is counted under.
RateKeys == Channels \X Contacts \X Days
RateKey(c, d) == <<Channel[c], Contact[c], d>>

IdleWorker ==
  [pc |-> "idle", task |-> NoId, body |-> Draft, session |-> NoSession,
   token |-> NoToken, seen |-> EmptyVault, to |-> NoContact, id |-> NoId]

\* The campaign the task of worker w is about.
CampOf(w) == task[wk[w].task].camp

Init ==
  /\ row = [c \in Campaigns |->
              [body |-> Draft, session |-> GenSession[c], sent |-> FALSE,
               pmid |-> NoId, delivered |-> FALSE, opened |-> FALSE,
               converted |-> FALSE]]
  /\ req = [r \in Requests |->
              [pc |-> "idle", camp |-> NoId, edit |-> NoEdit, seen |-> Draft]]
  /\ task = [r \in Requests |->
              [status |-> "none", camp |-> NoId, retries |-> 0, lost |-> 0]]
  /\ wk = [w \in Workers |-> IdleWorker]
  /\ vault = [s \in Sessions |-> EmptyVault]
  /\ rate = [k \in RateKeys |-> 0]
  /\ dnd = {}
  /\ day = 1
  /\ outbox = <<>>
  /\ approved = [c \in Campaigns |-> {}]

------------------------------------------------------------------------------
(* The gateway: POST /outreach/{campaign_id}/approve, one await at a time. *)

\* SELECT the campaign; it was already sent, so the call answers 409.
ApproveRefused(r, c) ==
  /\ req[r].pc = "idle"
  /\ row[c].sent
  /\ req' = [req EXCEPT ![r].pc = "refused", ![r].camp = c]
  /\ UNCHANGED <<row, task, wk, vault, rate, dnd, day, outbox, approved>>

\* SELECT the campaign; it has not been sent, so the call goes on.
ApproveSelect(r, c, e) ==
  /\ req[r].pc = "idle"
  /\ ~row[c].sent
  /\ req' = [req EXCEPT ![r] = [pc |-> "selected", camp |-> c, edit |-> e,
                                seen |-> row[c].body]]
  /\ UNCHANGED <<row, task, wk, vault, rate, dnd, day, outbox, approved>>

\* The text the RM confirms with call r.
Confirmed(r) == IF req[r].edit = NoEdit THEN req[r].seen ELSE req[r].edit

\* UPDATE only the columns the call assigned, and COMMIT.
ApproveCommit(r) ==
  LET c == req[r].camp IN
  /\ req[r].pc = "selected"
  /\ row' = [row EXCEPT
       ![c].body = IF req[r].edit = NoEdit THEN @ ELSE req[r].edit,
       ![c].session = IF HdrSession[c] = NoSession THEN @ ELSE HdrSession[c]]
  /\ approved' = [approved EXCEPT ![c] = @ \cup {Confirmed(r)}]
  /\ req' = [req EXCEPT ![r].pc = "committed"]
  /\ UNCHANGED <<task, wk, vault, rate, dnd, day, outbox>>

\* dispatch_campaign.delay(campaign_id), then 202.
ApproveQueue(r) ==
  /\ req[r].pc = "committed"
  /\ req' = [req EXCEPT ![r].pc = "accepted"]
  /\ task' = [task EXCEPT ![r] = [status |-> "queued", camp |-> req[r].camp,
                                  retries |-> 0, lost |-> 0]]
  /\ UNCHANGED <<row, wk, vault, rate, dnd, day, outbox, approved>>

------------------------------------------------------------------------------
(* The worker: how an execution of dispatch_campaign ends.                 *)

\* The task returns a value: it is acknowledged and s is its result.
Finish(w, s) ==
  /\ task' = [task EXCEPT ![wk[w].task].status = s]
  /\ wk' = [wk EXCEPT ![w] = IdleWorker]

\* self.retry puts the task x back on the queue.
Requeued(x) == [x EXCEPT !.status = "queued", !.retries = x.retries + 1]

\* Mutant: one retry too many.
MutantExtraRetry(w) ==
  LET t == wk[w].task IN
  /\ wk' = [wk EXCEPT ![w] = IdleWorker]
  /\ task' = [task EXCEPT
       ![t] = IF task[t].retries <= MaxRetries
              THEN Requeued(task[t])
              ELSE [task[t] EXCEPT !.status = "failed"]]

\* Mutant: the retries are not counted.
MutantUncountedRetry(w) ==
  /\ wk' = [wk EXCEPT ![w] = IdleWorker]
  /\ task' = [task EXCEPT ![wk[w].task].status = "queued"]

\* An exception reaches dispatch_campaign, which rolls back and calls
\* self.retry: the task is queued again, or fails after MaxRetries retries.
RetryOrFail(w) ==
  LET t == wk[w].task IN
  /\ wk' = [wk EXCEPT ![w] = IdleWorker]
  /\ task' = [task EXCEPT
       ![t] = IF task[t].retries < MaxRetries
              THEN Requeued(task[t])
              ELSE [task[t] EXCEPT !.status = "failed"]]

\* Any database, Redis or provider call of the task may raise.
Raise(w) ==
  /\ wk[w].pc # "idle"
  /\ RetryOrFail(w)
  /\ UNCHANGED <<row, req, vault, rate, dnd, day, outbox, approved>>

\* The worker process is lost: acks_late and task_reject_on_worker_lost put
\* the same message back on the queue.
LoseWorker(w) ==
  LET t == wk[w].task IN
  /\ wk[w].pc # "idle"
  /\ task[t].lost < MaxLost
  /\ task' = [task EXCEPT ![t].status = "queued", ![t].lost = @ + 1]
  /\ wk' = [wk EXCEPT ![w] = IdleWorker]
  /\ UNCHANGED <<row, req, vault, rate, dnd, day, outbox, approved>>

\* Mutant: a timed-out task is queued again.
MutantTimeLimitRequeues(w) ==
  /\ wk[w].pc # "idle"
  /\ Finish(w, "queued")
  /\ UNCHANGED <<row, req, vault, rate, dnd, day, outbox, approved>>

\* time_limit=60: Celery kills the process and acknowledges the task.
TimeLimit(w) ==
  /\ wk[w].pc # "idle"
  /\ Finish(w, "killed")
  /\ UNCHANGED <<row, req, vault, rate, dnd, day, outbox, approved>>

------------------------------------------------------------------------------
(* The worker: _dispatch_async.                                            *)

\* Mutant: the generated option is sent in place of the row's body.
MutantLoadDraft(w, t) ==
  LET c == task[t].camp IN
  /\ wk[w].pc = "idle"
  /\ task[t].status = "queued"
  /\ Contact[c] # NoContact
  /\ task' = [task EXCEPT ![t].status = "running"]
  /\ wk' = [wk EXCEPT ![w] = [IdleWorker EXCEPT !.pc = "dnd", !.task = t,
                                !.body = Draft, !.session = row[c].session]]
  /\ UNCHANGED <<row, req, vault, rate, dnd, day, outbox, approved>>

\* Step 1: take a task and load its campaign, opportunity and customer.
Load(w, t) ==
  LET c == task[t].camp IN
  /\ wk[w].pc = "idle"
  /\ task[t].status = "queued"
  /\ Contact[c] # NoContact
  /\ task' = [task EXCEPT ![t].status = "running"]
  /\ wk' = [wk EXCEPT ![w] = [IdleWorker EXCEPT !.pc = "dnd", !.task = t,
                                !.body = row[c].body, !.session = row[c].session]]
  /\ UNCHANGED <<row, req, vault, rate, dnd, day, outbox, approved>>

\* Step 1 when the customer has no phone (email): nothing is sent.
LoadNoContact(w, t) ==
  /\ wk[w].pc = "idle"
  /\ task[t].status = "queued"
  /\ Contact[task[t].camp] = NoContact
  /\ task' = [task EXCEPT ![t].status = "missing"]
  /\ UNCHANGED <<row, req, wk, vault, rate, dnd, day, outbox, approved>>

\* Mutant: the registry is not consulted.
MutantSkipDND(w) ==
  /\ wk[w].pc = "dnd"
  /\ wk' = [wk EXCEPT ![w].pc = "rate"]
  /\ UNCHANGED <<row, req, task, vault, rate, dnd, day, outbox, approved>>

\* Step 2, first half of can_send: is the contact in the DND registry?
CheckDND(w) ==
  /\ wk[w].pc = "dnd"
  /\ IF Contact[CampOf(w)] \in dnd
     THEN Finish(w, "blocked")
     ELSE /\ wk' = [wk EXCEPT ![w].pc = "rate"]
          /\ UNCHANGED task
  /\ UNCHANGED <<row, req, vault, rate, dnd, day, outbox, approved>>

\* Mutant: a counter at its limit still passes.
MutantCheckRateAtLimit(w) ==
  LET c == CampOf(w) IN
  /\ wk[w].pc = "rate"
  /\ IF rate[RateKey(c, day)] <= LIMITS[Channel[c]]
     THEN /\ wk' = [wk EXCEPT ![w].pc = "vault"]
          /\ UNCHANGED task
     ELSE Finish(w, "blocked")
  /\ UNCHANGED <<row, req, vault, rate, dnd, day, outbox, approved>>

\* Step 2, second half of can_send: GET today's counter.
CheckRate(w) ==
  LET c == CampOf(w) IN
  /\ wk[w].pc = "rate"
  /\ IF rate[RateKey(c, day)] < LIMITS[Channel[c]]
     THEN /\ wk' = [wk EXCEPT ![w].pc = "vault"]
          /\ UNCHANGED task
     ELSE Finish(w, "blocked")
  /\ UNCHANGED <<row, req, vault, rate, dnd, day, outbox, approved>>

\* Mutant: phone and e-mail tokens share one numbering.
MutantUntypedToken(w) ==
  LET v == vault[wk[w].session] IN
  /\ wk[w].pc = "vault"
  /\ wk' = [wk EXCEPT ![w].pc = "storeGet",
                      ![w].token = <<"PHONE", Cardinality(DOMAIN v) + 1>>]
  /\ UNCHANGED <<row, req, task, vault, rate, dnd, day, outbox, approved>>

\* Step 3: load_vault; use a token that already stands for the contact, or
\* make one numbered after the entries the vault had.
LoadVault(w) ==
  LET c == CampOf(w)
      v == vault[wk[w].session]
      known == {tok \in DOMAIN v : v[tok] = Contact[c]}
  IN
  /\ wk[w].pc = "vault"
  /\ \/ \E tok \in known :
          wk' = [wk EXCEPT ![w].pc = "unmask", ![w].token = tok]
     \/ /\ known = {}
        /\ wk' = [wk EXCEPT ![w].pc = "storeGet",
                            ![w].token = <<Kind(c), Cardinality(DOMAIN v) + 1>>]
  /\ UNCHANGED <<row, req, task, vault, rate, dnd, day, outbox, approved>>

\* store_vault reads the vault again ...
StoreGet(w) ==
  /\ wk[w].pc = "storeGet"
  /\ wk' = [wk EXCEPT ![w].pc = "storeSet", ![w].seen = vault[wk[w].session]]
  /\ UNCHANGED <<row, req, task, vault, rate, dnd, day, outbox, approved>>

\* ... and writes back what it read with the new entry.
StoreSet(w) ==
  /\ wk[w].pc = "storeSet"
  /\ vault' = [vault EXCEPT ![wk[w].session] =
                 PutToken(wk[w].seen, wk[w].token, Contact[CampOf(w)])]
  /\ wk' = [wk EXCEPT ![w].pc = "unmask", ![w].seen = EmptyVault]
  /\ UNCHANGED <<row, req, task, rate, dnd, day, outbox, approved>>

\* Step 4, in the provider: unmask the token.  A token the vault no longer
\* holds comes back as it is, and the provider raises.
Unmask(w) ==
  LET v == vault[wk[w].session] IN
  /\ wk[w].pc = "unmask"
  /\ IF wk[w].token \in DOMAIN v
     THEN /\ wk' = [wk EXCEPT ![w].pc = "post", ![w].to = v[wk[w].token],
                              ![w].token = NoToken, ![w].session = NoSession]
          /\ UNCHANGED task
     ELSE RetryOrFail(w)
  /\ UNCHANGED <<row, req, vault, rate, dnd, day, outbox, approved>>

\* What the provider is asked to deliver: send_email renders the template
\* for a personal loan, and message_body otherwise.
Rendered(w) == IF CampOf(w) \in Templated THEN TemplateText ELSE wk[w].body

\* The provider takes the message (late: its recipient had opted out) ...
Accepted(w) ==
  outbox' = Append(outbox, [camp |-> CampOf(w), task |-> wk[w].task,
                            to |-> wk[w].to, body |-> Rendered(w),
                            late |-> wk[w].to \in dnd])

\* Mutant: the record is not committed before the counter is incremented.
MutantPostUnrecorded(w) ==
  /\ wk[w].pc = "post"
  /\ Accepted(w)
  /\ wk' = [wk EXCEPT ![w] = [IdleWorker EXCEPT !.pc = "incr", !.task = wk[w].task]]
  /\ UNCHANGED <<row, req, task, vault, rate, dnd, day, approved>>

\* ... and its answer arrives,
Post(w) ==
  /\ wk[w].pc = "post"
  /\ Accepted(w)
  /\ wk' = [wk EXCEPT ![w] = [IdleWorker EXCEPT !.pc = "commit", !.task = wk[w].task,
                                                !.id = Len(outbox) + 1]]
  /\ UNCHANGED <<row, req, task, vault, rate, dnd, day, approved>>

\* ... or is lost (the 10 s timeout, a broken connection): the worker
\* raises although the message is on its way.
PostUnanswered(w) ==
  /\ wk[w].pc = "post"
  /\ Accepted(w)
  /\ RetryOrFail(w)
  /\ UNCHANGED <<row, req, vault, rate, dnd, day, approved>>

\* Mutant: the message id is not recorded.
MutantCommitNoId(w) ==
  /\ wk[w].pc = "commit"
  /\ row' = [row EXCEPT ![CampOf(w)].sent = TRUE]
  /\ wk' = [wk EXCEPT ![w].pc = "incr", ![w].id = NoId]
  /\ UNCHANGED <<req, task, vault, rate, dnd, day, outbox, approved>>

\* Step 5: record sent_at and provider_message_id.
Commit(w) ==
  LET c == CampOf(w) IN
  /\ wk[w].pc = "commit"
  /\ row' = [row EXCEPT ![c].sent = TRUE, ![c].pmid = wk[w].id]
  /\ wk' = [wk EXCEPT ![w].pc = "incr", ![w].id = NoId]
  /\ UNCHANGED <<req, task, vault, rate, dnd, day, outbox, approved>>

\* Step 6: INCR the counter of the day it is now, and return.
Increment(w) ==
  /\ wk[w].pc = "incr"
  /\ rate' = [rate EXCEPT ![RateKey(CampOf(w), day)] = @ + 1]
  /\ Finish(w, "sent")
  /\ UNCHANGED <<row, req, vault, dnd, day, outbox, approved>>

------------------------------------------------------------------------------
(* The provider's receipts, and what else happens around the workers.      *)

\* Mutant: "converted" does not fill in delivered_at.
MutantReceivedSkipsRungs(x, s) ==
  [x EXCEPT !.delivered = @ \/ s # "converted",
            !.opened = @ \/ s \in {"opened", "converted"},
            !.converted = @ \/ s = "converted"]

\* Mutant: the last receipt decides, whatever came before it.
MutantReceivedLastWins(x, s) ==
  [x EXCEPT !.delivered = TRUE,
            !.opened = s \in {"opened", "converted"},
            !.converted = s = "converted"]

\* What a receipt of status s sets in the row x: the timestamp of its rung
\* and those of the rungs below that are still empty.
Received(x, s) ==
  [x EXCEPT !.delivered = TRUE,
            !.opened = @ \/ s \in {"opened", "converted"},
            !.converted = @ \/ s = "converted"]

\* process_delivery_receipt: the campaign whose provider_message_id is the
\* receipt's is updated, and a receipt no campaign matches is ignored.
Receipt(i, s) ==
  \E c \in Campaigns :
    /\ row[c].pmid = i
    /\ row' = [row EXCEPT ![c] = Received(row[c], s)]
    /\ UNCHANGED <<req, task, wk, vault, rate, dnd, day, outbox, approved>>

\* A customer opts out of marketing.
OptOut(x) ==
  /\ x \notin dnd
  /\ dnd' = dnd \cup {x}
  /\ UNCHANGED <<row, req, task, wk, vault, rate, day, outbox, approved>>

\* The vault's TTL runs out.
Expire(s) ==
  /\ vault[s] # EmptyVault
  /\ vault' = [vault EXCEPT ![s] = EmptyVault]
  /\ UNCHANGED <<row, req, task, wk, rate, dnd, day, outbox, approved>>

\* Midnight UTC.
NextDay ==
  /\ day < MaxDays
  /\ day' = day + 1
  /\ UNCHANGED <<row, req, task, wk, vault, rate, dnd, outbox, approved>>

------------------------------------------------------------------------------
Approve ==
  \E r \in Requests :
    \/ \E c \in Campaigns :
         \/ ApproveRefused(r, c)
         \/ \E e \in Edits \cup {NoEdit} : ApproveSelect(r, c, e)
    \/ ApproveCommit(r)
    \/ ApproveQueue(r)

Take(t) == \E w \in Workers : Load(w, t) \/ LoadNoContact(w, t)

\* The next await of the execution on w returns.
Advance(w) ==
  \/ CheckDND(w)
  \/ CheckRate(w)
  \/ LoadVault(w)
  \/ StoreGet(w)
  \/ StoreSet(w)
  \/ Unmask(w)
  \/ Post(w)
  \/ Commit(w)
  \/ Increment(w)

Disturb(w) ==
  \/ PostUnanswered(w)
  \/ Raise(w)
  \/ LoseWorker(w)
  \/ TimeLimit(w)

Environment ==
  \/ \E i \in 1..Len(outbox), s \in {"delivered", "opened", "converted"} : Receipt(i, s)
  \/ \E x \in Contacts : OptOut(x)
  \/ \E s \in Sessions : Expire(s)
  \/ NextDay

Next ==
  \/ Approve
  \/ \E t \in Requests : Take(t)
  \/ \E w \in Workers : Advance(w) \/ Disturb(w)
  \/ Environment

Spec == Init /\ [][Next]_vars

\* Celery keeps delivering queued tasks and a running task keeps running;
\* nothing obliges an RM, a provider, a customer or a fault to act.
Fairness ==
  /\ \A t \in Requests : WF_vars(Take(t))
  /\ \A w \in Workers : WF_vars(Advance(w))

FairSpec == Spec /\ Fairness

------------------------------------------------------------------------------
(* Properties.                                                             *)

WorkerPcs == {"idle", "dnd", "rate", "vault", "storeGet", "storeSet",
              "unmask", "post", "commit", "incr"}
TaskStates == {"none", "queued", "running",
               "sent", "blocked", "missing", "failed", "killed"}
Settled == {"sent", "blocked", "missing", "failed", "killed"}

\* The places of an execution that has passed can_send.
Past == {"vault", "storeGet", "storeSet", "unmask", "post", "commit", "incr"}

Messages == 1..Len(outbox)
MessagesOf(c) == {i \in Messages : outbox[i].camp = c}

IsVault(v) ==
  /\ DOMAIN v \subseteq Tokens
  /\ IsFiniteSet(DOMAIN v)
  /\ v \in [DOMAIN v -> Contacts]

RowType ==
  [body : Texts, session : Sessions, sent : BOOLEAN, pmid : Nat,
   delivered : BOOLEAN, opened : BOOLEAN, converted : BOOLEAN]
RequestType ==
  [pc : {"idle", "refused", "selected", "committed", "accepted"},
   camp : Campaigns \cup {NoId}, edit : Edits \cup {NoEdit}, seen : Texts]
TaskType ==
  [status : TaskStates, camp : Campaigns \cup {NoId}, retries : 0..MaxRetries,
   lost : 0..MaxLost]
MessageType ==
  [camp : Campaigns, task : Requests, to : Contacts,
   body : Texts \cup {TemplateText}, late : BOOLEAN]

RowsTyped == row \in [Campaigns -> RowType]

RequestsTyped ==
  /\ req \in [Requests -> RequestType]
  /\ \A r \in Requests : req[r].pc # "idle" => req[r].camp \in Campaigns

TasksTyped ==
  /\ task \in [Requests -> TaskType]
  /\ \A t \in Requests :
       task[t].status # "none" => req[t].pc = "accepted" /\ task[t].camp = req[t].camp

WorkerTyped(w) ==
  /\ wk[w] = [pc |-> wk[w].pc, task |-> wk[w].task, body |-> wk[w].body,
              session |-> wk[w].session, token |-> wk[w].token,
              seen |-> wk[w].seen, to |-> wk[w].to, id |-> wk[w].id]
  /\ wk[w].pc \in WorkerPcs
  /\ wk[w].token \in Tokens
  /\ IsVault(wk[w].seen)
  /\ wk[w].body \in Texts
  /\ wk[w].id \in Nat
  /\ wk[w].pc # "idle" =>
       /\ wk[w].task \in Requests
       /\ task[wk[w].task].status # "none"
       /\ Contact[CampOf(w)] \in Contacts
  /\ wk[w].pc \notin {"idle", "post", "commit", "incr"} => wk[w].session \in Sessions
  /\ wk[w].pc = "post" => wk[w].to \in Contacts

WorkersTyped == DOMAIN wk = Workers /\ \A w \in Workers : WorkerTyped(w)

VaultsTyped == DOMAIN vault = Sessions /\ \A s \in Sessions : IsVault(vault[s])

RecordsTyped ==
  /\ rate \in [RateKeys -> Nat]
  /\ dnd \subseteq Contacts
  /\ day \in Days
  /\ outbox \in Seq(MessageType)
  /\ approved \in [Campaigns -> SUBSET Texts]

\* Type invariant: the row, the request and task records, the locals of a
\* worker, that a stage past "idle" knows its task, session and campaign, and
\* that a task exists only for an accepted approve call, about its campaign.
TypeOK ==
  /\ RowsTyped
  /\ RequestsTyped
  /\ TasksTyped
  /\ WorkersTyped
  /\ VaultsTyped
  /\ RecordsTyped

\* RM approval is mandatory before any message is sent (outreach.py:9):
\* every message a provider accepted carries a text that an RM confirmed for
\* that campaign, whatever edits, retries and redeliveries raced with it.
\* Templated e-mail is left out: the template takes the place of the text.
SentTextWasApproved ==
  \A i \in Messages :
    outbox[i].camp \notin Templated => outbox[i].body \in approved[outbox[i].camp]

\* The recipient resolved from the vault is the campaign's own customer
\* (outreach_dispatch.py:6), in spite of concurrent writers of the vault.
RightRecipient ==
  \A i \in Messages : outbox[i].to = Contact[outbox[i].camp]

\* An opt-out stops the messages to a contact, retries included: only the
\* executions that had consulted the registry before it may still send,
\* one message each.
OptOutTakesEffect ==
  \A x \in Contacts :
    Cardinality({i \in Messages : outbox[i].to = x /\ outbox[i].late})
      <= Cardinality(Workers)

\* sent_at is set only for a message some provider accepted for this very
\* campaign, and provider_message_id is that message's; this is what lets a
\* receipt find its campaign and no other.
SentRecordsAcceptedMessage ==
  \A c \in Campaigns :
    /\ row[c].sent <=> row[c].pmid # NoId
    /\ row[c].sent => row[c].pmid \in MessagesOf(c)

\* Each rung of the delivery funnel implies the ones below it, however the
\* receipts are lost, repeated or reordered.
FunnelOrder ==
  \A c \in Campaigns :
    /\ row[c].converted => row[c].opened
    /\ row[c].opened => row[c].delivered
    /\ row[c].delivered => row[c].sent

\* Executions past can_send that may yet be counted for a channel and contact.
InFlight(ch, x) ==
  {w \in Workers : /\ wk[w].pc \in Past
                   /\ Channel[CampOf(w)] = ch
                   /\ Contact[CampOf(w)] = x}

\* can_send and increment_rate_limit are a check and an act with a send in
\* between, so a daily counter can pass its limit, but by no more than one
\* per other execution in flight; those still in flight count towards today,
\* whichever day they were let through on.
OvershootBounded ==
  \A ch \in Channels, x \in Contacts, d \in Days :
    rate[<<ch, x, d>>] + (IF d = day THEN Cardinality(InFlight(ch, x)) ELSE 0)
      < LIMITS[ch] + Cardinality(Workers)

\* One approval queues one task, and its executions hand the provider at
\* most one message each: retries and lost workers bound the duplicates.
SendsPerApprovalBounded ==
  \A t \in Requests :
    Cardinality({i \in Messages : outbox[i].task = t})
      <= 1 + task[t].retries + task[t].lost

\* A task that reports "sent" sent a message of its own and the campaign
\* shows as sent; a task that reports "blocked" or "missing" without having
\* raised or lost its worker sent nothing.
OutcomeIsHonest ==
  \A t \in Requests :
    LET own == {i \in Messages : outbox[i].task = t} IN
    /\ task[t].status = "sent" => own # {} /\ row[task[t].camp].sent
    /\ task[t].status \in {"blocked", "missing"} /\ task[t].retries + task[t].lost = 0
         => own = {}

\* Every queued task is eventually settled: retries are finite and each
\* execution ends.
EveryTaskSettles ==
  \A t \in Requests : task[t].status = "queued" ~> task[t].status \in Settled

------------------------------------------------------------------------------
(* Refinement: what this module shows of the campaign's lifecycle.         *)

Stage(c) ==
  IF MessagesOf(c) # {} THEN "accepted"
  ELSE IF approved[c] # {} THEN "approved"
  ELSE "draft"

\* get_outreach_status: the highest timestamp that is set.
DeliveryStatus(c) ==
  CASE row[c].converted -> "converted"
    [] ~row[c].converted /\ row[c].opened -> "opened"
    [] ~row[c].converted /\ ~row[c].opened /\ row[c].delivered -> "delivered"
    [] ~row[c].converted /\ ~row[c].opened /\ ~row[c].delivered /\ row[c].sent -> "sent"
    [] OTHER -> "pending"

Lifecycle == INSTANCE OutreachLifecycle
  WITH stage  <- [c \in Campaigns |-> Stage(c)],
       status <- [c \in Campaigns |-> DeliveryStatus(c)]

\* The dispatch path implements the abstract campaign lifecycle.
LifecycleHolds == Lifecycle!LSpec

==============================================================================

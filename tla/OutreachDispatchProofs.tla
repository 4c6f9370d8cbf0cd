------------------------ MODULE OutreachDispatchProofs ------------------------
(***************************************************************************)
(* Theorems about OutreachDispatch, for every number of campaigns, approve *)
(* calls and workers, every limit and every bound on retries and losses.   *)
(***************************************************************************)
EXTENDS OutreachDispatch, FiniteSetTheorems, TLAPS

------------------------------------------------------------------------------
(* Facts about the data.                                                   *)

\* A fresh vault is a vault.
LEMMA EmptyVaultIsVault == IsVault(EmptyVault)
  <1>1. DOMAIN EmptyVault = {}  BY DEF EmptyVault
  <1>2. EmptyVault \in [{} -> Contacts]  BY DEF EmptyVault
  <1> QED  BY <1>1, <1>2, FS_EmptySet DEF IsVault

\* dict.update with one entry keeps a vault a vault.
LEMMA PutTokenIsVault ==
  ASSUME NEW v, IsVault(v), NEW tok \in Tokens, NEW x \in Contacts
  PROVE  IsVault(PutToken(v, tok, x))
  <1> DEFINE u == PutToken(v, tok, x)
  <1>1. DOMAIN u = DOMAIN v \cup {tok}  BY DEF PutToken
  <1>2. IsFiniteSet(DOMAIN u)  BY <1>1, FS_AddElement DEF IsVault
  <1>3. u \in [DOMAIN u -> Contacts]  BY <1>1 DEF PutToken, IsVault
  <1>4. DOMAIN u \subseteq Tokens  BY <1>1 DEF IsVault
  <1> QED  BY <1>2, <1>3, <1>4 DEF IsVault

\* The token the worker makes up is a token: its number is the vault's size.
LEMMA FreshTokenIsToken ==
  ASSUME NEW v, IsVault(v), NEW c
  PROVE  <<Kind(c), Cardinality(DOMAIN v) + 1>> \in Tokens
  <1>1. Cardinality(DOMAIN v) \in Nat  BY FS_CardinalityType DEF IsVault
  <1>2. Kind(c) \in {"PHONE", "EMAIL"}  BY DEF Kind
  <1> QED  BY <1>1, <1>2 DEF Tokens

\* The token of an execution that has none yet is well typed.
LEMMA NoTokenIsToken == NoToken \in Tokens
  BY DEF NoToken, Tokens

------------------------------------------------------------------------------
(* Type correctness.                                                       *)

\* A step keeps every task that exists, and what it is about.
TasksKept ==
  \A t \in Requests :
    task[t].status # "none" => task'[t].status # "none" /\ task'[t].camp = task[t].camp

\* A worker that did not move stays well typed, whatever happened to tasks.
LEMMA OneWorkerMoves ==
  ASSUME TypeOK, TasksKept, NEW w \in Workers, DOMAIN wk' = Workers,
         \A x \in Workers \ {w} : wk'[x] = wk[x], WorkerTyped(w)'
  PROVE  WorkersTyped'
  <1> SUFFICES ASSUME NEW x \in Workers, x # w  PROVE WorkerTyped(x)'
    BY DEF WorkersTyped
  <1>1. wk'[x] = wk[x]  OBVIOUS
  <1>2. WorkerTyped(x)  BY DEF TypeOK, WorkersTyped
  <1>3. ASSUME wk[x].pc # "idle"
        PROVE  /\ task'[wk[x].task].status # "none"
               /\ task'[wk[x].task].camp = task[wk[x].task].camp
    BY <1>2, <1>3 DEF WorkerTyped, TasksKept
  <1> QED  BY <1>1, <1>2, <1>3 DEF WorkerTyped, CampOf

\* A step that leaves every worker where it is keeps the workers well typed.
LEMMA NoWorkerMoves ==
  ASSUME TypeOK, TasksKept, UNCHANGED wk
  PROVE  WorkersTyped'
  <1> SUFFICES ASSUME NEW x \in Workers  PROVE WorkerTyped(x)'
    BY DEF TypeOK, WorkersTyped
  <1>2. WorkerTyped(x)  BY DEF TypeOK, WorkersTyped
  <1>3. ASSUME wk[x].pc # "idle"
        PROVE  /\ task'[wk[x].task].status # "none"
               /\ task'[wk[x].task].camp = task[wk[x].task].camp
    BY <1>2, <1>3 DEF WorkerTyped, TasksKept
  <1> QED  BY <1>2, <1>3 DEF WorkerTyped, CampOf

\* A worker that has put its task down is well typed.
LEMMA IdleWorkerTyped ==
  ASSUME NEW w \in Workers, wk'[w] = IdleWorker
  PROVE  WorkerTyped(w)'
  BY EmptyVaultIsVault, NoTokenIsToken
  DEF WorkerTyped, IdleWorker, WorkerPcs, Texts, NoId

\* However an execution ends, the tasks and the workers stay well typed.
LEMMA FinishTyped ==
  ASSUME TypeOK, NEW w \in Workers, wk[w].pc # "idle",
         NEW s \in TaskStates \ {"none"}, Finish(w, s), UNCHANGED req
  PROVE  TasksTyped' /\ WorkersTyped'
  <1> DEFINE t == wk[w].task
  <1>1. t \in Requests  BY DEF TypeOK, WorkersTyped, WorkerTyped
  <1>2. TasksTyped /\ task[t].status # "none"
    BY DEF TypeOK, WorkersTyped, WorkerTyped
  <1>3. TasksTyped'  BY <1>1, <1>2 DEF Finish, TasksTyped, TaskType
  <1>4. TasksKept  BY <1>1, <1>2 DEF Finish, TasksTyped, TaskType, TasksKept
  <1>5. /\ DOMAIN wk' = Workers
        /\ wk'[w] = IdleWorker
        /\ \A x \in Workers \ {w} : wk'[x] = wk[x]
    BY DEF TypeOK, WorkersTyped, Finish
  <1> QED  BY <1>3, <1>4, <1>5, IdleWorkerTyped, OneWorkerMoves

\* A task put back on the queue with a retry to spare is a task.
LEMMA RequeuedTyped ==
  ASSUME NEW x \in TaskType, x.retries < MaxRetries
  PROVE  /\ Requeued(x) \in TaskType
         /\ Requeued(x).status # "none"
         /\ Requeued(x).camp = x.camp
  <1>1. x.retries + 1 \in 0..MaxRetries  BY ConstantsAssumption DEF TaskType
  <1> QED  BY <1>1 DEF Requeued, TaskType, TaskStates

\* self.retry keeps the tasks and the workers well typed: the retries it
\* counts never exceed MaxRetries.
LEMMA RetryOrFailTyped ==
  ASSUME TypeOK, NEW w \in Workers, wk[w].pc # "idle", RetryOrFail(w), UNCHANGED req
  PROVE  TasksTyped' /\ WorkersTyped'
  <1> DEFINE t == wk[w].task
  <1>1. t \in Requests  BY DEF TypeOK, WorkersTyped, WorkerTyped
  <1>2. TasksTyped /\ task[t].status # "none"
    BY DEF TypeOK, WorkersTyped, WorkerTyped
  <1>3. task' = [task EXCEPT ![t] = IF task[t].retries < MaxRetries
                                    THEN Requeued(task[t])
                                    ELSE [task[t] EXCEPT !.status = "failed"]]
    BY DEF RetryOrFail
  <1>4. task[t] \in TaskType  BY <1>1, <1>2 DEF TasksTyped
  <1>5. task'[t] \in TaskType /\ task'[t].status # "none" /\ task'[t].camp = task[t].camp
    <2>1. CASE task[t].retries < MaxRetries
      <3>1. task'[t] = Requeued(task[t])  BY <1>1, <1>2, <1>3, <2>1 DEF TasksTyped
      <3> QED  BY <1>4, <2>1, <3>1, RequeuedTyped
    <2>2. CASE ~(task[t].retries < MaxRetries)
      <3>1. task'[t] = [task[t] EXCEPT !.status = "failed"]
        BY <1>1, <1>2, <1>3, <2>2 DEF TasksTyped
      <3> QED  BY <1>4, <3>1 DEF TaskType, TaskStates
    <2> QED  BY <2>1, <2>2
  <1>6. \A x \in Requests \ {t} : task'[x] = task[x]
    BY <1>1, <1>2, <1>3 DEF TasksTyped
  <1>7. TasksTyped'
    BY <1>1, <1>2, <1>3, <1>5, <1>6 DEF TasksTyped
  <1>8. TasksKept  BY <1>5, <1>6 DEF TasksKept
  <1>9. /\ DOMAIN wk' = Workers
        /\ wk'[w] = IdleWorker
        /\ \A x \in Workers \ {w} : wk'[x] = wk[x]
    BY DEF TypeOK, WorkersTyped, RetryOrFail
  <1> QED  BY <1>7, <1>8, <1>9, IdleWorkerTyped, OneWorkerMoves

\* The drafts, the idle workers and the empty Redis are well typed.
LEMMA TypeInit == Init => TypeOK
  <1> SUFFICES ASSUME Init  PROVE TypeOK
    OBVIOUS
  <1>1. RowsTyped
    BY ConstantsAssumption DEF Init, RowsTyped, RowType, Texts, Sessions, NoId
  <1>2. RequestsTyped  BY DEF Init, RequestsTyped, RequestType, Texts
  <1>3. TasksTyped
    BY ConstantsAssumption DEF Init, TasksTyped, TaskType, TaskStates
  <1>4. WorkersTyped
    BY EmptyVaultIsVault, NoTokenIsToken
    DEF Init, WorkersTyped, WorkerTyped, IdleWorker, WorkerPcs, Texts, NoId
  <1>5. VaultsTyped  BY EmptyVaultIsVault DEF Init, VaultsTyped
  <1>6. RecordsTyped
    BY ConstantsAssumption DEF Init, RecordsTyped, Days
  <1> QED  BY <1>1, <1>2, <1>3, <1>4, <1>5, <1>6 DEF TypeOK

\* The steps that touch neither a task nor a worker.
LEMMA TypeApprove ==
  ASSUME TypeOK, Approve  PROVE TypeOK'
  <1> USE DEF TypeOK
  <1>1. ASSUME NEW r \in Requests, NEW c \in Campaigns, ApproveRefused(r, c)
        PROVE  TypeOK'
    <2>1. RequestsTyped'
      BY <1>1 DEF ApproveRefused, RequestsTyped, RequestType
    <2>2. TasksTyped'
      BY <1>1 DEF ApproveRefused, TasksTyped, RequestsTyped, RequestType
    <2>3. WorkersTyped'
      BY <1>1, NoWorkerMoves DEF ApproveRefused, TasksKept
    <2> QED
      BY <1>1, <2>1, <2>2, <2>3
      DEF ApproveRefused, RowsTyped, VaultsTyped, RecordsTyped
  <1>2. ASSUME NEW r \in Requests, NEW c \in Campaigns,
               NEW e \in Edits \cup {NoEdit}, ApproveSelect(r, c, e)
        PROVE  TypeOK'
    <2>1. RequestsTyped'
      BY <1>2 DEF ApproveSelect, RequestsTyped, RequestType, RowsTyped, RowType
    <2>2. TasksTyped'
      BY <1>2 DEF ApproveSelect, TasksTyped, RequestsTyped, RequestType
    <2>3. WorkersTyped'
      BY <1>2, NoWorkerMoves DEF ApproveSelect, TasksKept
    <2> QED
      BY <1>2, <2>1, <2>2, <2>3
      DEF ApproveSelect, RowsTyped, VaultsTyped, RecordsTyped
  <1>3. ASSUME NEW r \in Requests, ApproveCommit(r)
        PROVE  TypeOK'
    <2> DEFINE c == req[r].camp
    <2>1. c \in Campaigns  BY <1>3 DEF ApproveCommit, RequestsTyped
    <2>2. Confirmed(r) \in Texts  BY DEF RequestsTyped, RequestType, Confirmed, Texts
    <2>3. RowsTyped'
      <3>1. \A f \in Campaigns : row[f] \in RowType  BY DEF RowsTyped
      <3>2. HdrSession[c] # NoSession => HdrSession[c] \in Sessions
        BY <2>1 DEF Sessions
      <3>3. req[r].edit # NoEdit => req[r].edit \in Texts
        BY DEF RequestsTyped, RequestType, Texts
      <3> QED  BY <1>3, <2>1, <3>1, <3>2, <3>3 DEF ApproveCommit, RowsTyped, RowType
    <2>4. RequestsTyped'
      BY <1>3 DEF ApproveCommit, RequestsTyped, RequestType
    <2>5. TasksTyped'
      BY <1>3 DEF ApproveCommit, TasksTyped, RequestsTyped, RequestType
    <2>6. WorkersTyped'
      BY <1>3, NoWorkerMoves DEF ApproveCommit, TasksKept
    <2>7. RecordsTyped'
      BY <1>3, <2>1, <2>2 DEF ApproveCommit, RecordsTyped
    <2> QED
      BY <1>3, <2>3, <2>4, <2>5, <2>6, <2>7 DEF ApproveCommit, VaultsTyped
  <1>4. ASSUME NEW r \in Requests, ApproveQueue(r)
        PROVE  TypeOK'
    <2>1. RequestsTyped'
      BY <1>4 DEF ApproveQueue, RequestsTyped, RequestType
    <2>2. TasksTyped'
      BY <1>4, ConstantsAssumption
      DEF ApproveQueue, TasksTyped, TaskType, TaskStates, RequestsTyped, RequestType
    <2>3. TasksKept
      BY <1>4 DEF ApproveQueue, TasksTyped, TasksKept
    <2>4. WorkersTyped'
      BY <1>4, <2>3, NoWorkerMoves DEF ApproveQueue
    <2> QED
      BY <1>4, <2>1, <2>2, <2>4
      DEF ApproveQueue, RowsTyped, VaultsTyped, RecordsTyped
  <1> QED  BY <1>1, <1>2, <1>3, <1>4 DEF Approve

\* A receipt leaves a row a row.
LEMMA ReceivedTyped ==
  ASSUME NEW x \in RowType, NEW s
  PROVE  Received(x, s) \in RowType
  <1> DEFINE o == x.opened \/ s \in {"opened", "converted"}
             k == x.converted \/ s = "converted"
  <1>1. o \in BOOLEAN /\ k \in BOOLEAN  OBVIOUS
  <1>2. Received(x, s) = [x EXCEPT !.delivered = TRUE, !.opened = o, !.converted = k]
    BY DEF Received
  <1> HIDE DEF o, k
  <1> QED  BY <1>1, <1>2 DEF RowType

\* Receipts, opt-outs, expiring vaults and midnight keep the types.
LEMMA TypeEnvironment ==
  ASSUME TypeOK, Environment  PROVE TypeOK'
  <1> USE DEF TypeOK
  <1>1. ASSUME NEW i, NEW s, Receipt(i, s)  PROVE TypeOK'
    <2>1. PICK c \in Campaigns : row' = [row EXCEPT ![c] = Received(row[c], s)]
      BY <1>1 DEF Receipt
    <2>2. Received(row[c], s) \in RowType  BY ReceivedTyped DEF RowsTyped
    <2>3. RowsTyped'  BY <2>1, <2>2 DEF RowsTyped
    <2>4. WorkersTyped'  BY <1>1, NoWorkerMoves DEF Receipt, TasksKept
    <2> QED
      BY <1>1, <2>3, <2>4 DEF Receipt, RequestsTyped, TasksTyped, VaultsTyped, RecordsTyped
  <1>2. ASSUME NEW x \in Contacts, OptOut(x)  PROVE TypeOK'
    <2>1. WorkersTyped'  BY <1>2, NoWorkerMoves DEF OptOut, TasksKept
    <2> QED
      BY <1>2, <2>1
      DEF OptOut, RowsTyped, RequestsTyped, TasksTyped, VaultsTyped, RecordsTyped
  <1>3. ASSUME NEW s \in Sessions, Expire(s)  PROVE TypeOK'
    <2>1. VaultsTyped'  BY <1>3, EmptyVaultIsVault DEF Expire, VaultsTyped
    <2>2. WorkersTyped'  BY <1>3, NoWorkerMoves DEF Expire, TasksKept
    <2> QED
      BY <1>3, <2>1, <2>2
      DEF Expire, RowsTyped, RequestsTyped, TasksTyped, RecordsTyped
  <1>4. ASSUME NextDay  PROVE TypeOK'
    <2>1. day + 1 \in Days
      BY <1>4, ConstantsAssumption DEF NextDay, RecordsTyped, Days
    <2>2. WorkersTyped'  BY <1>4, NoWorkerMoves DEF NextDay, TasksKept
    <2> QED
      BY <1>4, <2>1, <2>2
      DEF NextDay, RowsTyped, RequestsTyped, TasksTyped, VaultsTyped, RecordsTyped
  <1> QED  BY <1>1, <1>2, <1>3, <1>4 DEF Environment

\* Starting a task.
LEMMA TypeTake ==
  ASSUME TypeOK, NEW t \in Requests, Take(t)  PROVE TypeOK'
  <1> USE DEF TypeOK
  <1> DEFINE c == task[t].camp
  <1>1. ASSUME NEW w \in Workers, Load(w, t)  PROVE TypeOK'
    <2>1. task[t].status = "queued"  BY <1>1 DEF Load
    <2>2. c \in Campaigns /\ Contact[c] \in Contacts
      BY <1>1, <2>1 DEF Load, TasksTyped, RequestsTyped, Contacts
    <2>3. TasksTyped'  BY <1>1, <2>1 DEF Load, TasksTyped, TaskType, TaskStates
    <2>4. TasksKept  BY <1>1, <2>1 DEF Load, TasksTyped, TaskType, TasksKept
    <2>5. task'[t].camp = c /\ task'[t].status = "running"
      BY <1>1 DEF Load, TasksTyped, TaskType
    <2>6. /\ DOMAIN wk' = Workers
          /\ wk'[w] = [IdleWorker EXCEPT !.pc = "dnd", !.task = t,
                                         !.body = row[c].body, !.session = row[c].session]
          /\ \A x \in Workers \ {w} : wk'[x] = wk[x]
      BY <1>1 DEF Load, WorkersTyped
    <2>7. row[c].body \in Texts /\ row[c].session \in Sessions
      BY <2>2 DEF RowsTyped, RowType
    <2>8. WorkerTyped(w)'
      <3> DEFINE b == row[c].body
                 s == row[c].session
      <3>1. wk'[w] = [pc |-> "dnd", task |-> t, body |-> b, session |-> s,
                      token |-> NoToken, seen |-> EmptyVault, to |-> NoContact,
                      id |-> NoId]
        BY <2>6 DEF IdleWorker
      <3>2. b \in Texts /\ s \in Sessions  BY <2>7
      <3> HIDE DEF b, s
      <3> QED
        BY <2>2, <2>5, <3>1, <3>2, EmptyVaultIsVault, NoTokenIsToken
        DEF WorkerTyped, WorkerPcs, CampOf, NoId
    <2>9. WorkersTyped'  BY <2>4, <2>6, <2>8, OneWorkerMoves
    <2> QED
      BY <1>1, <2>3, <2>9 DEF Load, RowsTyped, RequestsTyped, VaultsTyped, RecordsTyped
  <1>2. ASSUME NEW w \in Workers, LoadNoContact(w, t)  PROVE TypeOK'
    <2>1. TasksTyped'  BY <1>2 DEF LoadNoContact, TasksTyped, TaskType, TaskStates
    <2>2. TasksKept  BY <1>2 DEF LoadNoContact, TasksTyped, TaskType, TasksKept
    <2>3. WorkersTyped'  BY <1>2, <2>2, NoWorkerMoves DEF LoadNoContact
    <2> QED
      BY <1>2, <2>1, <2>3
      DEF LoadNoContact, RowsTyped, RequestsTyped, VaultsTyped, RecordsTyped
  <1> QED  BY <1>1, <1>2 DEF Take

\* What a message handed to a provider is made of.
LEMMA AcceptedTyped ==
  ASSUME TypeOK, NEW w \in Workers, wk[w].pc = "post", Accepted(w)
  PROVE  outbox' \in Seq(MessageType)
  <1>1. WorkerTyped(w)  BY DEF TypeOK, WorkersTyped
  <1>2. wk[w].task \in Requests /\ CampOf(w) \in Campaigns
    BY <1>1 DEF WorkerTyped, TypeOK, TasksTyped, RequestsTyped, CampOf
  <1>3. wk[w].to \in Contacts  BY <1>1 DEF WorkerTyped
  <1>4. Rendered(w) \in Texts \cup {TemplateText}  BY <1>1 DEF WorkerTyped, Rendered
  <1> DEFINE late == wk[w].to \in dnd
             m == [camp |-> CampOf(w), task |-> wk[w].task, to |-> wk[w].to,
                   body |-> Rendered(w), late |-> late]
  <1>5. late \in BOOLEAN  OBVIOUS
  <1>6. outbox' = Append(outbox, m)  BY DEF Accepted
  <1>7. m \in MessageType
    <2> HIDE DEF late
    <2> QED  BY <1>2, <1>3, <1>4, <1>5 DEF MessageType
  <1> HIDE DEF m
  <1> QED  BY <1>6, <1>7 DEF TypeOK, RecordsTyped

\* A step of an execution that leaves the tasks alone.
LEMMA LocalStep ==
  ASSUME TypeOK, NEW w \in Workers, UNCHANGED task, NEW u, wk' = [wk EXCEPT ![w] = u],
         WorkerTyped(w)'
  PROVE  TasksKept /\ WorkersTyped'
  <1>1. TasksKept  BY DEF TasksKept
  <1>2. DOMAIN wk' = Workers /\ \A x \in Workers \ {w} : wk'[x] = wk[x]
    BY DEF TypeOK, WorkersTyped
  <1> QED  BY <1>1, <1>2, OneWorkerMoves

\* What is known of an execution that is under way.
LEMMA Busy ==
  ASSUME TypeOK, NEW w \in Workers, wk[w].pc # "idle"
  PROVE  /\ WorkerTyped(w)
         /\ wk[w].task \in Requests
         /\ task[wk[w].task].status # "none"
         /\ CampOf(w) \in Campaigns
         /\ Contact[CampOf(w)] \in Contacts
         /\ CampOf(w) = req[wk[w].task].camp
  BY DEF TypeOK, WorkersTyped, WorkerTyped, TasksTyped, RequestsTyped, CampOf

\* Every await of dispatch_campaign that returns keeps the types.
LEMMA TypeAdvance ==
  ASSUME TypeOK, NEW w \in Workers, Advance(w)  PROVE TypeOK'
  <1> USE DEF TypeOK
  <1>0. wk[w].pc # "idle"
    BY DEF Advance, CheckDND, CheckRate, LoadVault, StoreGet, StoreSet, Unmask,
           Post, Commit, Increment
  <1>a. /\ WorkerTyped(w) /\ wk[w].task \in Requests /\ CampOf(w) \in Campaigns
        /\ task[wk[w].task].status # "none"
        /\ Contact[CampOf(w)] \in Contacts
    BY <1>0, Busy
  <1>b. "blocked" \in TaskStates \ {"none"} /\ "sent" \in TaskStates \ {"none"}
    BY DEF TaskStates
  <1>1. CASE CheckDND(w)
    <2>1. TasksTyped' /\ WorkersTyped'
      <3>1. CASE Contact[CampOf(w)] \in dnd
        BY <1>0, <1>1, <1>b, <3>1, FinishTyped DEF CheckDND
      <3>2. CASE Contact[CampOf(w)] \notin dnd
        <4>1. wk' = [wk EXCEPT ![w].pc = "rate"] /\ UNCHANGED task
          BY <1>1, <3>2 DEF CheckDND
        <4>2. WorkerTyped(w)'
          BY <1>1, <1>a, <4>1 DEF CheckDND, WorkersTyped, WorkerTyped, WorkerPcs, CampOf
        <4> QED  BY <1>1, <4>1, <4>2, LocalStep DEF CheckDND, TasksTyped
      <3> QED  BY <3>1, <3>2
    <2> QED
      BY <1>1, <2>1 DEF CheckDND, RowsTyped, RequestsTyped, VaultsTyped, RecordsTyped
  <1>2. CASE CheckRate(w)
    <2>1. TasksTyped' /\ WorkersTyped'
      <3>1. CASE ~(rate[RateKey(CampOf(w), day)] < LIMITS[Channel[CampOf(w)]])
        BY <1>0, <1>2, <1>b, <3>1, FinishTyped DEF CheckRate
      <3>2. CASE rate[RateKey(CampOf(w), day)] < LIMITS[Channel[CampOf(w)]]
        <4>1. wk' = [wk EXCEPT ![w].pc = "vault"] /\ UNCHANGED task
          BY <1>2, <3>2 DEF CheckRate
        <4>2. WorkerTyped(w)'
          BY <1>2, <1>a, <4>1 DEF CheckRate, WorkersTyped, WorkerTyped, WorkerPcs, CampOf
        <4> QED  BY <1>2, <4>1, <4>2, LocalStep DEF CheckRate, TasksTyped
      <3> QED  BY <3>1, <3>2
    <2> QED
      BY <1>2, <2>1 DEF CheckRate, RowsTyped, RequestsTyped, VaultsTyped, RecordsTyped
  <1>3. CASE LoadVault(w)
    <2> DEFINE v == vault[wk[w].session]
               fresh == <<Kind(CampOf(w)), Cardinality(DOMAIN v) + 1>>
    <2>1. wk[w].session \in Sessions /\ IsVault(v)
      BY <1>3, <1>a DEF LoadVault, WorkerTyped, VaultsTyped
    <2>2. fresh \in Tokens  BY <2>1, FreshTokenIsToken
    <2>3. PICK tok \in Tokens, p \in {"unmask", "storeGet"} :
            wk' = [wk EXCEPT ![w].pc = p, ![w].token = tok]
      BY <1>3, <2>1, <2>2 DEF LoadVault, IsVault
    <2>4. WorkerTyped(w)'
      BY <1>3, <1>a, <2>1, <2>3 DEF LoadVault, WorkersTyped, WorkerTyped, WorkerPcs, CampOf
    <2>5. TasksTyped' /\ WorkersTyped'
      BY <1>3, <2>3, <2>4, LocalStep DEF LoadVault, TasksTyped
    <2> QED
      BY <1>3, <2>5 DEF LoadVault, RowsTyped, RequestsTyped, VaultsTyped, RecordsTyped
  <1>4. CASE StoreGet(w)
    <2>1. IsVault(vault[wk[w].session])
      BY <1>4, <1>a DEF StoreGet, WorkerTyped, VaultsTyped
    <2>2. WorkerTyped(w)'
      BY <1>4, <1>a, <2>1 DEF StoreGet, WorkersTyped, WorkerTyped, WorkerPcs, CampOf
    <2>3. TasksTyped' /\ WorkersTyped'
      BY <1>4, <2>2, LocalStep DEF StoreGet, TasksTyped
    <2> QED
      BY <1>4, <2>3 DEF StoreGet, RowsTyped, RequestsTyped, VaultsTyped, RecordsTyped
  <1>5. CASE StoreSet(w)
    <2> DEFINE u == PutToken(wk[w].seen, wk[w].token, Contact[CampOf(w)])
    <2>1. IsVault(u)  BY <1>a, PutTokenIsVault DEF WorkerTyped
    <2>2. vault' = [vault EXCEPT ![wk[w].session] = u]  BY <1>5 DEF StoreSet
    <2>3. VaultsTyped'
      <3> HIDE DEF u
      <3> QED  BY <2>1, <2>2 DEF VaultsTyped
    <2>4. WorkerTyped(w)'
      BY <1>5, <1>a, EmptyVaultIsVault DEF StoreSet, WorkersTyped, WorkerTyped, WorkerPcs, CampOf
    <2>5. TasksTyped' /\ WorkersTyped'
      BY <1>5, <2>4, LocalStep DEF StoreSet, TasksTyped
    <2> QED
      BY <1>5, <2>3, <2>5 DEF StoreSet, RowsTyped, RequestsTyped, RecordsTyped
  <1>6. CASE Unmask(w)
    <2> DEFINE v == vault[wk[w].session]
    <2>1. TasksTyped' /\ WorkersTyped'
      <3>1. CASE wk[w].token \notin DOMAIN v
        BY <1>0, <1>6, <3>1, RetryOrFailTyped DEF Unmask
      <3>2. CASE wk[w].token \in DOMAIN v
        <4>1. v[wk[w].token] \in Contacts
          BY <1>6, <1>a, <3>2 DEF Unmask, WorkerTyped, VaultsTyped, IsVault
        <4>2. /\ wk' = [wk EXCEPT ![w].pc = "post", ![w].to = v[wk[w].token],
                                  ![w].token = NoToken, ![w].session = NoSession]
              /\ UNCHANGED task
          BY <1>6, <3>2 DEF Unmask
        <4>3. WorkerTyped(w)'
          BY <1>6, <1>a, <4>1, <4>2, NoTokenIsToken
          DEF Unmask, WorkersTyped, WorkerTyped, WorkerPcs, CampOf
        <4> QED  BY <1>6, <4>2, <4>3, LocalStep DEF Unmask, TasksTyped
      <3> QED  BY <3>1, <3>2
    <2> QED
      BY <1>6, <2>1 DEF Unmask, RowsTyped, RequestsTyped, VaultsTyped, RecordsTyped
  <1>7. CASE Post(w)
    <2>1. outbox' \in Seq(MessageType)  BY <1>7, AcceptedTyped DEF Post
    <2> DEFINE n == Len(outbox) + 1
    <2>2. wk'[w] = [pc |-> "commit", task |-> wk[w].task, body |-> Draft,
                    session |-> NoSession, token |-> NoToken, seen |-> EmptyVault,
                    to |-> NoContact, id |-> n]
      BY <1>7 DEF Post, IdleWorker, WorkersTyped
    <2>3. n \in Nat  BY DEF RecordsTyped
    <2>4. WorkerTyped(w)'
      <3> HIDE DEF n
      <3>1. UNCHANGED task  BY <1>7 DEF Post
      <3> QED
        BY <1>a, <2>2, <2>3, <3>1, EmptyVaultIsVault, NoTokenIsToken
        DEF WorkerTyped, WorkerPcs, CampOf, Texts
    <2>5. TasksTyped' /\ WorkersTyped'
      BY <1>7, <2>4, LocalStep DEF Post, TasksTyped
    <2> QED
      BY <1>7, <2>1, <2>5 DEF Post, RowsTyped, RequestsTyped, VaultsTyped, RecordsTyped
  <1>8. CASE Commit(w)
    <2>1. RowsTyped'
      BY <1>8, <1>a DEF Commit, RowsTyped, RowType, WorkerTyped
    <2>2. WorkerTyped(w)'
      BY <1>8, <1>a DEF Commit, WorkersTyped, WorkerTyped, WorkerPcs, CampOf, NoId
    <2>3. TasksTyped' /\ WorkersTyped'
      BY <1>8, <2>2, LocalStep DEF Commit, TasksTyped
    <2> QED
      BY <1>8, <2>1, <2>3 DEF Commit, RequestsTyped, VaultsTyped, RecordsTyped
  <1>9. CASE Increment(w)
    <2>1. TasksTyped' /\ WorkersTyped'  BY <1>0, <1>9, <1>b, FinishTyped DEF Increment
    <2>2. rate' \in [RateKeys -> Nat]
      <3> DEFINE k == RateKey(CampOf(w), day)
      <3>1. rate' = [rate EXCEPT ![k] = rate[k] + 1]  BY <1>9 DEF Increment
      <3>2. Channel[CampOf(w)] \in Channels  BY <1>a, ConstantsAssumption
      <3>3. k \in RateKeys  BY <1>a, <3>2 DEF RateKey, RateKeys, RecordsTyped
      <3> HIDE DEF k
      <3> QED  BY <3>1, <3>3 DEF RecordsTyped
    <2>3. RecordsTyped'  BY <1>9, <2>2 DEF Increment, RecordsTyped
    <2> QED
      BY <1>9, <2>1, <2>3 DEF Increment, RowsTyped, RequestsTyped, VaultsTyped
  <1> QED
    BY <1>1, <1>2, <1>3, <1>4, <1>5, <1>6, <1>7, <1>8, <1>9 DEF Advance

\* Lost answers, exceptions, lost processes and timeouts keep the types.
LEMMA TypeDisturb ==
  ASSUME TypeOK, NEW w \in Workers, Disturb(w)  PROVE TypeOK'
  <1> USE DEF TypeOK
  <1>1. CASE PostUnanswered(w)
    <2>1. outbox' \in Seq(MessageType)  BY <1>1, AcceptedTyped DEF PostUnanswered
    <2>2. TasksTyped' /\ WorkersTyped'  BY <1>1, RetryOrFailTyped DEF PostUnanswered
    <2> QED
      BY <1>1, <2>1, <2>2
      DEF PostUnanswered, RowsTyped, RequestsTyped, VaultsTyped, RecordsTyped
  <1>2. CASE Raise(w)
    <2>1. TasksTyped' /\ WorkersTyped'  BY <1>2, RetryOrFailTyped DEF Raise
    <2> QED
      BY <1>2, <2>1 DEF Raise, RowsTyped, RequestsTyped, VaultsTyped, RecordsTyped
  <1>3. CASE LoseWorker(w)
    <2> DEFINE t == wk[w].task
    <2>1. t \in Requests /\ task[t].status # "none"  BY <1>3, Busy DEF LoseWorker
    <2>2. task[t] \in TaskType /\ task[t].lost + 1 \in 0..MaxLost
      BY <1>3, <2>1, ConstantsAssumption DEF LoseWorker, TasksTyped, TaskType
    <2>3. /\ task'[t] \in TaskType /\ task'[t].status # "none"
          /\ task'[t].camp = task[t].camp
          /\ \A x \in Requests \ {t} : task'[x] = task[x]
          /\ task' \in [Requests -> TaskType]
      BY <1>3, <2>1, <2>2 DEF LoseWorker, TasksTyped, TaskType, TaskStates
    <2>4. TasksTyped'
      BY <1>3, <2>1, <2>3 DEF LoseWorker, TasksTyped
    <2>5. TasksKept  BY <2>3 DEF TasksKept
    <2>6. /\ DOMAIN wk' = Workers
          /\ wk'[w] = IdleWorker
          /\ \A x \in Workers \ {w} : wk'[x] = wk[x]
      BY <1>3 DEF LoseWorker, WorkersTyped
    <2>7. WorkersTyped'  BY <2>5, <2>6, IdleWorkerTyped, OneWorkerMoves
    <2> QED
      BY <1>3, <2>4, <2>7 DEF LoseWorker, RowsTyped, RequestsTyped, VaultsTyped, RecordsTyped
  <1>4. CASE TimeLimit(w)
    <2>1. "killed" \in TaskStates \ {"none"}  BY DEF TaskStates
    <2>2. TasksTyped' /\ WorkersTyped'  BY <1>4, <2>1, FinishTyped DEF TimeLimit
    <2> QED
      BY <1>4, <2>2 DEF TimeLimit, RowsTyped, RequestsTyped, VaultsTyped, RecordsTyped
  <1> QED  BY <1>1, <1>2, <1>3, <1>4 DEF Disturb

\* The type invariant holds for every value of the constants.
THEOREM TypeCorrect == Spec => []TypeOK
  <1>1. Init => TypeOK  BY TypeInit
  <1>2. TypeOK /\ [Next]_vars => TypeOK'
    <2> SUFFICES ASSUME TypeOK, [Next]_vars  PROVE TypeOK'
      OBVIOUS
    <2>1. CASE UNCHANGED vars
      BY <2>1, NoWorkerMoves
      DEF vars, TypeOK, TasksKept, RowsTyped, RequestsTyped, TasksTyped, VaultsTyped,
          RecordsTyped
    <2> QED
      BY <2>1, TypeApprove, TypeTake, TypeAdvance, TypeDisturb, TypeEnvironment DEF Next
  <1> QED  BY <1>1, <1>2, PTL DEF Spec

------------------------------------------------------------------------------
(* Only approved texts are sent.  SentTextWasApproved says nothing of what  *)
(* is still on its way to a provider, so it is strengthened with what holds *)
(* of the row, of the calls that have read it and of the executions that    *)
(* have loaded it.                                                          *)

\* A row holds the draft until its first approval, an approved text after it.
RowHoldsApproved ==
  \A c \in Campaigns :
    row[c].body = Draft \/ row[c].body \in approved[c]

\* ... and once there has been an approval, the text is one of those approved.
RowApproved ==
  \A c \in Campaigns : approved[c] # {} => row[c].body \in approved[c]

\* A call that read the row before any approval read the draft.
CallReadDraft ==
  \A r \in Requests :
    req[r].pc = "selected" /\ approved[req[r].camp] = {} => req[r].seen = Draft

\* A call past its commit has approved its campaign.
CallApproved ==
  \A r \in Requests : req[r].pc \in {"committed", "accepted"} => approved[req[r].camp] # {}

\* An execution that has still to send carries an approved text.
ExecutionApproved(w) ==
  wk[w].pc \notin {"idle", "commit", "incr"} => wk[w].body \in approved[CampOf(w)]

ApprovalInv ==
  /\ TypeOK
  /\ RowHoldsApproved
  /\ RowApproved
  /\ CallReadDraft
  /\ CallApproved
  /\ \A w \in Workers : ExecutionApproved(w)
  /\ SentTextWasApproved

\* What the type invariant says of one message in the history.
LEMMA MessageTyped ==
  ASSUME TypeOK, NEW i \in Messages
  PROVE  /\ outbox[i].camp \in Campaigns
         /\ outbox[i].task \in Requests
         /\ outbox[i].to \in Contacts
  <1>1. outbox[i] \in MessageType  BY DEF TypeOK, RecordsTyped, Messages
  <1> QED  BY <1>1 DEF MessageType

\* Nothing is approved, queued or sent at the start.
LEMMA ApprovalInit == Init => ApprovalInv
  <1> SUFFICES ASSUME Init  PROVE ApprovalInv
    OBVIOUS
  <1>1. TypeOK  BY TypeInit
  <1>2. RowHoldsApproved /\ RowApproved /\ CallReadDraft /\ CallApproved
    BY DEF Init, RowHoldsApproved, RowApproved, CallReadDraft, CallApproved
  <1>3. \A w \in Workers : ExecutionApproved(w)
    BY DEF Init, ExecutionApproved, IdleWorker
  <1>4. SentTextWasApproved  BY DEF Init, SentTextWasApproved, Messages
  <1> QED  BY <1>1, <1>2, <1>3, <1>4 DEF ApprovalInv

\* An approve call keeps the invariant: the text its commit puts in the row
\* is the one it confirmed, or one that was there before.
LEMMA ApprovalByCall ==
  ASSUME ApprovalInv, TypeOK', Approve  PROVE ApprovalInv'
  <1> USE DEF ApprovalInv
  <1>0. ASSUME UNCHANGED <<outbox, wk>>, TasksKept,
               \A c \in Campaigns : approved[c] \subseteq approved'[c]
        PROVE  (\A w \in Workers : ExecutionApproved(w)') /\ SentTextWasApproved'
    <2>1. SentTextWasApproved'
      <3> SUFFICES ASSUME NEW i \in Messages, outbox[i].camp \notin Templated
                   PROVE  outbox[i].body \in approved'[outbox[i].camp]
        BY <1>0 DEF SentTextWasApproved, Messages
      <3>1. outbox[i].camp \in Campaigns  BY MessageTyped
      <3> QED  BY <1>0, <3>1 DEF SentTextWasApproved
    <2>2. ASSUME NEW w \in Workers  PROVE ExecutionApproved(w)'
      <3> SUFFICES ASSUME wk[w].pc \notin {"idle", "commit", "incr"}
                   PROVE  wk[w].body \in approved'[CampOf(w)']
        BY <1>0 DEF ExecutionApproved
      <3>1. CampOf(w)' = CampOf(w) /\ CampOf(w) \in Campaigns
        BY <1>0, Busy DEF CampOf, TasksKept
      <3> QED  BY <1>0, <3>1 DEF ExecutionApproved
    <2> QED  BY <2>1, <2>2
  <1>1. ASSUME NEW r \in Requests, NEW c \in Campaigns, ApproveRefused(r, c)
        PROVE  ApprovalInv'
    <2>1. TasksKept /\ UNCHANGED <<outbox, wk, row, approved>>
      BY <1>1 DEF ApproveRefused, TasksKept
    <2>2. CallReadDraft' /\ CallApproved'
      <3>1. req'[r].pc = "refused"
        BY <1>1 DEF ApproveRefused, TypeOK, RequestsTyped, RequestType
      <3>2. \A q \in Requests \ {r} : req'[q] = req[q]
        BY <1>1 DEF ApproveRefused, TypeOK, RequestsTyped
      <3> QED  BY <2>1, <3>1, <3>2 DEF CallReadDraft, CallApproved
    <2> QED  BY <1>0, <2>1, <2>2 DEF RowHoldsApproved, RowApproved
  <1>2. ASSUME NEW r \in Requests, NEW c \in Campaigns,
               NEW e \in Edits \cup {NoEdit}, ApproveSelect(r, c, e)
        PROVE  ApprovalInv'
    <2>1. TasksKept /\ UNCHANGED <<outbox, wk, row, approved>>
      BY <1>2 DEF ApproveSelect, TasksKept
    <2>2. CallReadDraft' /\ CallApproved'
      BY <1>2
      DEF ApproveSelect, CallReadDraft, CallApproved, RowHoldsApproved, TypeOK,
          RequestsTyped, RequestType
    <2> QED  BY <1>0, <2>1, <2>2 DEF RowHoldsApproved, RowApproved
  <1>3. ASSUME NEW r \in Requests, ApproveCommit(r)
        PROVE  ApprovalInv'
    <2> DEFINE c == req[r].camp
    <2>1. c \in Campaigns
      BY <1>3 DEF ApproveCommit, TypeOK, RequestsTyped
    <2>2. approved' = [approved EXCEPT ![c] = approved[c] \cup {Confirmed(r)}]
      BY <1>3 DEF ApproveCommit
    <2>3. \A d \in Campaigns : approved[d] \subseteq approved'[d]
      BY <2>2 DEF TypeOK, RecordsTyped
    <2>4. approved'[c] = approved[c] \cup {Confirmed(r)}
      BY <2>1, <2>2 DEF TypeOK, RecordsTyped
    <2>5. row'[c].body = (IF req[r].edit = NoEdit THEN row[c].body ELSE req[r].edit)
      BY <1>3, <2>1 DEF ApproveCommit, TypeOK, RowsTyped, RowType
    <2>6. row'[c].body \in approved'[c]
      <3>1. CASE req[r].edit # NoEdit
        BY <2>4, <2>5, <3>1 DEF Confirmed
      <3>2. CASE req[r].edit = NoEdit /\ approved[c] # {}
        BY <2>1, <2>4, <2>5, <3>2 DEF RowApproved
      <3>3. CASE req[r].edit = NoEdit /\ approved[c] = {}
        BY <1>3, <2>1, <2>4, <2>5, <3>3
        DEF ApproveCommit, RowHoldsApproved, CallReadDraft, Confirmed
      <3> QED  BY <3>1, <3>2, <3>3
    <2>7. \A d \in Campaigns \ {c} : row'[d] = row[d] /\ approved'[d] = approved[d]
      BY <1>3, <2>2 DEF ApproveCommit, TypeOK, RowsTyped, RecordsTyped
    <2>8. RowHoldsApproved' /\ RowApproved'
      BY <2>6, <2>7 DEF RowHoldsApproved, RowApproved
    <2>9. CallReadDraft' /\ CallApproved'
      <3>1. req'[r].pc = "committed" /\ req'[r].camp = c
        BY <1>3 DEF ApproveCommit, TypeOK, RequestsTyped, RequestType
      <3>2. \A q \in Requests \ {r} : req'[q] = req[q]
        BY <1>3 DEF ApproveCommit, TypeOK, RequestsTyped
      <3>3. \A q \in Requests : req[q].pc # "idle" => approved[req[q].camp] \subseteq approved'[req[q].camp]
        BY <2>3 DEF TypeOK, RequestsTyped
      <3> QED  BY <2>4, <3>1, <3>2, <3>3 DEF CallReadDraft, CallApproved
    <2>10. TasksKept /\ UNCHANGED <<outbox, wk>>
      BY <1>3 DEF ApproveCommit, TasksKept
    <2> QED  BY <1>0, <2>3, <2>8, <2>9, <2>10
  <1>4. ASSUME NEW r \in Requests, ApproveQueue(r)
        PROVE  ApprovalInv'
    <2>1. TasksKept
      BY <1>4 DEF ApproveQueue, TypeOK, TasksTyped, TasksKept
    <2>2. CallReadDraft' /\ CallApproved'
      BY <1>4 DEF ApproveQueue, CallReadDraft, CallApproved, TypeOK, RequestsTyped, RequestType
    <2>3. UNCHANGED <<outbox, wk, row, approved>>  BY <1>4 DEF ApproveQueue
    <2> QED  BY <1>0, <2>1, <2>2, <2>3 DEF RowHoldsApproved, RowApproved
  <1> QED  BY <1>1, <1>2, <1>3, <1>4 DEF Approve

\* A message that is handed to a provider joins those already sent.
LEMMA AcceptedMessage ==
  ASSUME TypeOK, NEW w \in Workers, wk[w].pc = "post", Accepted(w)
  PROVE  /\ Len(outbox') = Len(outbox) + 1
         /\ Messages' = Messages \cup {Len(outbox) + 1}
         /\ \A i \in Messages : outbox'[i] = outbox[i]
         /\ outbox'[Len(outbox) + 1].camp = CampOf(w)
         /\ outbox'[Len(outbox) + 1].task = wk[w].task
         /\ outbox'[Len(outbox) + 1].to = wk[w].to
         /\ outbox'[Len(outbox) + 1].body = Rendered(w)
  <1> DEFINE late == wk[w].to \in dnd
             m == [camp |-> CampOf(w), task |-> wk[w].task, to |-> wk[w].to,
                   body |-> Rendered(w), late |-> late]
  <1>1. outbox \in Seq(MessageType)  BY DEF TypeOK, RecordsTyped
  <1>2. outbox' = Append(outbox, m)  BY DEF Accepted
  <1>3. /\ m.camp = CampOf(w) /\ m.task = wk[w].task /\ m.to = wk[w].to
        /\ m.body = Rendered(w)
    <2> HIDE DEF late
    <2> QED  OBVIOUS
  <1> HIDE DEF m
  <1>4. Len(outbox') = Len(outbox) + 1 /\ Len(outbox) \in Nat  BY <1>1, <1>2
  <1>5. Messages' = Messages \cup {Len(outbox) + 1}  BY <1>4 DEF Messages
  <1>6. \A i \in Messages : outbox'[i] = outbox[i]  BY <1>1, <1>2 DEF Messages
  <1>7. outbox'[Len(outbox) + 1] = m  BY <1>1, <1>2
  <1> QED  BY <1>3, <1>4, <1>5, <1>6, <1>7

\* What the approval invariant needs of a step that is not an approve call's.
\* Either nothing is sent, or w sends what it carries.
LEMMA ApprovalByWorker ==
  ASSUME ApprovalInv, TypeOK', NEW w \in Workers, TasksKept,
         UNCHANGED <<req, approved>>,
         \A c \in Campaigns : row'[c].body = row[c].body,
         \A x \in Workers \ {w} : wk'[x] = wk[x],
         ExecutionApproved(w)',
         UNCHANGED outbox \/ (wk[w].pc = "post" /\ Accepted(w))
  PROVE  ApprovalInv'
  <1> USE DEF ApprovalInv
  <1>1. RowHoldsApproved' /\ RowApproved' /\ CallReadDraft' /\ CallApproved'
    BY DEF RowHoldsApproved, RowApproved, CallReadDraft, CallApproved
  <1>2. ASSUME NEW x \in Workers, x # w  PROVE ExecutionApproved(x)'
    <2>1. wk[x].pc # "idle" => CampOf(x)' = CampOf(x)
      BY <1>2, Busy DEF CampOf, TasksKept
    <2> QED  BY <1>2, <2>1 DEF ExecutionApproved
  <1>3. SentTextWasApproved'
    <2>1. CASE UNCHANGED outbox  BY <2>1 DEF SentTextWasApproved, Messages
    <2>2. CASE wk[w].pc = "post" /\ Accepted(w)
      <3>1. CampOf(w) \notin Templated => Rendered(w) \in approved[CampOf(w)]
        BY <2>2 DEF Rendered, ExecutionApproved
      <3> QED  BY <2>2, <3>1, AcceptedMessage DEF SentTextWasApproved
    <2> QED  BY <2>1, <2>2
  <1> QED  BY <1>1, <1>2, <1>3

\* An execution that ends leaves nothing to send.
LEMMA EndedApproved ==
  ASSUME NEW w \in Workers, wk'[w] = IdleWorker  PROVE ExecutionApproved(w)'
  BY DEF ExecutionApproved, IdleWorker

\* What every step of a running execution has in common.
LEMMA WorkerStep ==
  ASSUME TypeOK, NEW w \in Workers, Advance(w) \/ Disturb(w)
  PROVE  /\ wk[w].pc # "idle"
         /\ TasksKept
         /\ UNCHANGED <<req, approved>>
         /\ \A c \in Campaigns : row'[c].body = row[c].body
         /\ \A x \in Workers \ {w} : wk'[x] = wk[x]
         /\ \/ wk'[w] = IdleWorker
            \/ /\ wk'[w].task = wk[w].task
               /\ \/ wk'[w].pc \in {"commit", "incr"}
                  \/ wk'[w].body = wk[w].body /\ wk[w].pc \notin {"commit", "incr"}
         /\ UNCHANGED outbox \/ (wk[w].pc = "post" /\ Accepted(w))
  <1> USE DEF TypeOK
  <1>0. wk[w].pc # "idle"
    BY DEF Advance, Disturb, CheckDND, CheckRate, LoadVault, StoreGet, StoreSet, Unmask,
           Post, Commit, Increment, PostUnanswered, Raise, LoseWorker, TimeLimit
  <1>1. /\ DOMAIN wk = Workers /\ WorkerTyped(w)
        /\ wk[w].task \in Requests /\ task[wk[w].task].status # "none"
        /\ task \in [Requests -> TaskType]
    BY <1>0, Busy DEF WorkersTyped, TasksTyped
  \* The three ways an execution ends.
  <1>2. ASSUME NEW s \in TaskStates \ {"none"}, Finish(w, s)
        PROVE  /\ TasksKept /\ wk'[w] = IdleWorker
               /\ \A x \in Workers \ {w} : wk'[x] = wk[x]
    BY <1>1, <1>2 DEF Finish, TasksKept, TaskType
  <1>3. ASSUME RetryOrFail(w)
        PROVE  /\ TasksKept /\ wk'[w] = IdleWorker
               /\ \A x \in Workers \ {w} : wk'[x] = wk[x]
    <2> DEFINE t == wk[w].task
    <2>1. task' = [task EXCEPT ![t] = IF task[t].retries < MaxRetries
                                      THEN Requeued(task[t])
                                      ELSE [task[t] EXCEPT !.status = "failed"]]
      BY <1>3 DEF RetryOrFail
    <2>2. task'[t].status # "none" /\ task'[t].camp = task[t].camp
      <3>1. CASE task[t].retries < MaxRetries
        <4>1. task'[t] = Requeued(task[t])  BY <1>1, <2>1, <3>1
        <4> QED  BY <1>1, <3>1, <4>1, RequeuedTyped
      <3>2. CASE ~(task[t].retries < MaxRetries)
        <4>1. task'[t] = [task[t] EXCEPT !.status = "failed"]  BY <1>1, <2>1, <3>2
        <4> QED  BY <1>1, <4>1 DEF TaskType
      <3> QED  BY <3>1, <3>2
    <2>3. \A x \in Requests \ {t} : task'[x] = task[x]  BY <1>1, <2>1
    <2>4. TasksKept  BY <2>2, <2>3 DEF TasksKept
    <2>5. wk' = [wk EXCEPT ![w] = IdleWorker]  BY <1>3 DEF RetryOrFail
    <2> QED  BY <1>1, <2>4, <2>5
  <1>4. "blocked" \in TaskStates \ {"none"} /\ "sent" \in TaskStates \ {"none"}
        /\ "killed" \in TaskStates \ {"none"}
    BY DEF TaskStates
  <1>5. UNCHANGED task => TasksKept  BY DEF TasksKept
  <1>6. CASE CheckDND(w)
    BY <1>0, <1>1, <1>2, <1>4, <1>5, <1>6 DEF CheckDND, WorkerTyped
  <1>7. CASE CheckRate(w)
    BY <1>0, <1>1, <1>2, <1>4, <1>5, <1>7 DEF CheckRate, WorkerTyped
  <1>8. CASE LoadVault(w)
    <2>1. \/ \E tok \in DOMAIN vault[wk[w].session] :
                wk' = [wk EXCEPT ![w].pc = "unmask", ![w].token = tok]
          \/ \E tok \in Tokens :
                wk' = [wk EXCEPT ![w].pc = "storeGet", ![w].token = tok]
      <3>1. IsVault(vault[wk[w].session])
        BY <1>1, <1>8 DEF LoadVault, WorkerTyped, VaultsTyped
      <3> QED  BY <1>8, <3>1, FreshTokenIsToken DEF LoadVault
    <2> QED  BY <1>0, <1>1, <1>5, <1>8, <2>1 DEF LoadVault, WorkerTyped
  <1>9. CASE StoreGet(w)
    BY <1>0, <1>1, <1>5, <1>9 DEF StoreGet, WorkerTyped
  <1>10. CASE StoreSet(w)
    BY <1>0, <1>1, <1>5, <1>10 DEF StoreSet, WorkerTyped
  <1>11. CASE Unmask(w)
    BY <1>0, <1>1, <1>3, <1>5, <1>11 DEF Unmask, WorkerTyped
  <1>12. CASE Post(w)
    <2>1. wk'[w] = [IdleWorker EXCEPT !.pc = "commit", !.task = wk[w].task,
                                      !.id = Len(outbox) + 1]
      BY <1>1, <1>12 DEF Post
    <2>2. wk'[w].task = wk[w].task /\ wk'[w].pc = "commit"
      BY <2>1 DEF IdleWorker
    <2> QED  BY <1>0, <1>1, <1>5, <1>12, <2>2 DEF Post
  <1>13. CASE Commit(w)
    <2>1. \A c \in Campaigns : row'[c].body = row[c].body
      BY <1>13 DEF Commit, RowsTyped, RowType
    <2> QED  BY <1>0, <1>1, <1>5, <1>13, <2>1 DEF Commit, WorkerTyped
  <1>14. CASE Increment(w)
    BY <1>0, <1>2, <1>4, <1>14 DEF Increment
  <1>15. CASE PostUnanswered(w)
    BY <1>0, <1>3, <1>15 DEF PostUnanswered
  <1>16. CASE Raise(w)
    BY <1>0, <1>3, <1>16 DEF Raise
  <1>17. CASE LoseWorker(w)
    <2>1. TasksKept  BY <1>1, <1>17 DEF LoseWorker, TasksKept, TaskType
    <2> QED  BY <1>0, <1>1, <1>17, <2>1 DEF LoseWorker
  <1>18. CASE TimeLimit(w)
    BY <1>0, <1>2, <1>4, <1>18 DEF TimeLimit
  <1> QED
    BY <1>6, <1>7, <1>8, <1>9, <1>10, <1>11, <1>12, <1>13, <1>14, <1>15, <1>16, <1>17, <1>18
    DEF Advance, Disturb

\* A worker that loads a campaign takes a text that has been approved.
LEMMA ApprovalByTake ==
  ASSUME ApprovalInv, TypeOK', NEW t \in Requests, Take(t)  PROVE ApprovalInv'
  <1> USE DEF ApprovalInv
  <1> DEFINE c == task[t].camp
  <1>1. ASSUME NEW w \in Workers, Load(w, t)  PROVE ApprovalInv'
    <2>1. task[t].status = "queued"  BY <1>1 DEF Load
    <2>2. c \in Campaigns /\ approved[c] # {}
      BY <2>1 DEF TypeOK, TasksTyped, RequestsTyped, CallApproved
    <2>3. TasksKept /\ task'[t].camp = c
      BY <1>1, <2>1 DEF Load, TypeOK, TasksTyped, TaskType, TasksKept
    <2>4. /\ wk'[w] = [IdleWorker EXCEPT !.pc = "dnd", !.task = t,
                                         !.body = row[c].body, !.session = row[c].session]
          /\ \A x \in Workers \ {w} : wk'[x] = wk[x]
      BY <1>1 DEF Load, TypeOK, WorkersTyped
    <2>5. wk'[w].task = t /\ wk'[w].body = row[c].body
      BY <2>4 DEF IdleWorker
    <2>6. ExecutionApproved(w)'
      BY <2>2, <2>3, <2>5, <1>1 DEF ExecutionApproved, RowApproved, CampOf, Load
    <2> QED
      BY <1>1, <2>3, <2>4, <2>6, ApprovalByWorker DEF Load
  <1>2. ASSUME NEW w \in Workers, LoadNoContact(w, t)  PROVE ApprovalInv'
    <2>1. TasksKept
      BY <1>2 DEF LoadNoContact, TypeOK, TasksTyped, TaskType, TasksKept
    <2>2. ExecutionApproved(w)'
      BY <1>2 DEF LoadNoContact, ExecutionApproved
    <2> QED  BY <1>2, <2>1, <2>2, ApprovalByWorker DEF LoadNoContact
  <1> QED  BY <1>1, <1>2 DEF Take

\* Receipts, opt-outs, expiring vaults and midnight touch no text.
LEMMA ApprovalByEnvironment ==
  ASSUME ApprovalInv, TypeOK', Environment  PROVE ApprovalInv'
  <1> USE DEF ApprovalInv
  <1>1. UNCHANGED <<req, task, wk, outbox, approved>>
    BY DEF Environment, Receipt, OptOut, Expire, NextDay
  <1>2. \A c \in Campaigns : row'[c].body = row[c].body
    <2>1. ASSUME NEW i, NEW s, Receipt(i, s)
          PROVE  \A c \in Campaigns : row'[c].body = row[c].body
      <3>1. PICK d \in Campaigns : row' = [row EXCEPT ![d] = Received(row[d], s)]
        BY <2>1 DEF Receipt
      <3>2. Received(row[d], s).body = row[d].body
        BY DEF TypeOK, RowsTyped, RowType, Received
      <3> QED  BY <3>1, <3>2 DEF TypeOK, RowsTyped
    <2>2. UNCHANGED row => \A c \in Campaigns : row'[c].body = row[c].body
      OBVIOUS
    <2> QED  BY <2>1, <2>2 DEF Environment, OptOut, Expire, NextDay
  <1>3. RowHoldsApproved' /\ RowApproved' /\ CallReadDraft' /\ CallApproved'
    BY <1>1, <1>2 DEF RowHoldsApproved, RowApproved, CallReadDraft, CallApproved
  <1>4. \A w \in Workers : ExecutionApproved(w)'
    BY <1>1 DEF ExecutionApproved, CampOf
  <1>5. SentTextWasApproved'  BY <1>1 DEF SentTextWasApproved, Messages
  <1> QED  BY <1>3, <1>4, <1>5

\* The strengthened invariant holds in every reachable state.
LEMMA ApprovalInvariant == Spec => []ApprovalInv
  <1>1. Init => ApprovalInv  BY ApprovalInit
  <1>2. ApprovalInv /\ TypeOK' /\ [Next]_vars => ApprovalInv'
    <2> SUFFICES ASSUME ApprovalInv, TypeOK', [Next]_vars  PROVE ApprovalInv'
      OBVIOUS
    <2>1. CASE UNCHANGED vars
      BY <2>1
      DEF vars, ApprovalInv, RowHoldsApproved, RowApproved, CallReadDraft, CallApproved,
          ExecutionApproved, CampOf, SentTextWasApproved, Messages
    <2>2. ASSUME NEW w \in Workers, Advance(w) \/ Disturb(w)  PROVE ApprovalInv'
      <3>1. TypeOK  BY DEF ApprovalInv
      <3>2. ExecutionApproved(w)'
        <4>1. CASE wk'[w] = IdleWorker  BY <4>1, EndedApproved
        <4>2. CASE wk'[w] # IdleWorker
          <5>1. CampOf(w)' = CampOf(w)
            BY <2>2, <3>1, <4>2, WorkerStep, Busy DEF CampOf, TasksKept
          <5> QED
            BY <2>2, <3>1, <4>2, <5>1, WorkerStep DEF ExecutionApproved, ApprovalInv
        <4> QED  BY <4>1, <4>2
      <3> QED  BY <2>2, <3>1, <3>2, WorkerStep, ApprovalByWorker
    <2> QED
      BY <2>1, <2>2, ApprovalByCall, ApprovalByTake, ApprovalByEnvironment DEF Next
  <1> QED  BY <1>1, <1>2, TypeCorrect, PTL DEF Spec

\* RM approval is mandatory before any message is sent: for any number of
\* approve calls, edits, workers, retries and lost processes, a provider is
\* only ever given a text that an RM confirmed for that campaign.
THEOREM OnlyApprovedTextsAreSent == Spec => []SentTextWasApproved
  <1>1. ApprovalInv => SentTextWasApproved  BY DEF ApprovalInv
  <1> QED  BY <1>1, ApprovalInvariant, PTL

------------------------------------------------------------------------------
(* The delivery funnel.  That sent_at stands for a message the provider     *)
(* took rests on the id an execution holds between the provider's answer    *)
(* and its commit.                                                          *)

\* The id a worker is about to record is that of a message of its campaign.
HoldsItsMessage(w) ==
  wk[w].pc = "commit" => wk[w].id \in MessagesOf(CampOf(w))

FunnelInv ==
  /\ TypeOK
  /\ SentRecordsAcceptedMessage
  /\ FunnelOrder
  /\ \A w \in Workers : HoldsItsMessage(w)

\* A step that keeps the row's delivery columns, adds messages and starts no
\* commit keeps the invariant.
LEMMA FunnelKept ==
  ASSUME FunnelInv, TypeOK', TasksKept,
         \A c \in Campaigns :
            /\ row'[c].sent = row[c].sent /\ row'[c].pmid = row[c].pmid
            /\ row'[c].delivered = row[c].delivered
            /\ row'[c].opened = row[c].opened
            /\ row'[c].converted = row[c].converted,
         \A c \in Campaigns : MessagesOf(c) \subseteq MessagesOf(c)',
         \A x \in Workers : wk'[x] = wk[x] \/ wk'[x].pc # "commit"
                              \/ wk'[x].id \in MessagesOf(CampOf(x))'
  PROVE  FunnelInv'
  <1> USE DEF FunnelInv
  <1>1. SentRecordsAcceptedMessage'  BY DEF SentRecordsAcceptedMessage
  <1>2. FunnelOrder'  BY DEF FunnelOrder
  <1>3. ASSUME NEW x \in Workers  PROVE HoldsItsMessage(x)'
    <2>1. CASE wk'[x] = wk[x] /\ wk[x].pc = "commit"
      <3>1. CampOf(x)' = CampOf(x) /\ CampOf(x) \in Campaigns
        BY <2>1, Busy DEF CampOf, TasksKept
      <3>2. wk[x].id \in MessagesOf(CampOf(x))  BY <2>1 DEF HoldsItsMessage
      <3> QED  BY <2>1, <3>1, <3>2 DEF HoldsItsMessage, MessagesOf
    <2>2. CASE ~(wk'[x] = wk[x] /\ wk[x].pc = "commit")
      BY <2>2 DEF HoldsItsMessage, MessagesOf
    <2> QED  BY <2>1, <2>2
  <1> QED  BY <1>1, <1>2, <1>3

\* A step either commits, or leaves the row alone and adds what it sent.
LEMMA RecordStep ==
  ASSUME TypeOK, NEW w \in Workers, Advance(w) \/ Disturb(w), ~Commit(w)
  PROVE  /\ UNCHANGED row
         /\ wk'[w].pc = "commit" => Post(w) /\ wk'[w].id = Len(outbox) + 1
                                    /\ wk'[w].task = wk[w].task
  <1> USE DEF TypeOK
  <1>1. DOMAIN wk = Workers  BY DEF WorkersTyped
  <1>2. WorkerTyped(w)  BY DEF WorkersTyped
  <1>3. ASSUME wk'[w] = IdleWorker  PROVE wk'[w].pc # "commit"
    BY <1>3 DEF IdleWorker
  <1>4. CASE CheckDND(w)  BY <1>1, <1>2, <1>3, <1>4 DEF CheckDND, Finish, WorkerTyped
  <1>5. CASE CheckRate(w)  BY <1>1, <1>2, <1>3, <1>5 DEF CheckRate, Finish, WorkerTyped
  <1>6. CASE LoadVault(w)
    <2>1. \/ \E tok \in DOMAIN vault[wk[w].session] :
                wk' = [wk EXCEPT ![w].pc = "unmask", ![w].token = tok]
          \/ \E tok \in Tokens :
                wk' = [wk EXCEPT ![w].pc = "storeGet", ![w].token = tok]
      <3>1. IsVault(vault[wk[w].session])
        BY <1>2, <1>6 DEF LoadVault, WorkerTyped, VaultsTyped
      <3> QED  BY <1>6, <3>1, FreshTokenIsToken DEF LoadVault
    <2> QED  BY <1>1, <1>2, <1>6, <2>1 DEF LoadVault, WorkerTyped
  <1>7. CASE StoreGet(w)  BY <1>1, <1>2, <1>7 DEF StoreGet, WorkerTyped
  <1>8. CASE StoreSet(w)  BY <1>1, <1>2, <1>8 DEF StoreSet, WorkerTyped
  <1>9. CASE Unmask(w)  BY <1>1, <1>2, <1>3, <1>9 DEF Unmask, RetryOrFail, WorkerTyped
  <1>10. CASE Post(w)
    <2>1. wk'[w] = [IdleWorker EXCEPT !.pc = "commit", !.task = wk[w].task,
                                      !.id = Len(outbox) + 1]
      BY <1>1, <1>10 DEF Post
    <2>2. wk'[w].id = Len(outbox) + 1 /\ wk'[w].task = wk[w].task
      BY <2>1 DEF IdleWorker
    <2> QED  BY <1>10, <2>2 DEF Post
  <1>11. CASE Increment(w)  BY <1>1, <1>3, <1>11 DEF Increment, Finish
  <1>12. CASE PostUnanswered(w)  BY <1>1, <1>3, <1>12 DEF PostUnanswered, RetryOrFail
  <1>13. CASE Raise(w)  BY <1>1, <1>3, <1>13 DEF Raise, RetryOrFail
  <1>14. CASE LoseWorker(w)  BY <1>1, <1>3, <1>14 DEF LoseWorker
  <1>15. CASE TimeLimit(w)  BY <1>1, <1>3, <1>15 DEF TimeLimit, Finish
  <1> QED
    BY <1>4, <1>5, <1>6, <1>7, <1>8, <1>9, <1>10, <1>11, <1>12, <1>13, <1>14, <1>15
    DEF Advance, Disturb

\* Approve calls and starting tasks leave the delivery columns alone.
LEMMA FunnelByCallOrTake ==
  ASSUME FunnelInv, TypeOK', Approve \/ \E t \in Requests : Take(t)
  PROVE  FunnelInv'
  <1> USE DEF FunnelInv
  <1>1. UNCHANGED outbox
    BY DEF Approve, ApproveRefused, ApproveSelect, ApproveCommit, ApproveQueue, Take, Load,
           LoadNoContact
  <1>2. \A c \in Campaigns : MessagesOf(c) \subseteq MessagesOf(c)'
    BY <1>1 DEF MessagesOf, Messages
  <1>3. \A c \in Campaigns :
          /\ row'[c].sent = row[c].sent /\ row'[c].pmid = row[c].pmid
          /\ row'[c].delivered = row[c].delivered
          /\ row'[c].opened = row[c].opened
          /\ row'[c].converted = row[c].converted
    <2>1. ASSUME NEW r \in Requests, ApproveCommit(r), NEW c \in Campaigns
          PROVE  /\ row'[c].sent = row[c].sent /\ row'[c].pmid = row[c].pmid
                 /\ row'[c].delivered = row[c].delivered
                 /\ row'[c].opened = row[c].opened
                 /\ row'[c].converted = row[c].converted
      <3> DEFINE d == req[r].camp
      <3>1. row[c] \in RowType  BY DEF TypeOK, RowsTyped
      <3>2. PICK b, s : row' = [row EXCEPT ![d].body = b, ![d].session = s]
        BY <2>1 DEF ApproveCommit
      <3> HIDE DEF d
      <3> QED  BY <3>1, <3>2 DEF TypeOK, RowsTyped, RowType
    <2>2. \/ UNCHANGED row
          \/ \E r \in Requests : ApproveCommit(r)
      BY DEF Approve, ApproveRefused, ApproveSelect, ApproveQueue, Take, Load, LoadNoContact
    <2> QED  BY <2>1, <2>2
  <1>4. TasksKept
    <2>1. ASSUME NEW r \in Requests, ApproveQueue(r)  PROVE TasksKept
      BY <2>1 DEF ApproveQueue, TypeOK, TasksTyped, TasksKept
    <2>2. ASSUME NEW t \in Requests, NEW w \in Workers, Load(w, t) \/ LoadNoContact(w, t)
          PROVE  TasksKept
      BY <2>2 DEF Load, LoadNoContact, TypeOK, TasksTyped, TaskType, TasksKept
    <2>3. \/ UNCHANGED task
          \/ \E r \in Requests : ApproveQueue(r)
          \/ \E t \in Requests, w \in Workers : Load(w, t) \/ LoadNoContact(w, t)
      BY DEF Approve, ApproveRefused, ApproveSelect, ApproveCommit, Take
    <2> QED  BY <2>1, <2>2, <2>3 DEF TasksKept
  <1>5. \A x \in Workers : wk'[x] = wk[x] \/ wk'[x].pc # "commit"
    <2>1. ASSUME NEW t \in Requests, NEW w \in Workers, Load(w, t), NEW x \in Workers
          PROVE  wk'[x] = wk[x] \/ wk'[x].pc # "commit"
      <3>1. CASE x = w
        <4>1. wk'[w] = [IdleWorker EXCEPT !.pc = "dnd", !.task = t,
                          !.body = row[task[t].camp].body,
                          !.session = row[task[t].camp].session]
          BY <2>1 DEF Load, TypeOK, WorkersTyped
        <4>2. wk'[w].pc = "dnd"  BY <4>1 DEF IdleWorker
        <4> QED  BY <3>1, <4>2
      <3>2. CASE x # w  BY <2>1, <3>2 DEF Load, TypeOK, WorkersTyped
      <3> QED  BY <3>1, <3>2
    <2>2. \/ UNCHANGED wk
          \/ \E t \in Requests, w \in Workers : Load(w, t)
      BY DEF Approve, ApproveRefused, ApproveSelect, ApproveCommit, ApproveQueue, Take,
             LoadNoContact
    <2> QED  BY <2>1, <2>2
  <1> QED  BY <1>2, <1>3, <1>4, <1>5, FunnelKept

\* A worker records only the id of a message it has just seen accepted.
LEMMA FunnelByWorker ==
  ASSUME FunnelInv, TypeOK', NEW w \in Workers, Advance(w) \/ Disturb(w)
  PROVE  FunnelInv'
  <1> USE DEF FunnelInv
  <1>1. /\ wk[w].pc # "idle" /\ TasksKept
        /\ \A x \in Workers \ {w} : wk'[x] = wk[x]
        /\ UNCHANGED outbox \/ (wk[w].pc = "post" /\ Accepted(w))
    BY WorkerStep
  <1>2. CASE Commit(w)
    <2> DEFINE c == CampOf(w)
    <2>1. c \in Campaigns  BY <1>1, Busy
    <2>2. wk[w].id \in MessagesOf(c)  BY <1>2 DEF Commit, HoldsItsMessage
    <2>3. wk[w].id # NoId  BY <2>2 DEF MessagesOf, Messages, NoId
    <2>4. UNCHANGED outbox  BY <1>2 DEF Commit
    <2>5. \A d \in Campaigns : MessagesOf(d)' = MessagesOf(d)
      BY <2>4 DEF MessagesOf, Messages
    <2>6. /\ row'[c].sent = TRUE /\ row'[c].pmid = wk[w].id
          /\ row'[c].delivered = row[c].delivered
          /\ row'[c].opened = row[c].opened
          /\ row'[c].converted = row[c].converted
          /\ \A d \in Campaigns \ {c} : row'[d] = row[d]
      BY <1>2, <2>1 DEF Commit, TypeOK, RowsTyped, RowType
    <2>7. SentRecordsAcceptedMessage'
      BY <2>2, <2>3, <2>5, <2>6 DEF SentRecordsAcceptedMessage
    <2>8. FunnelOrder'  BY <2>6 DEF FunnelOrder
    <2>9. ASSUME NEW x \in Workers  PROVE HoldsItsMessage(x)'
      <3>1. CASE x = w
        BY <1>2, <3>1 DEF Commit, HoldsItsMessage, TypeOK, WorkersTyped, WorkerTyped
      <3>2. CASE x # w /\ wk[x].pc = "commit"
        <4>1. CampOf(x)' = CampOf(x) /\ CampOf(x) \in Campaigns
          BY <1>1, <3>2, Busy DEF CampOf, TasksKept
        <4> QED  BY <1>1, <2>4, <3>2, <4>1 DEF HoldsItsMessage, MessagesOf, Messages
      <3>3. CASE x # w /\ wk[x].pc # "commit"
        BY <1>1, <3>3 DEF HoldsItsMessage
      <3> QED  BY <3>1, <3>2, <3>3
    <2> QED  BY <2>7, <2>8, <2>9
  <1>3. CASE ~Commit(w)
    <2>1. UNCHANGED row  BY <1>3, RecordStep
    <2>2. \A c \in Campaigns : MessagesOf(c) \subseteq MessagesOf(c)'
      <3>1. CASE UNCHANGED outbox  BY <3>1 DEF MessagesOf, Messages
      <3>2. CASE wk[w].pc = "post" /\ Accepted(w)
        BY <3>2, AcceptedMessage DEF MessagesOf
      <3> QED  BY <1>1, <3>1, <3>2
    <2>3. ASSUME wk'[w].pc = "commit"  PROVE wk'[w].id \in MessagesOf(CampOf(w))'
      <3>1. Post(w) /\ wk'[w].id = Len(outbox) + 1 /\ wk'[w].task = wk[w].task
        BY <1>3, <2>3, RecordStep
      <3>2. CampOf(w)' = CampOf(w)  BY <1>1, <3>1, Busy DEF CampOf, TasksKept
      <3> QED  BY <3>1, <3>2, AcceptedMessage DEF Post, MessagesOf
    <2> QED  BY <1>1, <2>1, <2>2, <2>3, FunnelKept
  <1> QED  BY <1>2, <1>3

\* A receipt fills in the rungs below its own.
LEMMA FunnelByEnvironment ==
  ASSUME FunnelInv, TypeOK', Environment  PROVE FunnelInv'
  <1> USE DEF FunnelInv
  <1>1. UNCHANGED <<req, task, wk, outbox, approved>>
    BY DEF Environment, Receipt, OptOut, Expire, NextDay
  <1>2. TasksKept /\ \A c \in Campaigns : MessagesOf(c) \subseteq MessagesOf(c)'
    BY <1>1 DEF TasksKept, MessagesOf, Messages
  <1>3. CASE UNCHANGED row  BY <1>1, <1>2, <1>3, FunnelKept
  <1>4. ASSUME NEW i \in 1..Len(outbox), NEW s, Receipt(i, s)  PROVE FunnelInv'
    <2>1. PICK c \in Campaigns :
            row[c].pmid = i /\ row' = [row EXCEPT ![c] = Received(row[c], s)]
      BY <1>4 DEF Receipt
    <2>2. /\ row'[c].sent = row[c].sent /\ row'[c].pmid = row[c].pmid
          /\ row'[c].delivered = TRUE
      BY <2>1 DEF Received, TypeOK, RowsTyped, RowType
    <2>3. row'[c].opened <=> row[c].opened \/ s \in {"opened", "converted"}
      BY <2>1 DEF Received, TypeOK, RowsTyped, RowType
    <2>4. row'[c].converted <=> row[c].converted \/ s = "converted"
      BY <2>1 DEF Received, TypeOK, RowsTyped, RowType
    <2>5. \A d \in Campaigns \ {c} : row'[d] = row[d]
      BY <2>1 DEF TypeOK, RowsTyped
    <2>6. SentRecordsAcceptedMessage'
      BY <1>1, <2>2, <2>5 DEF SentRecordsAcceptedMessage, MessagesOf, Messages
    <2>7. row[c].sent
      BY <1>4, <2>1 DEF SentRecordsAcceptedMessage, NoId
    <2>8. FunnelOrder'
      BY <2>2, <2>3, <2>4, <2>5, <2>7 DEF FunnelOrder
    <2>9. \A x \in Workers : HoldsItsMessage(x)'
      BY <1>1 DEF HoldsItsMessage, MessagesOf, Messages, CampOf
    <2> QED  BY <2>6, <2>8, <2>9
  <1> QED  BY <1>3, <1>4 DEF Environment, OptOut, Expire, NextDay

\* The strengthened invariant holds in every reachable state.
LEMMA FunnelInvariant == Spec => []FunnelInv
  <1>1. Init => FunnelInv
    <2> SUFFICES ASSUME Init  PROVE FunnelInv
      OBVIOUS
    <2>1. SentRecordsAcceptedMessage /\ FunnelOrder
      BY DEF Init, SentRecordsAcceptedMessage, FunnelOrder
    <2>2. \A w \in Workers : HoldsItsMessage(w)
      BY DEF Init, HoldsItsMessage, IdleWorker
    <2> QED  BY <2>1, <2>2, TypeInit DEF FunnelInv
  <1>2. FunnelInv /\ TypeOK' /\ [Next]_vars => FunnelInv'
    <2> SUFFICES ASSUME FunnelInv, TypeOK', [Next]_vars  PROVE FunnelInv'
      OBVIOUS
    <2>1. CASE UNCHANGED vars
      <3>1. TasksKept /\ \A c \in Campaigns : MessagesOf(c) \subseteq MessagesOf(c)'
        BY <2>1 DEF vars, TasksKept, MessagesOf, Messages
      <3> QED  BY <2>1, <3>1, FunnelKept DEF vars
    <2> QED
      BY <2>1, FunnelByCallOrTake, FunnelByWorker, FunnelByEnvironment DEF Next
  <1> QED  BY <1>1, <1>2, TypeCorrect, PTL DEF Spec

\* Whatever is resent, retried or lost, sent_at is set only for a message a
\* provider took for this very campaign, and provider_message_id names it.
THEOREM SentIsAccepted == Spec => []SentRecordsAcceptedMessage
  <1>1. FunnelInv => SentRecordsAcceptedMessage  BY DEF FunnelInv
  <1> QED  BY <1>1, FunnelInvariant, PTL

\* The funnel is climbed from the bottom, in whatever order receipts come.
THEOREM FunnelIsOrdered == Spec => []FunnelOrder
  <1>1. FunnelInv => FunnelOrder  BY DEF FunnelInv
  <1> QED  BY <1>1, FunnelInvariant, PTL

==============================================================================

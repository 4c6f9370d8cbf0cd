------------------------ MODULE OutreachDeliveryProofs ------------------------
(***************************************************************************)
(* More theorems about OutreachDispatch, on the invariants proved in       *)
(* OutreachDispatchProofs: how many messages one approval can lead to,     *)
(* what a task's result says, how far a daily counter can pass its limit,  *)
(* and that the dispatch path implements OutreachLifecycle.                *)
(***************************************************************************)
EXTENDS OutreachDispatchProofs

------------------------------------------------------------------------------
(* The messages of one task.                                               *)

MessagesOfTask(t) == {i \in Messages : outbox[i].task = t}

Sends(t) == Cardinality(MessagesOfTask(t))

\* How often the queue has handed the task out again.
Repeats(t) == task[t].retries + task[t].lost

\* The provider has the message of the execution on w, which knows it.
Handed(w) == wk[w].pc \in {"commit", "incr"}

\* Sends is a number, and is zero exactly when there is no message.
LEMMA SendsType ==
  ASSUME TypeOK, NEW t
  PROVE  Sends(t) \in Nat /\ (Sends(t) = 0 <=> MessagesOfTask(t) = {})
  <1>1. Len(outbox) \in Nat  BY DEF TypeOK, RecordsTyped
  <1>2. IsFiniteSet(Messages)  BY <1>1, FS_Interval DEF Messages
  <1>3. IsFiniteSet(MessagesOfTask(t))  BY <1>2, FS_Subset DEF MessagesOfTask
  <1> QED  BY <1>3, FS_CardinalityType, FS_EmptySet DEF Sends

\* A message the provider accepts is one more of its task, and of no other.
LEMMA SendsAdded ==
  ASSUME TypeOK, NEW w \in Workers, wk[w].pc = "post", Accepted(w), NEW t
  PROVE  Sends(t)' = IF t = wk[w].task THEN Sends(t) + 1 ELSE Sends(t)
  <1> DEFINE n == Len(outbox) + 1
  <1>1. /\ Messages' = Messages \cup {n}
        /\ \A i \in Messages : outbox'[i] = outbox[i]
        /\ outbox'[n].task = wk[w].task
    BY AcceptedMessage
  <1>2. Len(outbox) \in Nat  BY DEF TypeOK, RecordsTyped
  <1>3. IsFiniteSet(Messages) /\ n \notin Messages
    BY <1>2, FS_Interval DEF Messages
  <1>4. CASE t = wk[w].task
    <2>1. MessagesOfTask(t)' = MessagesOfTask(t) \cup {n}
      BY <1>1, <1>4 DEF MessagesOfTask
    <2>2. IsFiniteSet(MessagesOfTask(t)) /\ n \notin MessagesOfTask(t)
      BY <1>3, FS_Subset DEF MessagesOfTask
    <2> QED  BY <1>4, <2>1, <2>2, FS_AddElement DEF Sends
  <1>5. CASE t # wk[w].task
    <2>1. MessagesOfTask(t)' = MessagesOfTask(t)
      BY <1>1, <1>5 DEF MessagesOfTask
    <2> QED  BY <1>5, <2>1 DEF Sends
  <1> QED  BY <1>4, <1>5

\* A task whose messages are the same ones has sent as many.
LEMMA SendsKept ==
  ASSUME UNCHANGED outbox, NEW t
  PROVE  Sends(t)' = Sends(t)
  BY DEF Sends, MessagesOfTask, Messages

\* What a retry, or the last failure, makes of the task.
LEMMA RetryCounts ==
  ASSUME TypeOK, NEW w \in Workers, wk[w].pc # "idle", RetryOrFail(w), NEW t, t = wk[w].task
  PROVE  /\ wk'[w] = IdleWorker
         /\ \A x \in Requests \ {t} : task'[x] = task[x]
         /\ task'[t].camp = task[t].camp
         /\ \/ task'[t].status = "queued" /\ Repeats(t)' = Repeats(t) + 1
            \/ task'[t].status = "failed" /\ Repeats(t)' = Repeats(t)
  <1>1. t \in Requests /\ task \in [Requests -> TaskType] /\ DOMAIN wk = Workers
    BY Busy DEF TypeOK, TasksTyped, WorkersTyped
  <1>2. task' = [task EXCEPT ![t] = IF task[t].retries < MaxRetries
                                    THEN Requeued(task[t])
                                    ELSE [task[t] EXCEPT !.status = "failed"]]
    BY DEF RetryOrFail
  <1>3. task[t].retries \in Nat /\ task[t].lost \in Nat
    BY <1>1, ConstantsAssumption DEF TaskType
  <1>4. CASE task[t].retries < MaxRetries
    <2>1. task'[t] = Requeued(task[t])  BY <1>1, <1>2, <1>4
    <2>2. /\ task'[t].status = "queued" /\ task'[t].camp = task[t].camp
          /\ task'[t].retries = task[t].retries + 1 /\ task'[t].lost = task[t].lost
      BY <1>1, <2>1 DEF Requeued, TaskType
    <2> QED  BY <1>1, <1>2, <1>3, <2>2 DEF Repeats, RetryOrFail
  <1>5. CASE ~(task[t].retries < MaxRetries)
    <2>1. task'[t] = [task[t] EXCEPT !.status = "failed"]  BY <1>1, <1>2, <1>5
    <2>2. /\ task'[t].status = "failed" /\ task'[t].camp = task[t].camp
          /\ task'[t].retries = task[t].retries /\ task'[t].lost = task[t].lost
      BY <1>1, <2>1 DEF TaskType
    <2> QED  BY <1>1, <1>2, <1>3, <2>2 DEF Repeats, RetryOrFail
  <1> QED  BY <1>4, <1>5

\* What a result makes of the task.
LEMMA ResultCounts ==
  ASSUME TypeOK, NEW w \in Workers, wk[w].pc # "idle", NEW s, Finish(w, s),
         NEW t, t = wk[w].task
  PROVE  /\ wk'[w] = IdleWorker
         /\ \A x \in Requests \ {t} : task'[x] = task[x]
         /\ task'[t].camp = task[t].camp /\ task'[t].status = s
         /\ Repeats(t)' = Repeats(t)
  <1>1. t \in Requests /\ task \in [Requests -> TaskType] /\ DOMAIN wk = Workers
    BY Busy DEF TypeOK, TasksTyped, WorkersTyped
  <1> QED  BY <1>1 DEF Finish, TaskType, Repeats

\* The execution goes on: it nears the provider, hands it the message, or
\* records that it did.
GoesOn(w) ==
  /\ UNCHANGED task
  /\ wk'[w].task = wk[w].task
  /\ \/ /\ ~Handed(w) /\ wk'[w].pc \notin {"idle", "commit", "incr"}
        /\ UNCHANGED outbox
     \/ wk[w].pc = "post" /\ Accepted(w) /\ wk'[w].pc = "commit"
     \/ Commit(w) /\ wk'[w].pc = "incr" /\ row'[CampOf(w)].sent

\* The execution ends, and its task is queued again or has a result.
Ends(w, t) ==
  /\ wk'[w] = IdleWorker
  /\ task'[t].camp = task[t].camp
  /\ UNCHANGED outbox \/ (wk[w].pc = "post" /\ Accepted(w))
  /\ \/ task'[t].status = "queued" /\ Repeats(t)' = Repeats(t) + 1
     \/ task'[t].status \in {"failed", "killed"} /\ Repeats(t)' = Repeats(t)
     \/ /\ task'[t].status = "blocked" /\ Repeats(t)' = Repeats(t)
        /\ ~Handed(w) /\ UNCHANGED outbox
     \/ /\ task'[t].status = "sent" /\ Repeats(t)' = Repeats(t)
        /\ wk[w].pc = "incr" /\ UNCHANGED outbox

\* Every step of an execution is one or the other, and no task but its own
\* and no "sent" of a campaign is undone.
LEMMA StepOfTask ==
  ASSUME TypeOK, NEW w \in Workers, Advance(w) \/ Disturb(w), NEW t, t = wk[w].task
  PROVE  /\ GoesOn(w) \/ Ends(w, t)
         /\ \A x \in Requests \ {t} : task'[x] = task[x]
         /\ \A c \in Campaigns : row[c].sent => row'[c].sent
  <1>0. wk[w].pc # "idle"  BY WorkerStep
  <1>1. /\ DOMAIN wk = Workers /\ WorkerTyped(w) /\ t \in Requests
        /\ CampOf(w) \in Campaigns /\ task \in [Requests -> TaskType]
    BY <1>0, Busy DEF TypeOK, WorkersTyped, TasksTyped
  <1>2. \A c \in Campaigns : row[c].sent => row'[c].sent
    <2>1. CASE Commit(w)
      BY <1>1, <2>1 DEF Commit, TypeOK, RowsTyped, RowType
    <2>2. CASE ~Commit(w)  BY <2>2, RecordStep
    <2> QED  BY <2>1, <2>2
  <1> DEFINE Others == \A x \in Requests \ {t} : task'[x] = task[x]
  <1>3. UNCHANGED task => Others  OBVIOUS
  <1> SUFFICES (GoesOn(w) \/ Ends(w, t)) /\ Others
    BY <1>2
  <1> HIDE DEF Others
  <1>4. ASSUME NEW s, Finish(w, s)
        PROVE  /\ wk'[w] = IdleWorker /\ Others
               /\ task'[t].camp = task[t].camp /\ task'[t].status = s
               /\ Repeats(t)' = Repeats(t)
    BY <1>0, <1>4, ResultCounts DEF Others
  <1>5. ASSUME RetryOrFail(w)
        PROVE  /\ wk'[w] = IdleWorker /\ Others
               /\ task'[t].camp = task[t].camp
               /\ \/ task'[t].status = "queued" /\ Repeats(t)' = Repeats(t) + 1
                  \/ task'[t].status = "failed" /\ Repeats(t)' = Repeats(t)
    BY <1>0, <1>5, RetryCounts DEF Others
  <1>7. CASE CheckDND(w)
    <2>1. CASE Finish(w, "blocked")
      BY <1>4, <1>7, <2>1 DEF CheckDND, Ends, Handed
    <2>2. CASE ~Finish(w, "blocked")
      <3>1. wk' = [wk EXCEPT ![w].pc = "rate"] /\ UNCHANGED task
        BY <1>7, <2>2 DEF CheckDND
      <3>2. wk'[w].pc = "rate" /\ wk'[w].task = wk[w].task
        BY <1>1, <3>1 DEF WorkerTyped
      <3> QED  BY <1>3, <1>7, <3>1, <3>2 DEF CheckDND, GoesOn, Handed
    <2> QED  BY <2>1, <2>2
  <1>8. CASE CheckRate(w)
    <2>1. CASE Finish(w, "blocked")
      BY <1>4, <1>8, <2>1 DEF CheckRate, Ends, Handed
    <2>2. CASE ~Finish(w, "blocked")
      <3>1. wk' = [wk EXCEPT ![w].pc = "vault"] /\ UNCHANGED task
        BY <1>8, <2>2 DEF CheckRate
      <3>2. wk'[w].pc = "vault" /\ wk'[w].task = wk[w].task
        BY <1>1, <3>1 DEF WorkerTyped
      <3> QED  BY <1>3, <1>8, <3>1, <3>2 DEF CheckRate, GoesOn, Handed
    <2> QED  BY <2>1, <2>2
  <1>9. CASE LoadVault(w)
    <2>1. PICK p, tok :
            /\ p \in {"unmask", "storeGet"}
            /\ wk' = [wk EXCEPT ![w].pc = p, ![w].token = tok]
      BY <1>9 DEF LoadVault
    <2>2. wk'[w].pc \in {"unmask", "storeGet"} /\ wk'[w].task = wk[w].task
      BY <1>1, <2>1 DEF WorkerTyped
    <2> QED  BY <1>3, <1>9, <2>2 DEF LoadVault, GoesOn, Handed
  <1>10. CASE StoreGet(w)
    <2>1. wk'[w].pc = "storeSet" /\ wk'[w].task = wk[w].task
      BY <1>1, <1>10 DEF StoreGet, WorkerTyped
    <2> QED  BY <1>3, <1>10, <2>1 DEF StoreGet, GoesOn, Handed
  <1>11. CASE StoreSet(w)
    <2>1. wk'[w].pc = "unmask" /\ wk'[w].task = wk[w].task
      BY <1>1, <1>11 DEF StoreSet, WorkerTyped
    <2> QED  BY <1>3, <1>11, <2>1 DEF StoreSet, GoesOn, Handed
  <1>12. CASE Unmask(w)
    <2>1. CASE RetryOrFail(w)
      BY <1>5, <1>12, <2>1 DEF Unmask, Ends
    <2>2. CASE ~RetryOrFail(w)
      <3>1. wk'[w].pc = "post" /\ wk'[w].task = wk[w].task /\ UNCHANGED task
        BY <1>1, <1>12, <2>2 DEF Unmask, WorkerTyped
      <3> QED  BY <1>3, <1>12, <3>1 DEF Unmask, GoesOn, Handed
    <2> QED  BY <2>1, <2>2
  <1>13. CASE Post(w)
    <2>1. wk'[w] = [IdleWorker EXCEPT !.pc = "commit", !.task = wk[w].task,
                                      !.id = Len(outbox) + 1]
      BY <1>1, <1>13 DEF Post
    <2>2. wk'[w].task = wk[w].task /\ wk'[w].pc = "commit"
      BY <2>1 DEF IdleWorker
    <2> QED  BY <1>3, <1>13, <2>2 DEF Post, GoesOn
  <1>14. CASE Commit(w)
    <2>1. wk'[w].task = wk[w].task /\ wk'[w].pc = "incr"
      BY <1>1, <1>14 DEF Commit, WorkerTyped
    <2>2. row'[CampOf(w)].sent
      BY <1>1, <1>14 DEF Commit, TypeOK, RowsTyped, RowType
    <2> QED  BY <1>3, <1>14, <2>1, <2>2 DEF Commit, GoesOn
  <1>15. CASE Increment(w)
    BY <1>4, <1>15 DEF Increment, Ends
  <1>16. CASE PostUnanswered(w)
    BY <1>5, <1>16 DEF PostUnanswered, Ends
  <1>17. CASE Raise(w)
    BY <1>5, <1>17 DEF Raise, Ends
  <1>18. CASE LoseWorker(w)
    <2>1. task' = [task EXCEPT ![t].status = "queued", ![t].lost = @ + 1]
      BY <1>18 DEF LoseWorker
    <2>2. task[t].retries \in Nat /\ task[t].lost \in Nat
      BY <1>1, ConstantsAssumption DEF TaskType
    <2>3. /\ task'[t].status = "queued" /\ task'[t].camp = task[t].camp
          /\ task'[t].retries = task[t].retries /\ task'[t].lost = task[t].lost + 1
      BY <1>1, <2>1 DEF TaskType
    <2>4. Others  BY <1>1, <2>1 DEF Others
    <2> QED  BY <1>1, <1>18, <2>2, <2>3, <2>4 DEF LoseWorker, Ends, Repeats
  <1>19. CASE TimeLimit(w)
    BY <1>4, <1>19 DEF TimeLimit, Ends
  <1> QED
    BY <1>7, <1>8, <1>9, <1>10, <1>11, <1>12, <1>13, <1>14, <1>15, <1>16, <1>17, <1>18, <1>19
    DEF Advance, Disturb

------------------------------------------------------------------------------
(* One approval, one message, and one more for each time the queue hands    *)
(* the task out again.  The bound alone is not inductive: an execution      *)
(* needs to know that nobody else runs its task, and that it has not yet    *)
(* used up the message its own delivery of the task entitles it to.         *)

Unsent == {"none", "queued", "blocked", "missing"}

\* A busy worker runs a task that is running, and no other worker runs it.
OwnsItsTask ==
  \A w \in Workers :
    wk[w].pc # "idle" =>
      /\ task[wk[w].task].status = "running"
      /\ \A x \in Workers \ {w} : wk[x].pc # "idle" => wk[x].task # wk[w].task

\* The messages of t are no more than its past executions allow, and one
\* more when the present one has handed over its own.
SendsCounted(t) ==
  /\ task[t].status = "none" => Sends(t) = 0
  /\ Sends(t) <= 1 + Repeats(t)
  /\ task[t].status \in Unsent => Sends(t) <= Repeats(t)
  /\ task[t].status = "sent" => Sends(t) # 0 /\ row[task[t].camp].sent

ExecutionCounted(w) ==
  wk[w].pc # "idle" =>
    /\ ~Handed(w) => Sends(wk[w].task) <= Repeats(wk[w].task)
    /\ Handed(w) => Sends(wk[w].task) # 0
    /\ wk[w].pc = "incr" => row[CampOf(w)].sent

SendsInv ==
  /\ TypeOK
  /\ OwnsItsTask
  /\ \A t \in Requests : SendsCounted(t)
  /\ \A w \in Workers : ExecutionCounted(w)

\* The numbers the invariant compares.
LEMMA CountsTyped ==
  ASSUME TypeOK, NEW t \in Requests
  PROVE  Sends(t) \in Nat /\ Repeats(t) \in Nat
  <1>1. task[t].retries \in Nat /\ task[t].lost \in Nat
    BY ConstantsAssumption DEF TypeOK, TasksTyped, TaskType
  <1> QED  BY <1>1, SendsType DEF Repeats

\* A task and an execution nothing touched are still accounted for.
LEMMA CountedKept ==
  ASSUME SendsInv, NEW t \in Requests, task'[t] = task[t], Sends(t)' = Sends(t),
         \A c \in Campaigns : row[c].sent => row'[c].sent
  PROVE  /\ SendsCounted(t)'
         /\ \A w \in Workers : wk'[w] = wk[w] /\ wk[w].task = t => ExecutionCounted(w)'
  <1>1. SendsCounted(t)  BY DEF SendsInv
  <1>2. task[t].status = "sent" => task[t].camp \in Campaigns
    BY DEF SendsInv, TypeOK, TasksTyped, RequestsTyped
  <1>3. Repeats(t)' = Repeats(t)  BY DEF Repeats
  <1>4. SendsCounted(t)'  BY <1>1, <1>2, <1>3 DEF SendsCounted
  <1>5. ASSUME NEW w \in Workers, wk'[w] = wk[w], wk[w].task = t, wk[w].pc # "idle"
        PROVE  ExecutionCounted(w)'
    <2>1. ExecutionCounted(w)  BY DEF SendsInv
    <2>2. CampOf(w) \in Campaigns /\ CampOf(w)' = CampOf(w)
      BY <1>5, Busy DEF SendsInv, CampOf
    <2>3. Sends(wk[w].task)' = Sends(wk[w].task) /\ Repeats(wk[w].task)' = Repeats(wk[w].task)
      <3>1. wk'[w].task = t  BY <1>5
      <3> QED  BY <1>3, <1>5, <3>1 DEF Sends, MessagesOfTask, Messages, Repeats
    <2> QED  BY <1>5, <2>1, <2>2, <2>3 DEF ExecutionCounted, Handed
  <1>6. \A w \in Workers : wk'[w] = wk[w] /\ wk[w].pc = "idle" => ExecutionCounted(w)'
    BY DEF ExecutionCounted
  <1> QED  BY <1>4, <1>5, <1>6

\* A step of an execution keeps the counts: what it may send is what its own
\* delivery of the task entitles it to.
LEMMA SendsByWorker ==
  ASSUME SendsInv, TypeOK', NEW w \in Workers, Advance(w) \/ Disturb(w)
  PROVE  SendsInv'
  <1>0. TypeOK /\ wk[w].pc # "idle"  BY WorkerStep DEF SendsInv
  <1>1. PICK t \in Requests : t = wk[w].task  BY <1>0, Busy
  <1>2. /\ GoesOn(w) \/ Ends(w, t)
        /\ \A x \in Requests \ {t} : task'[x] = task[x]
        /\ \A c \in Campaigns : row[c].sent => row'[c].sent
    BY <1>0, <1>1, StepOfTask
  <1>3. \A x \in Workers \ {w} : wk'[x] = wk[x]  BY <1>0, WorkerStep
  <1>4. UNCHANGED outbox \/ (wk[w].pc = "post" /\ Accepted(w))  BY <1>0, WorkerStep
  <1>5. \A x \in Requests \ {t} : Sends(x)' = Sends(x)
    BY <1>0, <1>1, <1>4, SendsAdded, SendsKept
  <1>6. \A x \in Workers \ {w} : wk[x].pc # "idle" => wk[x].task \in Requests \ {t}
    BY <1>0, <1>1, Busy DEF SendsInv, OwnsItsTask
  <1>7. SendsCounted(t) /\ ExecutionCounted(w) /\ task[t].status = "running"
    BY <1>0, <1>1 DEF SendsInv, OwnsItsTask
  <1>8. /\ Sends(t) \in Nat /\ Repeats(t) \in Nat
        /\ ~Handed(w) => Sends(t) <= Repeats(t)
        /\ Handed(w) => Sends(t) # 0
        /\ Sends(t) <= 1 + Repeats(t)
    BY <1>0, <1>1, <1>7, CountsTyped DEF SendsCounted, ExecutionCounted
  <1>9. ASSUME NEW x \in Requests \ {t}
        PROVE  /\ SendsCounted(x)'
               /\ \A v \in Workers : wk'[v] = wk[v] /\ wk[v].task = x => ExecutionCounted(v)'
    BY <1>2, <1>5, CountedKept
  <1>10. ASSUME NEW v \in Workers \ {w}  PROVE ExecutionCounted(v)'
    <2>1. CASE wk[v].pc = "idle"  BY <1>3, <2>1 DEF ExecutionCounted
    <2>2. CASE wk[v].pc # "idle"  BY <1>3, <1>6, <1>9, <2>2
    <2> QED  BY <2>1, <2>2
  <1>11. CASE GoesOn(w)
    <2>1. /\ UNCHANGED task /\ wk'[w].task = t
      BY <1>1, <1>11 DEF GoesOn
    <2>2. Repeats(t)' = Repeats(t)  BY <2>1 DEF Repeats
    <2>3. CampOf(w)' = CampOf(w)  BY <1>1, <2>1 DEF CampOf
    <2>4. OwnsItsTask'
      BY <1>0, <1>1, <1>3, <1>6, <2>1 DEF SendsInv, OwnsItsTask
    <2>5. SendsCounted(t)' /\ (wk'[w].pc # "idle" =>
             /\ ~Handed(w)' => Sends(t)' <= Repeats(t)'
             /\ Handed(w)' => Sends(t)' # 0
             /\ wk'[w].pc = "incr" => row'[CampOf(w)].sent)
      <3>1. CASE ~Handed(w) /\ wk'[w].pc \notin {"idle", "commit", "incr"} /\ UNCHANGED outbox
        <4>1. Sends(t)' = Sends(t)  BY <3>1, SendsKept
        <4> QED
          BY <1>7, <1>8, <2>1, <2>2, <3>1, <4>1 DEF SendsCounted, Handed, Unsent
      <3>2. CASE wk[w].pc = "post" /\ Accepted(w) /\ wk'[w].pc = "commit"
        <4>1. Sends(t)' = Sends(t) + 1  BY <1>0, <1>1, <3>2, SendsAdded
        <4>2. ~Handed(w)  BY <3>2 DEF Handed
        <4> QED
          BY <1>7, <1>8, <2>1, <2>2, <3>2, <4>1, <4>2 DEF SendsCounted, Handed, Unsent
      <3>3. CASE Commit(w) /\ wk'[w].pc = "incr" /\ row'[CampOf(w)].sent
        <4>1. Sends(t)' = Sends(t)  BY <3>3, SendsKept DEF Commit
        <4>2. Handed(w)  BY <3>3 DEF Commit, Handed
        <4> QED
          BY <1>7, <1>8, <2>1, <2>2, <3>3, <4>1, <4>2 DEF SendsCounted, Handed, Unsent
      <3> QED  BY <1>11, <3>1, <3>2, <3>3 DEF GoesOn
    <2>6. ExecutionCounted(w)'
      BY <2>1, <2>3, <2>5
      DEF ExecutionCounted, Sends, MessagesOfTask, Messages, Repeats
    <2> QED  BY <1>9, <1>10, <2>4, <2>5, <2>6 DEF SendsInv
  <1>12. CASE Ends(w, t)
    <2>1. wk'[w].pc = "idle"  BY <1>12 DEF Ends, IdleWorker
    <2>2. ExecutionCounted(w)'  BY <2>1 DEF ExecutionCounted
    <2>3. OwnsItsTask'
      BY <1>0, <1>1, <1>2, <1>3, <1>6, <2>1 DEF SendsInv, OwnsItsTask
    <2>4. Sends(t)' = Sends(t) \/ (~Handed(w) /\ Sends(t)' = Sends(t) + 1)
      BY <1>0, <1>1, <1>4, SendsAdded, SendsKept DEF Handed
    <2>5. task'[t].camp = task[t].camp /\ task[t].camp = CampOf(w) /\ CampOf(w) \in Campaigns
      BY <1>0, <1>1, <1>12, Busy DEF Ends, CampOf
    <2>6. SendsCounted(t)'
      <3>1. CASE task'[t].status = "queued" /\ Repeats(t)' = Repeats(t) + 1
        BY <1>8, <2>4, <3>1 DEF SendsCounted, Unsent
      <3>2. CASE task'[t].status \in {"failed", "killed"} /\ Repeats(t)' = Repeats(t)
        BY <1>8, <2>4, <3>2 DEF SendsCounted, Unsent
      <3>3. CASE /\ task'[t].status = "blocked" /\ Repeats(t)' = Repeats(t)
                 /\ ~Handed(w) /\ UNCHANGED outbox
        <4>1. Sends(t)' = Sends(t)  BY <3>3, SendsKept
        <4> QED  BY <1>8, <3>3, <4>1 DEF SendsCounted, Unsent
      <3>4. CASE /\ task'[t].status = "sent" /\ Repeats(t)' = Repeats(t)
                 /\ wk[w].pc = "incr" /\ UNCHANGED outbox
        <4>1. Sends(t)' = Sends(t)  BY <3>4, SendsKept
        <4>2. Handed(w)  BY <3>4 DEF Handed
        <4>3. row'[task'[t].camp].sent
          BY <1>0, <1>2, <1>7, <2>5, <3>4 DEF ExecutionCounted
        <4> QED  BY <1>8, <3>4, <4>1, <4>2, <4>3 DEF SendsCounted, Unsent
      <3> QED  BY <1>12, <3>1, <3>2, <3>3, <3>4 DEF Ends
    <2> QED  BY <1>9, <1>10, <2>2, <2>3, <2>6 DEF SendsInv
  <1> QED  BY <1>2, <1>11, <1>12

\* Around the workers, no message is sent and no "sent" is undone.
LEMMA SentKept ==
  ASSUME TypeOK, Approve \/ (\E t \in Requests : Take(t)) \/ Environment
  PROVE  UNCHANGED outbox /\ \A c \in Campaigns : row[c].sent => row'[c].sent
  <1>1. UNCHANGED outbox
    BY DEF Approve, ApproveRefused, ApproveSelect, ApproveCommit, ApproveQueue, Take, Load,
           LoadNoContact, Environment, Receipt, OptOut, Expire, NextDay
  <1>2. ASSUME NEW r \in Requests, ApproveCommit(r)
        PROVE  \A c \in Campaigns : row[c].sent => row'[c].sent
    <2> DEFINE d == req[r].camp
    <2>1. PICK b, s : row' = [row EXCEPT ![d].body = b, ![d].session = s]
      BY <1>2 DEF ApproveCommit
    <2> HIDE DEF d
    <2> QED  BY <2>1 DEF TypeOK, RowsTyped, RowType
  <1>3. ASSUME NEW i, NEW s, Receipt(i, s)
        PROVE  \A c \in Campaigns : row[c].sent => row'[c].sent
    <2>1. PICK d \in Campaigns : row' = [row EXCEPT ![d] = Received(row[d], s)]
      BY <1>3 DEF Receipt
    <2>2. Received(row[d], s).sent = row[d].sent
      BY DEF Received, TypeOK, RowsTyped, RowType
    <2> QED  BY <2>1, <2>2 DEF TypeOK, RowsTyped
  <1>4. \/ UNCHANGED row
        \/ \E r \in Requests : ApproveCommit(r)
        \/ \E i \in 1..Len(outbox), s \in {"delivered", "opened", "converted"} : Receipt(i, s)
    BY DEF Approve, ApproveRefused, ApproveSelect, ApproveQueue, Take, Load, LoadNoContact,
           Environment, OptOut, Expire, NextDay
  <1> QED  BY <1>1, <1>2, <1>3, <1>4

\* A step that touches neither a task nor a worker keeps the counts.
LEMMA SendsByOther ==
  ASSUME SendsInv, TypeOK', UNCHANGED <<task, wk, outbox>>,
         \A c \in Campaigns : row[c].sent => row'[c].sent
  PROVE  SendsInv'
  <1>1. \A t \in Requests : Sends(t)' = Sends(t)  BY SendsKept
  <1>2. ASSUME NEW t \in Requests
        PROVE  /\ SendsCounted(t)'
               /\ \A w \in Workers : wk'[w] = wk[w] /\ wk[w].task = t => ExecutionCounted(w)'
    BY <1>1, CountedKept
  <1>3. ASSUME NEW w \in Workers  PROVE ExecutionCounted(w)'
    <2>1. CASE wk[w].pc = "idle"  BY <2>1 DEF ExecutionCounted
    <2>2. CASE wk[w].pc # "idle"  BY <1>2, <2>2, Busy DEF SendsInv
    <2> QED  BY <2>1, <2>2
  <1>4. OwnsItsTask'  BY DEF SendsInv, OwnsItsTask
  <1> QED  BY <1>2, <1>3, <1>4 DEF SendsInv

\* An approve call queues a task that has not existed before, and a worker
\* takes one that nobody runs.
LEMMA SendsByCallOrTake ==
  ASSUME SendsInv, TypeOK', Approve \/ \E t \in Requests : Take(t)
  PROVE  SendsInv'
  <1>0. TypeOK /\ task \in [Requests -> TaskType] /\ DOMAIN wk = Workers
    BY DEF SendsInv, TypeOK, TasksTyped, WorkersTyped
  <1>1. UNCHANGED outbox /\ \A c \in Campaigns : row[c].sent => row'[c].sent
    BY <1>0, SentKept
  <1>2. \A x \in Requests : Sends(x)' = Sends(x)  BY <1>1, SendsKept
  <1>3. \A w \in Workers : wk[w].pc # "idle" =>
           wk[w].task \in Requests /\ task[wk[w].task].status = "running"
    BY <1>0, Busy DEF SendsInv, OwnsItsTask
  \* Whatever the step does is done to one task t that nobody runs.
  <1>4. ASSUME NEW t \in Requests, task[t].status # "running", SendsCounted(t)',
               \A x \in Requests \ {t} : task'[x] = task[x],
               NEW w \in Workers, \A v \in Workers \ {w} : wk'[v] = wk[v],
               ExecutionCounted(w)',
               wk'[w] = wk[w] \/ (wk[w].pc = "idle" /\ wk'[w].task = t /\ task'[t].status = "running")
        PROVE  SendsInv'
    <2>1. ASSUME NEW x \in Requests \ {t}
          PROVE  /\ SendsCounted(x)'
                 /\ \A v \in Workers : wk'[v] = wk[v] /\ wk[v].task = x => ExecutionCounted(v)'
      BY <1>1, <1>2, <1>4, CountedKept
    <2>2. ASSUME NEW v \in Workers \ {w}  PROVE ExecutionCounted(v)'
      <3>1. CASE wk[v].pc = "idle"  BY <1>4, <3>1 DEF ExecutionCounted
      <3>2. CASE wk[v].pc # "idle"  BY <1>3, <1>4, <2>1, <3>2
      <3> QED  BY <3>1, <3>2
    <2>3. OwnsItsTask'
      <3>1. \A v \in Workers : wk[v].pc # "idle" => wk[v].task # t /\ task'[wk[v].task] = task[wk[v].task]
        BY <1>3, <1>4
      <3> QED  BY <1>3, <1>4, <3>1 DEF SendsInv, OwnsItsTask
    <2> QED  BY <1>4, <2>1, <2>2, <2>3 DEF SendsInv
  <1>5. ASSUME NEW r \in Requests, ApproveQueue(r)  PROVE SendsInv'
    <2>1. task[r].status = "none"
      BY <1>5 DEF ApproveQueue, SendsInv, TypeOK, TasksTyped
    <2>2. /\ task'[r].status = "queued" /\ task'[r].retries = 0 /\ task'[r].lost = 0
          /\ \A x \in Requests \ {r} : task'[x] = task[x]
      BY <1>0, <1>5 DEF ApproveQueue
    <2>3. Sends(r) = 0 /\ Sends(r)' = 0 /\ Repeats(r)' = 0
      BY <1>2, <2>1, <2>2 DEF SendsInv, SendsCounted, Repeats
    <2>4. SendsCounted(r)'  BY <2>2, <2>3 DEF SendsCounted
    <2>5. CASE Workers = {}
      BY <1>1, <1>2, <1>5, <2>2, <2>4, <2>5, CountedKept DEF SendsInv, OwnsItsTask
    <2>6. ASSUME NEW w \in Workers  PROVE SendsInv'
      <3>1. UNCHANGED wk  BY <1>5 DEF ApproveQueue
      <3>2. ExecutionCounted(w)'
        <4>1. CASE wk[w].pc = "idle"  BY <3>1, <4>1 DEF ExecutionCounted
        <4>2. CASE wk[w].pc # "idle"
          <5>1. wk[w].task \in Requests \ {r}  BY <1>3, <2>1, <4>2
          <5> QED  BY <1>1, <1>2, <2>2, <3>1, <5>1, CountedKept
        <4> QED  BY <4>1, <4>2
      <3> QED  BY <1>4, <2>1, <2>2, <2>4, <3>1, <3>2
    <2> QED  BY <2>5, <2>6
  <1>6. ASSUME NEW t \in Requests, NEW w \in Workers, Load(w, t)  PROVE SendsInv'
    <2>1. /\ wk[w].pc = "idle" /\ task[t].status = "queued"
          /\ \A v \in Workers \ {w} : wk'[v] = wk[v]
      BY <1>0, <1>6 DEF Load
    <2>2. /\ task'[t].status = "running" /\ task'[t].retries = task[t].retries
          /\ task'[t].lost = task[t].lost
          /\ \A x \in Requests \ {t} : task'[x] = task[x]
      BY <1>0, <1>6 DEF Load, TaskType
    <2>3. wk'[w] = [IdleWorker EXCEPT !.pc = "dnd", !.task = t,
                      !.body = row[task[t].camp].body,
                      !.session = row[task[t].camp].session]
      BY <1>0, <1>6 DEF Load
    <2>4. wk'[w].pc = "dnd" /\ wk'[w].task = t  BY <2>3 DEF IdleWorker
    <2>5. SendsCounted(t)  BY DEF SendsInv
    <2>6. Sends(t)' = Sends(t) /\ Repeats(t)' = Repeats(t)
      BY <1>2, <2>2 DEF Repeats
    <2>7. SendsCounted(t)'  BY <2>1, <2>2, <2>5, <2>6 DEF SendsCounted, Unsent
    <2>8. ExecutionCounted(w)'
      <3>1. Sends(t)' <= Repeats(t)'  BY <2>1, <2>5, <2>6 DEF SendsCounted, Unsent
      <3> QED
        BY <2>4, <3>1 DEF ExecutionCounted, Handed, Sends, MessagesOfTask, Messages, Repeats
    <2> QED  BY <1>4, <2>1, <2>2, <2>4, <2>7, <2>8
  <1>7. ASSUME NEW t \in Requests, NEW w \in Workers, LoadNoContact(w, t)  PROVE SendsInv'
    <2>1. task[t].status = "queued" /\ UNCHANGED wk  BY <1>7 DEF LoadNoContact
    <2>2. /\ task'[t].status = "missing" /\ task'[t].retries = task[t].retries
          /\ task'[t].lost = task[t].lost
          /\ \A x \in Requests \ {t} : task'[x] = task[x]
      BY <1>0, <1>7 DEF LoadNoContact, TaskType
    <2>3. SendsCounted(t)  BY DEF SendsInv
    <2>4. Sends(t)' = Sends(t) /\ Repeats(t)' = Repeats(t)
      BY <1>2, <2>2 DEF Repeats
    <2>5. SendsCounted(t)'  BY <2>1, <2>2, <2>3, <2>4 DEF SendsCounted, Unsent
    <2>6. ExecutionCounted(w)'  BY <1>7, <2>1 DEF LoadNoContact, ExecutionCounted
    <2> QED  BY <1>4, <2>1, <2>2, <2>5, <2>6
  <1>8. \/ UNCHANGED <<task, wk>>
        \/ \E r \in Requests : ApproveQueue(r)
        \/ \E t \in Requests, w \in Workers : Load(w, t) \/ LoadNoContact(w, t)
    BY DEF Approve, ApproveRefused, ApproveSelect, ApproveCommit, Take
  <1> QED  BY <1>1, <1>5, <1>6, <1>7, <1>8, SendsByOther

\* The counts hold in every reachable state.
LEMMA SendsInvariant == Spec => []SendsInv
  <1>1. Init => SendsInv
    <2> SUFFICES ASSUME Init  PROVE SendsInv
      OBVIOUS
    <2>1. TypeOK  BY TypeInit
    <2>2. \A w \in Workers : wk[w].pc = "idle"  BY DEF Init, IdleWorker
    <2>3. Messages = {}  BY DEF Init, Messages
    <2>4. ASSUME NEW t \in Requests  PROVE SendsCounted(t)
      <3>1. Sends(t) = 0  BY <2>1, <2>3, SendsType DEF MessagesOfTask
      <3>2. task[t].status = "none" /\ task[t].retries = 0 /\ task[t].lost = 0
        BY DEF Init
      <3> QED  BY <3>1, <3>2 DEF SendsCounted, Repeats
    <2> QED  BY <2>1, <2>2, <2>4 DEF SendsInv, OwnsItsTask, ExecutionCounted
  <1>2. SendsInv /\ TypeOK' /\ [Next]_vars => SendsInv'
    <2> SUFFICES ASSUME SendsInv, TypeOK', [Next]_vars  PROVE SendsInv'
      OBVIOUS
    <2>1. CASE UNCHANGED vars  BY <2>1, SendsByOther DEF vars
    <2>2. CASE Environment
      <3>1. UNCHANGED <<task, wk>>
        BY <2>2 DEF Environment, Receipt, OptOut, Expire, NextDay
      <3> QED  BY <2>2, <3>1, SentKept, SendsByOther DEF SendsInv
    <2> QED  BY <2>1, <2>2, SendsByWorker, SendsByCallOrTake DEF Next
  <1> QED  BY <1>1, <1>2, TypeCorrect, PTL DEF Spec

\* One approval sends at most one message, plus one for each retry and each
\* lost worker: with any number of workers, a redelivered task never gives
\* the provider more messages than it had deliveries.
THEOREM SendsAreBounded == Spec => []SendsPerApprovalBounded
  <1>1. SendsInv => SendsPerApprovalBounded
    <2> SUFFICES ASSUME SendsInv, NEW t \in Requests  PROVE
          Cardinality({i \in Messages : outbox[i].task = t}) <= 1 + task[t].retries + task[t].lost
      BY DEF SendsPerApprovalBounded
    <2>1. task[t].retries \in Nat /\ task[t].lost \in Nat
      BY ConstantsAssumption DEF SendsInv, TypeOK, TasksTyped, TaskType
    <2> QED  BY <2>1, CountsTyped DEF SendsInv, SendsCounted, Sends, MessagesOfTask, Repeats
  <1> QED  BY <1>1, SendsInvariant, PTL

\* A task's result tells the truth: "sent" means a message of its own went
\* out and its campaign shows it; a first delivery that reports "blocked" or
\* "missing" sent nothing.
THEOREM OutcomesAreHonest == Spec => []OutcomeIsHonest
  <1>1. SendsInv => OutcomeIsHonest
    <2> SUFFICES ASSUME SendsInv, NEW t \in Requests
        PROVE  /\ task[t].status = "sent" =>
                    MessagesOfTask(t) # {} /\ row[task[t].camp].sent
               /\ task[t].status \in {"blocked", "missing"} /\ task[t].retries + task[t].lost = 0
                    => MessagesOfTask(t) = {}
      BY DEF OutcomeIsHonest, MessagesOfTask
    <2>1. Sends(t) \in Nat /\ (Sends(t) = 0 <=> MessagesOfTask(t) = {})
      BY SendsType DEF SendsInv
    <2> QED  BY <2>1 DEF SendsInv, SendsCounted, Repeats, Unsent
  <1> QED  BY <1>1, SendsInvariant, PTL

------------------------------------------------------------------------------
(* The daily counters.  A counter passes its limit only by executions that  *)
(* were let through before it got there; a day that has not come has counted*)
(* nothing, so that those let through before midnight fit in as well.       *)

QuotaInv ==
  /\ TypeOK
  /\ OvershootBounded
  /\ \A k \in RateKeys : k[3] > day => rate[k] = 0

\* The executions in flight are some of the workers.
LEMMA InFlightType ==
  ASSUME NEW ch, NEW x
  PROVE  /\ IsFiniteSet(InFlight(ch, x)) /\ Cardinality(InFlight(ch, x)) \in Nat
         /\ Cardinality(InFlight(ch, x)) <= Cardinality(Workers)
         /\ Cardinality(Workers) \in Nat
  <1>1. InFlight(ch, x) \subseteq Workers  BY DEF InFlight
  <1>2. IsFiniteSet(Workers)  BY ConstantsAssumption
  <1> QED  BY <1>1, <1>2, FS_Subset, FS_CardinalityType

\* The bound holds of counters that did not grow, with no more in flight.
LEMMA QuotaKept ==
  ASSUME QuotaInv, TypeOK', UNCHANGED <<rate, day>>,
         NEW ch \in Channels, NEW x \in Contacts, NEW d \in Days,
         InFlight(ch, x)' \subseteq InFlight(ch, x)
  PROVE  rate'[<<ch, x, d>>] + (IF d = day' THEN Cardinality(InFlight(ch, x)') ELSE 0)
           < LIMITS[ch] + Cardinality(Workers)
  <1>1. rate[<<ch, x, d>>] + (IF d = day THEN Cardinality(InFlight(ch, x)) ELSE 0)
          < LIMITS[ch] + Cardinality(Workers)
    BY DEF QuotaInv, OvershootBounded
  <1>2. rate[<<ch, x, d>>] \in Nat  BY DEF QuotaInv, TypeOK, RecordsTyped, RateKeys
  <1>3. LIMITS[ch] \in Nat  BY ConstantsAssumption
  <1>4. /\ Cardinality(InFlight(ch, x)') \in Nat
        /\ Cardinality(InFlight(ch, x)') <= Cardinality(InFlight(ch, x))
    <2>1. IsFiniteSet(InFlight(ch, x)) /\ Cardinality(InFlight(ch, x)) \in Nat
      BY InFlightType
    <2> QED  BY <2>1, FS_Subset, FS_CardinalityType
  <1>5. Cardinality(InFlight(ch, x)) \in Nat /\ Cardinality(Workers) \in Nat
    BY InFlightType
  <1> QED  BY <1>1, <1>2, <1>3, <1>4, <1>5

\* An execution gets in flight only by passing the check of the counter.
LEMMA FlightStep ==
  ASSUME TypeOK, TasksKept,
         \A v \in Workers : wk'[v].pc \in Past =>
            wk[v].pc \in Past /\ wk'[v].task = wk[v].task,
         NEW ch, NEW x
  PROVE  InFlight(ch, x)' \subseteq InFlight(ch, x)
  <1> SUFFICES ASSUME NEW v \in Workers, wk'[v].pc \in Past,
                      Channel[CampOf(v)'] = ch, Contact[CampOf(v)'] = x
      PROVE  v \in InFlight(ch, x)
    BY DEF InFlight
  <1>1. wk[v].pc \in Past /\ wk'[v].task = wk[v].task  OBVIOUS
  <1>2. wk[v].pc # "idle"  BY <1>1 DEF Past
  <1>3. CampOf(v)' = CampOf(v)  BY <1>1, <1>2, Busy DEF CampOf, TasksKept
  <1> QED  BY <1>1, <1>3 DEF InFlight

\* A worker that has put its task down is not in flight.
LEMMA EndedNotPast ==
  ASSUME NEW w \in Workers, wk'[w] = IdleWorker  PROVE wk'[w].pc \notin Past
  BY DEF IdleWorker, Past

\* Every other step of an execution leaves it in flight, or takes it out.
LEMMA PastStep ==
  ASSUME TypeOK, NEW w \in Workers, Advance(w) \/ Disturb(w), ~CheckRate(w)
  PROVE  wk'[w].pc \in Past => wk[w].pc \in Past /\ wk'[w].task = wk[w].task
  <1>1. DOMAIN wk = Workers /\ WorkerTyped(w)  BY DEF TypeOK, WorkersTyped
  <1>2. wk'[w] = IdleWorker \/ wk'[w].task = wk[w].task  BY WorkerStep
  <1>3. CASE CheckDND(w)
    <2>1. CASE wk'[w] = IdleWorker  BY <2>1, EndedNotPast
    <2>2. CASE wk'[w] # IdleWorker
      <3>1. wk'[w].pc = "rate"
        BY <1>1, <1>3, <2>2 DEF CheckDND, Finish, WorkerTyped
      <3> QED  BY <3>1 DEF Past
    <2> QED  BY <2>1, <2>2
  <1>4. wk[w].pc \in WorkerPcs  BY <1>1 DEF WorkerTyped
  <1>5. CASE wk[w].pc \in Past  BY <1>2, <1>5, EndedNotPast
  <1>6. CASE wk[w].pc \notin Past /\ ~CheckDND(w)
    <2>1. wk[w].pc \in {"idle", "dnd", "rate"}  BY <1>4, <1>6 DEF WorkerPcs, Past
    <2>2. Raise(w) \/ LoseWorker(w) \/ TimeLimit(w)
      BY <1>6, <2>1 DEF Advance, Disturb, LoadVault, StoreGet, StoreSet, Unmask, Post,
         Commit, Increment, PostUnanswered
    <2>3. wk'[w] = IdleWorker
      BY <1>1, <2>2 DEF Raise, RetryOrFail, LoseWorker, TimeLimit, Finish
    <2> QED  BY <2>3, EndedNotPast
  <1> QED  BY <1>3, <1>5, <1>6

\* Every step but the check and the increment.
LEMMA QuotaByStep ==
  ASSUME QuotaInv, TypeOK', TasksKept, UNCHANGED <<rate, day>>,
         \A v \in Workers : wk'[v].pc \in Past =>
            wk[v].pc \in Past /\ wk'[v].task = wk[v].task
  PROVE  QuotaInv'
  <1>1. \A ch, x : InFlight(ch, x)' \subseteq InFlight(ch, x)
    BY FlightStep DEF QuotaInv
  <1>2. OvershootBounded'
    <2> SUFFICES ASSUME NEW ch \in Channels, NEW x \in Contacts, NEW d \in Days
        PROVE  (rate[<<ch, x, d>>] + (IF d = day THEN Cardinality(InFlight(ch, x)) ELSE 0)
                 < LIMITS[ch] + Cardinality(Workers))'
      BY DEF OvershootBounded
    <2> QED  BY <1>1, QuotaKept
  <1> QED  BY <1>2 DEF QuotaInv

\* An execution that passes the check found its counter below the limit.
LEMMA QuotaByCheck ==
  ASSUME QuotaInv, TypeOK', NEW w \in Workers, CheckRate(w)
  PROVE  QuotaInv'
  <1> DEFINE c == CampOf(w)
  <1>0. TypeOK /\ wk[w].pc = "rate" /\ UNCHANGED <<rate, day>>
    BY DEF QuotaInv, CheckRate
  <1>1. /\ TasksKept /\ \A v \in Workers \ {w} : wk'[v] = wk[v]
        /\ wk'[w] = IdleWorker \/ wk'[w].task = wk[w].task
    BY <1>0, WorkerStep DEF Advance
  <1>2. DOMAIN wk = Workers /\ WorkerTyped(w)  BY <1>0 DEF TypeOK, WorkersTyped
  <1>3. c \in Campaigns /\ Contact[c] \in Contacts  BY <1>0, Busy
  <1>4. Channel[c] \in Channels  BY <1>3, ConstantsAssumption
  <1>5. CASE wk'[w] = IdleWorker
    BY <1>0, <1>1, <1>5, EndedNotPast, QuotaByStep
  <1>6. CASE wk'[w] # IdleWorker
    <2>1. rate[RateKey(c, day)] < LIMITS[Channel[c]]
      BY <1>2, <1>6 DEF CheckRate, Finish
    <2>2. CampOf(w)' = c  BY <1>0, <1>1, <1>6, Busy DEF CampOf, TasksKept
    <2>3. ASSUME NEW ch, NEW x, <<ch, x>> # <<Channel[c], Contact[c]>>
          PROVE  InFlight(ch, x)' \subseteq InFlight(ch, x)
      <3> SUFFICES ASSUME NEW v \in Workers, wk'[v].pc \in Past,
                          Channel[CampOf(v)'] = ch, Contact[CampOf(v)'] = x
          PROVE  v \in InFlight(ch, x)
        BY DEF InFlight
      <3>1. v # w  BY <2>2, <2>3
      <3>2. wk[v].pc \in Past /\ wk[v].pc # "idle"  BY <1>1, <3>1 DEF Past
      <3>3. CampOf(v)' = CampOf(v)  BY <1>0, <1>1, <3>1, <3>2, Busy DEF CampOf, TasksKept
      <3> QED  BY <3>2, <3>3 DEF InFlight
    <2>4. OvershootBounded'
      <3> SUFFICES ASSUME NEW ch \in Channels, NEW x \in Contacts, NEW d \in Days
          PROVE  (rate[<<ch, x, d>>] + (IF d = day THEN Cardinality(InFlight(ch, x)) ELSE 0)
                   < LIMITS[ch] + Cardinality(Workers))'
        BY DEF OvershootBounded
      <3>1. CASE <<ch, x>> # <<Channel[c], Contact[c]>>
        BY <1>0, <2>3, <3>1, QuotaKept
      <3>2. CASE <<ch, x>> = <<Channel[c], Contact[c]>>
        <4>1. rate[<<ch, x, d>>] \in Nat /\ LIMITS[ch] \in Nat
          BY <1>0, ConstantsAssumption DEF TypeOK, RecordsTyped, RateKeys
        <4>2. /\ Cardinality(InFlight(ch, x)') \in Nat
              /\ Cardinality(InFlight(ch, x)') <= Cardinality(Workers)
              /\ Cardinality(Workers) \in Nat
          <5>1. InFlight(ch, x)' \subseteq Workers  BY DEF InFlight
          <5> QED  BY <5>1, ConstantsAssumption, FS_Subset, FS_CardinalityType
        <4>3. CASE d = day
          <5>1. rate[<<ch, x, d>>] < LIMITS[ch]  BY <2>1, <3>2, <4>3 DEF RateKey
          <5> QED  BY <1>0, <4>1, <4>2, <4>3, <5>1
        <4>4. CASE d # day
          <5>1. rate[<<ch, x, d>>] + 0 < LIMITS[ch] + Cardinality(Workers)
            BY <4>4 DEF QuotaInv, OvershootBounded
          <5> QED  BY <1>0, <4>4, <5>1
        <4> QED  BY <4>3, <4>4
      <3> QED  BY <3>1, <3>2
    <2> QED  BY <1>0, <2>4 DEF QuotaInv
  <1> QED  BY <1>5, <1>6

\* An execution that counts its message is no longer in flight.
LEMMA QuotaByIncrement ==
  ASSUME QuotaInv, TypeOK', NEW w \in Workers, Increment(w)
  PROVE  QuotaInv'
  <1> DEFINE c == CampOf(w)
             k == RateKey(c, day)
  <1>0. TypeOK /\ wk[w].pc = "incr" /\ UNCHANGED day
    BY DEF QuotaInv, Increment
  <1>1. TasksKept /\ \A v \in Workers \ {w} : wk'[v] = wk[v]
    BY <1>0, WorkerStep DEF Advance
  <1>2. wk'[w] = IdleWorker
    BY <1>0 DEF Increment, Finish, TypeOK, WorkersTyped
  <1>3. c \in Campaigns /\ Contact[c] \in Contacts  BY <1>0, Busy
  <1>4. Channel[c] \in Channels /\ day \in Days
    BY <1>0, <1>3, ConstantsAssumption DEF TypeOK, RecordsTyped
  <1>5. k = <<Channel[c], Contact[c], day>> /\ k \in RateKeys
    BY <1>3, <1>4 DEF RateKey, RateKeys
  <1>6. rate \in [RateKeys -> Nat]  BY <1>0 DEF TypeOK, RecordsTyped
  <1>7. rate'[k] = rate[k] + 1 /\ \A j \in RateKeys \ {k} : rate'[j] = rate[j]
    BY <1>5, <1>6 DEF Increment
  <1>8. \A v \in Workers : wk'[v].pc \in Past =>
          wk[v].pc \in Past /\ wk'[v].task = wk[v].task
    BY <1>1, <1>2, EndedNotPast
  <1>9. ASSUME NEW ch, NEW x  PROVE InFlight(ch, x)' \subseteq InFlight(ch, x) \ {w}
    <2>1. InFlight(ch, x)' \subseteq InFlight(ch, x)  BY <1>0, <1>1, <1>8, FlightStep
    <2>2. w \notin InFlight(ch, x)'  BY <1>2, EndedNotPast DEF InFlight
    <2> QED  BY <2>1, <2>2
  <1>10. OvershootBounded'
    <2> SUFFICES ASSUME NEW ch \in Channels, NEW x \in Contacts, NEW d \in Days
        PROVE  (rate[<<ch, x, d>>] + (IF d = day THEN Cardinality(InFlight(ch, x)) ELSE 0)
                 < LIMITS[ch] + Cardinality(Workers))'
      BY DEF OvershootBounded
    <2> DEFINE j == <<ch, x, d>>
               m == Cardinality(InFlight(ch, x))
               n == Cardinality(InFlight(ch, x)')
               q == Cardinality(InFlight(ch, x) \ {w})
    <2>1. rate[j] + (IF d = day THEN m ELSE 0) < LIMITS[ch] + Cardinality(Workers)
      BY DEF QuotaInv, OvershootBounded
    <2>2. j \in RateKeys /\ rate[j] \in Nat /\ LIMITS[ch] \in Nat
      BY <1>6, ConstantsAssumption DEF RateKeys
    <2>3. IsFiniteSet(InFlight(ch, x)) /\ m \in Nat /\ Cardinality(Workers) \in Nat
      BY InFlightType
    <2>4. /\ IsFiniteSet(InFlight(ch, x) \ {w})
          /\ q = IF w \in InFlight(ch, x) THEN m - 1 ELSE m
      BY <2>3, FS_RemoveElement
    <2>5. n \in Nat /\ n <= q /\ q \in Nat
      BY <1>9, <2>4, FS_Subset, FS_CardinalityType
    <2> HIDE DEF m, n, q
    <2>6. CASE j = k
      <3>1. ch = Channel[c] /\ x = Contact[c] /\ d = day  BY <1>5, <2>6
      <3>2. w \in InFlight(ch, x)  BY <1>0, <3>1 DEF InFlight, Past
      <3>3. rate'[j] = rate[j] + 1  BY <1>7, <2>6
      <3>4. n + 1 <= m  BY <2>3, <2>4, <2>5, <3>2
      <3>5. rate'[j] + n < LIMITS[ch] + Cardinality(Workers)
        BY <2>1, <2>2, <2>3, <2>5, <3>1, <3>3, <3>4
      <3> QED  BY <1>0, <3>1, <3>5 DEF n
    <2>7. CASE j # k
      <3>1. rate'[j] = rate[j]  BY <1>7, <2>2, <2>7
      <3>2. n <= m  BY <2>3, <2>4, <2>5
      <3>3. rate'[j] + (IF d = day THEN n ELSE 0) < LIMITS[ch] + Cardinality(Workers)
        BY <2>1, <2>2, <2>3, <2>5, <3>1, <3>2
      <3> QED  BY <1>0, <3>3 DEF n
    <2> QED  BY <2>6, <2>7
  <1>11. \A j \in RateKeys : j[3] > day' => rate'[j] = 0
    <2>1. k[3] = day /\ ~(day > day)  BY <1>4, <1>5 DEF Days
    <2> QED  BY <1>0, <1>7, <2>1 DEF QuotaInv
  <1> QED  BY <1>10, <1>11 DEF QuotaInv

\* Midnight starts new counters, and what is in flight now counts for them.
LEMMA QuotaByMidnight ==
  ASSUME QuotaInv, TypeOK', NextDay
  PROVE  QuotaInv'
  <1>1. UNCHANGED <<rate, wk, task>> /\ day' = day + 1 /\ day \in Nat
    BY DEF NextDay, QuotaInv, TypeOK, RecordsTyped, Days
  <1>2. ASSUME NEW k \in RateKeys, k[3] > day'  PROVE rate'[k] = 0
    <2>1. k[3] \in Days  BY <1>2 DEF RateKeys
    <2>2. k[3] > day  BY <1>1, <1>2, <2>1 DEF Days
    <2> QED  BY <1>1, <2>2 DEF QuotaInv
  <1>3. OvershootBounded'
    <2> SUFFICES ASSUME NEW ch \in Channels, NEW x \in Contacts, NEW d \in Days
        PROVE  (rate[<<ch, x, d>>] + (IF d = day THEN Cardinality(InFlight(ch, x)) ELSE 0)
                 < LIMITS[ch] + Cardinality(Workers))'
      BY DEF OvershootBounded
    <2> DEFINE k == <<ch, x, d>>
    <2>1. InFlight(ch, x)' = InFlight(ch, x)  BY <1>1 DEF InFlight, CampOf
    <2>2. /\ Cardinality(InFlight(ch, x)) \in Nat /\ Cardinality(Workers) \in Nat
          /\ Cardinality(InFlight(ch, x)) <= Cardinality(Workers)
      BY InFlightType
    <2>3. k \in RateKeys /\ rate[k] \in Nat /\ LIMITS[ch] \in Nat /\ LIMITS[ch] # 0
      BY ConstantsAssumption DEF RateKeys, QuotaInv, TypeOK, RecordsTyped
    <2>4. CASE d = day'
      <3>1. k[3] > day  BY <1>1, <2>4
      <3>2. rate[k] = 0  BY <2>3, <3>1 DEF QuotaInv
      <3> QED  BY <1>1, <2>1, <2>2, <2>3, <2>4, <3>2
    <2>5. CASE d # day'
      <3>1. rate[k] + (IF d = day THEN Cardinality(InFlight(ch, x)) ELSE 0)
              < LIMITS[ch] + Cardinality(Workers)
        BY DEF QuotaInv, OvershootBounded
      <3> QED  BY <1>1, <2>2, <2>3, <2>5, <3>1
    <2> QED  BY <2>4, <2>5
  <1> QED  BY <1>2, <1>3 DEF QuotaInv

\* The daily limit is passed by no more than one message for each of the
\* other workers, however checks, sends, faults and midnights interleave.
THEOREM OvershootIsBounded == Spec => []OvershootBounded
  <1>1. Init => QuotaInv
    <2> SUFFICES ASSUME Init  PROVE QuotaInv
      OBVIOUS
    <2>1. \A w \in Workers : wk[w].pc \notin Past  BY DEF Init, IdleWorker, Past
    <2>2. \A ch, x : InFlight(ch, x) = {}  BY <2>1 DEF InFlight
    <2>3. \A k \in RateKeys : rate[k] = 0  BY DEF Init
    <2>4. ASSUME NEW ch \in Channels, NEW x \in Contacts, NEW d \in Days
          PROVE  rate[<<ch, x, d>>] + (IF d = day THEN Cardinality(InFlight(ch, x)) ELSE 0)
                   < LIMITS[ch] + Cardinality(Workers)
      <3>1. Cardinality(InFlight(ch, x)) = 0  BY <2>2, FS_EmptySet
      <3>2. rate[<<ch, x, d>>] = 0  BY <2>3 DEF RateKeys
      <3>3. LIMITS[ch] \in Nat \ {0} /\ Cardinality(Workers) \in Nat
        BY ConstantsAssumption, FS_CardinalityType
      <3> QED  BY <3>1, <3>2, <3>3
    <2> QED  BY <2>3, <2>4, TypeInit DEF QuotaInv, OvershootBounded
  <1>2. QuotaInv /\ TypeOK' /\ [Next]_vars => QuotaInv'
    <2> SUFFICES ASSUME QuotaInv, TypeOK', [Next]_vars  PROVE QuotaInv'
      OBVIOUS
    <2>0. TypeOK /\ DOMAIN wk = Workers  BY DEF QuotaInv, TypeOK, WorkersTyped
    <2>1. UNCHANGED wk => \A v \in Workers : wk'[v].pc \in Past =>
            wk[v].pc \in Past /\ wk'[v].task = wk[v].task
      OBVIOUS
    <2>2. CASE UNCHANGED vars
      BY <2>1, <2>2, QuotaByStep DEF vars, TasksKept
    <2>3. CASE Approve
      <3>1. ASSUME NEW r \in Requests, ApproveQueue(r)  PROVE TasksKept
        BY <2>0, <3>1 DEF ApproveQueue, TypeOK, TasksTyped, TasksKept
      <3>2. TasksKept
        BY <2>3, <3>1 DEF Approve, ApproveRefused, ApproveSelect, ApproveCommit, TasksKept
      <3>3. UNCHANGED <<wk, rate, day>>
        BY <2>3 DEF Approve, ApproveRefused, ApproveSelect, ApproveCommit, ApproveQueue
      <3> QED  BY <2>1, <3>2, <3>3, QuotaByStep
    <2>4. ASSUME NEW t \in Requests, NEW w \in Workers, Load(w, t)  PROVE QuotaInv'
      <3>1. TasksKept  BY <2>0, <2>4 DEF Load, TypeOK, TasksTyped, TaskType, TasksKept
      <3>2. wk'[w] = [IdleWorker EXCEPT !.pc = "dnd", !.task = t,
                        !.body = row[task[t].camp].body,
                        !.session = row[task[t].camp].session]
        BY <2>0, <2>4 DEF Load
      <3>3. wk'[w].pc \notin Past  BY <3>2 DEF IdleWorker, Past
      <3> QED  BY <2>0, <2>4, <3>1, <3>3, QuotaByStep DEF Load
    <2>5. ASSUME NEW t \in Requests, NEW w \in Workers, LoadNoContact(w, t)  PROVE QuotaInv'
      <3>1. TasksKept
        BY <2>0, <2>5 DEF LoadNoContact, TypeOK, TasksTyped, TaskType, TasksKept
      <3> QED  BY <2>1, <2>5, <3>1, QuotaByStep DEF LoadNoContact
    <2>6. ASSUME NEW w \in Workers, Advance(w) \/ Disturb(w)  PROVE QuotaInv'
      <3>1. TasksKept /\ \A v \in Workers \ {w} : wk'[v] = wk[v]
        BY <2>0, <2>6, WorkerStep
      <3>2. CASE ~CheckRate(w) /\ ~Increment(w)
        <4>1. UNCHANGED <<rate, day>>
          BY <2>6, <3>2
          DEF Advance, Disturb, CheckDND, LoadVault, StoreGet, StoreSet, Unmask, Post, Commit,
              PostUnanswered, Raise, LoseWorker, TimeLimit
        <4> QED  BY <2>0, <2>6, <3>1, <3>2, <4>1, PastStep, QuotaByStep
      <3> QED  BY <3>2, QuotaByCheck, QuotaByIncrement
    <2>7. CASE Environment
      <3>1. CASE NextDay  BY <3>1, QuotaByMidnight
      <3>2. CASE ~NextDay
        <4>1. UNCHANGED <<task, wk, rate, day>>
          BY <2>7, <3>2 DEF Environment, Receipt, OptOut, Expire
        <4> QED  BY <2>1, <4>1, QuotaByStep DEF TasksKept
      <3> QED  BY <3>1, <3>2
    <2> QED  BY <2>2, <2>3, <2>4, <2>5, <2>6, <2>7 DEF Next, Take
  <1>3. QuotaInv => OvershootBounded  BY DEF QuotaInv
  <1> QED  BY <1>1, <1>2, <1>3, TypeCorrect, PTL DEF Spec

------------------------------------------------------------------------------
(* The dispatch path implements OutreachLifecycle.  A campaign's stage is    *)
(* read off the histories and its status off the row, so that a step is      *)
(* abstract when it changes one of them for one campaign.                    *)

\* The booleans of a row, which decide its delivery status.
LEMMA StatusOfRow ==
  ASSUME FunnelInv, NEW c \in Campaigns
  PROVE  /\ row[c].converted => DeliveryStatus(c) = "converted"
         /\ ~row[c].converted /\ row[c].opened => DeliveryStatus(c) = "opened"
         /\ ~row[c].opened /\ row[c].delivered => DeliveryStatus(c) = "delivered"
         /\ ~row[c].delivered /\ row[c].sent => DeliveryStatus(c) = "sent"
         /\ ~row[c].sent => DeliveryStatus(c) = "pending"
  BY DEF DeliveryStatus, FunnelInv, FunnelOrder

\* A row whose delivery columns stay as they are keeps its status.
LEMMA StatusKept ==
  ASSUME NEW c, row'[c].sent = row[c].sent, row'[c].delivered = row[c].delivered,
         row'[c].opened = row[c].opened, row'[c].converted = row[c].converted
  PROVE  DeliveryStatus(c)' = DeliveryStatus(c)
  BY DEF DeliveryStatus

\* Nothing that a stage is read off has changed.
LEMMA StageKept ==
  ASSUME UNCHANGED <<outbox, approved>>, NEW c
  PROVE  Stage(c)' = Stage(c)
  BY DEF Stage, MessagesOf, Messages

\* A confirmed draft is approved; a later confirmation changes no stage.
LEMMA ApproveRefines ==
  ASSUME FunnelInv, NEW r \in Requests, ApproveCommit(r)
  PROVE  Lifecycle!LNext \/ UNCHANGED Lifecycle!lifecycle
  <1>1. PICK c \in Campaigns : c = req[r].camp
    BY DEF ApproveCommit, FunnelInv, TypeOK, RequestsTyped
  <1>2. \A d \in Campaigns : DeliveryStatus(d)' = DeliveryStatus(d)
    <2>1. PICK b, s : row' = [row EXCEPT ![c].body = b, ![c].session = s]
      BY <1>1 DEF ApproveCommit
    <2>2. \A d \in Campaigns :
            /\ row'[d].sent = row[d].sent /\ row'[d].delivered = row[d].delivered
            /\ row'[d].opened = row[d].opened /\ row'[d].converted = row[d].converted
      BY <2>1 DEF FunnelInv, TypeOK, RowsTyped, RowType
    <2> QED  BY <2>2, StatusKept
  <1>3. /\ \A d \in Campaigns \ {c} : approved'[d] = approved[d]
        /\ approved'[c] # {} /\ UNCHANGED outbox
    BY <1>1 DEF ApproveCommit, FunnelInv, TypeOK, RecordsTyped
  <1>4. \A d \in Campaigns : MessagesOf(d)' = MessagesOf(d)
    BY <1>3 DEF MessagesOf, Messages
  <1>5. \A d \in Campaigns \ {c} : Stage(d)' = Stage(d)
    BY <1>3, <1>4 DEF Stage
  <1>6. \/ Stage(c)' = Stage(c)
        \/ Stage(c) = "draft" /\ Stage(c)' = "approved"
    BY <1>3, <1>4 DEF Stage
  <1>7. CASE Stage(c)' = Stage(c)
    BY <1>1, <1>2, <1>5, <1>7 DEF Lifecycle!lifecycle
  <1>8. CASE Stage(c) = "draft" /\ Stage(c)' = "approved"
    <2>1. Lifecycle!LApprove(c)
      BY <1>1, <1>2, <1>5, <1>8 DEF Lifecycle!LApprove
    <2> QED  BY <1>1, <2>1 DEF Lifecycle!LNext
  <1> QED  BY <1>6, <1>7, <1>8

\* The provider takes the message of an approved campaign.
LEMMA AcceptRefines ==
  ASSUME FunnelInv, ApprovalInv, NEW w \in Workers, wk[w].pc = "post", Accepted(w),
         UNCHANGED <<row, approved>>
  PROVE  Lifecycle!LNext \/ UNCHANGED Lifecycle!lifecycle
  <1>1. PICK c \in Campaigns : c = CampOf(w)  BY Busy DEF FunnelInv
  <1>2. \A d \in Campaigns : DeliveryStatus(d)' = DeliveryStatus(d)  BY StatusKept
  <1>3. approved[c] # {}  BY <1>1 DEF ApprovalInv, ExecutionApproved
  <1>4. /\ Messages' = Messages \cup {Len(outbox) + 1}
        /\ \A i \in Messages : outbox'[i] = outbox[i]
        /\ outbox'[Len(outbox) + 1].camp = c
    BY <1>1, AcceptedMessage DEF FunnelInv
  <1>5. MessagesOf(c)' # {} /\ \A d \in Campaigns \ {c} : MessagesOf(d)' = MessagesOf(d)
    BY <1>4 DEF MessagesOf
  <1>6. \A d \in Campaigns \ {c} : Stage(d)' = Stage(d)
    BY <1>5 DEF Stage
  <1>7. Stage(c)' = "accepted" /\ Stage(c) \in {"approved", "accepted"}
    BY <1>3, <1>5 DEF Stage
  <1>8. CASE Stage(c) = "accepted"
    BY <1>2, <1>6, <1>7, <1>8 DEF Lifecycle!lifecycle
  <1>9. CASE Stage(c) = "approved"
    <2>1. Lifecycle!LAccept(c)
      BY <1>2, <1>6, <1>7, <1>9 DEF Lifecycle!LAccept
    <2> QED  BY <2>1 DEF Lifecycle!LNext
  <1> QED  BY <1>7, <1>8, <1>9

\* The first commit after a provider took the message records it.
LEMMA RecordRefines ==
  ASSUME FunnelInv, FunnelInv', NEW w \in Workers, Commit(w)
  PROVE  Lifecycle!LNext \/ UNCHANGED Lifecycle!lifecycle
  <1>1. PICK c \in Campaigns : c = CampOf(w)  BY Busy DEF FunnelInv, Commit
  <1>2. \A d \in Campaigns : Stage(d)' = Stage(d)  BY StageKept DEF Commit
  <1>3. Stage(c) = "accepted"
    BY <1>1 DEF FunnelInv, HoldsItsMessage, Commit, Stage
  <1>4. /\ row'[c].sent = TRUE
        /\ row'[c].delivered = row[c].delivered
        /\ row'[c].opened = row[c].opened
        /\ row'[c].converted = row[c].converted
        /\ \A d \in Campaigns \ {c} : row'[d] = row[d]
    BY <1>1 DEF Commit, FunnelInv, TypeOK, RowsTyped, RowType
  <1>5. \A d \in Campaigns \ {c} : DeliveryStatus(d)' = DeliveryStatus(d)
    BY <1>4, StatusKept
  <1>6. CASE row[c].sent
    <2>1. DeliveryStatus(c)' = DeliveryStatus(c)
      BY <1>4, <1>6 DEF DeliveryStatus, FunnelInv, TypeOK, RowsTyped, RowType
    <2> QED  BY <1>2, <1>5, <2>1 DEF Lifecycle!lifecycle
  <1>7. CASE ~row[c].sent
    <2>1. DeliveryStatus(c) = "pending"  BY <1>7, StatusOfRow
    <2>2. ~row[c].delivered /\ ~row[c].opened /\ ~row[c].converted
      BY <1>7 DEF FunnelInv, FunnelOrder
    <2>3. DeliveryStatus(c)' = "sent"  BY <1>4, <2>2 DEF DeliveryStatus
    <2>4. Lifecycle!LRecord(c)
      BY <1>2, <1>3, <1>5, <2>1, <2>3 DEF Lifecycle!LRecord
    <2> QED  BY <2>4 DEF Lifecycle!LNext
  <1> QED  BY <1>6, <1>7

\* The rungs of the funnel, by their height.
LEMMA Heights ==
  /\ Lifecycle!FunnelRank["pending"] = 0
  /\ Lifecycle!FunnelRank["sent"] = 1
  /\ Lifecycle!FunnelRank["delivered"] = 2
  /\ Lifecycle!FunnelRank["opened"] = 3
  /\ Lifecycle!FunnelRank["converted"] = 4
  BY DEF Lifecycle!FunnelRank, Lifecycle!Funnel

\* A receipt moves a campaign up, or leaves it where it is.
LEMMA ReceiptRefines ==
  ASSUME FunnelInv, FunnelInv', NEW i \in Messages, NEW s, Receipt(i, s)
  PROVE  Lifecycle!LNext \/ UNCHANGED Lifecycle!lifecycle
  <1>1. PICK c \in Campaigns :
          row[c].pmid = i /\ row' = [row EXCEPT ![c] = Received(row[c], s)]
    BY DEF Receipt
  <1>2. /\ row[c].sent /\ row'[c].delivered = TRUE
        /\ row[c].opened => row'[c].opened
        /\ row[c].converted => row'[c].converted
    <2>1. row[c].pmid # NoId  BY <1>1 DEF Messages, NoId
    <2> QED
      BY <1>1, <2>1
      DEF FunnelInv, SentRecordsAcceptedMessage, Received, TypeOK, RowsTyped, RowType
  <1>3. \A d \in Campaigns \ {c} : row'[d] = row[d]
    BY <1>1 DEF FunnelInv, TypeOK, RowsTyped
  <1>4. \A d \in Campaigns \ {c} : DeliveryStatus(d)' = DeliveryStatus(d)
    BY <1>3, StatusKept
  <1>5. \A d \in Campaigns : Stage(d)' = Stage(d)  BY StageKept DEF Receipt
  <1>6. DeliveryStatus(c) \in {"sent", "delivered", "opened", "converted"}
    BY <1>2, StatusOfRow
  <1>7. /\ row'[c].converted => DeliveryStatus(c)' = "converted"
        /\ ~row'[c].converted /\ row'[c].opened => DeliveryStatus(c)' = "opened"
        /\ ~row'[c].converted /\ ~row'[c].opened => DeliveryStatus(c)' = "delivered"
    BY <1>2 DEF DeliveryStatus
  <1>8. \/ DeliveryStatus(c)' = DeliveryStatus(c)
        \/ /\ DeliveryStatus(c)' \in Lifecycle!Funnel
           /\ Lifecycle!FunnelRank[DeliveryStatus(c)]
                < Lifecycle!FunnelRank[DeliveryStatus(c)']
    BY <1>2, <1>6, <1>7, StatusOfRow, Heights DEF Lifecycle!Funnel
  <1>9. CASE DeliveryStatus(c)' = DeliveryStatus(c)
    BY <1>4, <1>5, <1>9 DEF Lifecycle!lifecycle
  <1>10. CASE DeliveryStatus(c)' # DeliveryStatus(c)
    <2>1. PICK v \in Lifecycle!Funnel :
            /\ v = DeliveryStatus(c)'
            /\ Lifecycle!FunnelRank[DeliveryStatus(c)] < Lifecycle!FunnelRank[v]
      BY <1>8, <1>10
    <2>2. Lifecycle!LProgress(c, v)
      BY <1>4, <1>5, <1>6, <2>1 DEF Lifecycle!LProgress
    <2> QED  BY <2>1, <2>2 DEF Lifecycle!LNext
  <1> QED  BY <1>9, <1>10

\* What the RM sees of a campaign obeys OutreachLifecycle: for any number of
\* workers and calls, only an approved campaign reaches a provider, only an
\* accepted one is shown as sent, and its status never falls back.
THEOREM DispatchImplementsLifecycle == Spec => LifecycleHolds
  <1>1. Init => Lifecycle!LInit
    <2> SUFFICES ASSUME Init  PROVE Lifecycle!LInit
      OBVIOUS
    <2>1. Messages = {}  BY DEF Init, Messages
    <2>2. \A c \in Campaigns : Stage(c) = "draft"
      BY <2>1 DEF Init, Stage, MessagesOf
    <2>3. \A c \in Campaigns : DeliveryStatus(c) = "pending"
      BY DEF Init, DeliveryStatus
    <2> QED  BY <2>2, <2>3 DEF Lifecycle!LInit
  <1>2. FunnelInv /\ FunnelInv' /\ ApprovalInv /\ [Next]_vars
          => [Lifecycle!LNext]_(Lifecycle!lifecycle)
    <2> SUFFICES ASSUME FunnelInv, FunnelInv', ApprovalInv, [Next]_vars
        PROVE  Lifecycle!LNext \/ UNCHANGED Lifecycle!lifecycle
      OBVIOUS
    <2>1. ASSUME UNCHANGED <<row, outbox, approved>>
          PROVE  UNCHANGED Lifecycle!lifecycle
      <3>1. \A c \in Campaigns : Stage(c)' = Stage(c) /\ DeliveryStatus(c)' = DeliveryStatus(c)
        BY <2>1, StageKept, StatusKept
      <3> QED  BY <3>1 DEF Lifecycle!lifecycle
    <2>2. CASE UNCHANGED vars  BY <2>1, <2>2 DEF vars
    <2>3. CASE Approve
      <3>1. \/ UNCHANGED <<row, outbox, approved>>
            \/ \E r \in Requests : ApproveCommit(r)
        BY <2>3 DEF Approve, ApproveRefused, ApproveSelect, ApproveQueue
      <3> QED  BY <2>1, <3>1, ApproveRefines
    <2>4. ASSUME NEW t \in Requests, Take(t)
          PROVE  Lifecycle!LNext \/ UNCHANGED Lifecycle!lifecycle
      BY <2>1, <2>4 DEF Take, Load, LoadNoContact
    <2>5. ASSUME NEW w \in Workers, Advance(w) \/ Disturb(w)
          PROVE  Lifecycle!LNext \/ UNCHANGED Lifecycle!lifecycle
      <3>1. CASE Commit(w)  BY <3>1, RecordRefines
      <3>2. CASE ~Commit(w)
        <4>1. UNCHANGED row  BY <2>5, <3>2, RecordStep DEF FunnelInv
        <4>2. UNCHANGED approved /\ (UNCHANGED outbox \/ (wk[w].pc = "post" /\ Accepted(w)))
          BY <2>5, WorkerStep DEF FunnelInv
        <4> QED  BY <2>1, <4>1, <4>2, AcceptRefines
      <3> QED  BY <3>1, <3>2
    <2>6. CASE Environment
      <3>1. \/ UNCHANGED <<row, outbox, approved>>
            \/ \E i \in Messages, s \in {"delivered", "opened", "converted"} : Receipt(i, s)
        BY <2>6 DEF Environment, OptOut, Expire, NextDay, Messages
      <3> QED  BY <2>1, <3>1, ReceiptRefines
    <2> QED  BY <2>2, <2>3, <2>4, <2>5, <2>6 DEF Next
  <1> QED
    BY <1>1, <1>2, FunnelInvariant, ApprovalInvariant, PTL
    DEF Spec, LifecycleHolds, Lifecycle!LSpec

------------------------------------------------------------------------------
(* The recipient.  Every entry of a vault was stored for a campaign that     *)
(* uses the session, under a token of that campaign's kind.  A message can   *)
(* only go astray, then, when two customers' contacts of one kind share a    *)
(* session, which is what the run that refutes RightRecipient has them do.   *)

SessionsOf(c) == {GenSession[c], HdrSession[c]} \ {NoSession}

\* Campaigns that share a session and a kind of token have one contact.
SessionsApart ==
  \A c, d \in Campaigns :
    SessionsOf(c) \cap SessionsOf(d) # {} /\ Kind(c) = Kind(d) => Contact[c] = Contact[d]

\* A token tok of session s may stand for the contact x.
MayStandFor(tok, x, s) ==
  \E d \in Campaigns : s \in SessionsOf(d) /\ Kind(d) = tok[1] /\ Contact[d] = x

VaultHolds(v, s) == \A tok \in DOMAIN v : MayStandFor(tok, v[tok], s)

ExecutionAims(w) ==
  /\ wk[w].pc \in {"dnd", "rate", "vault", "storeGet", "storeSet", "unmask"} =>
       wk[w].session \in SessionsOf(CampOf(w))
  /\ wk[w].pc \in {"storeGet", "storeSet", "unmask"} =>
       MayStandFor(wk[w].token, Contact[CampOf(w)], wk[w].session)
  /\ wk[w].pc = "storeSet" => VaultHolds(wk[w].seen, wk[w].session)
  /\ wk[w].pc = "post" => wk[w].to = Contact[CampOf(w)]

RecipientInv ==
  /\ TypeOK
  /\ \A c \in Campaigns : row[c].session \in SessionsOf(c)
  /\ \A s \in Sessions : VaultHolds(vault[s], s)
  /\ \A w \in Workers : ExecutionAims(w)
  /\ RightRecipient

\* An execution nothing touched still aims at its customer.
LEMMA AimKept ==
  ASSUME TypeOK, TasksKept, NEW w \in Workers, ExecutionAims(w), wk'[w] = wk[w]
  PROVE  ExecutionAims(w)'
  <1>1. CASE wk[w].pc = "idle"  BY <1>1 DEF ExecutionAims
  <1>2. CASE wk[w].pc # "idle"
    <2>1. CampOf(w)' = CampOf(w)  BY <1>2, Busy DEF CampOf, TasksKept
    <2> QED  BY <2>1 DEF ExecutionAims
  <1> QED  BY <1>1, <1>2

\* An execution that has ended, or has handed over its message, aims at nobody.
LEMMA EndedAims ==
  ASSUME NEW w \in Workers, wk'[w].pc \in {"idle", "commit", "incr"}
  PROVE  ExecutionAims(w)'
  BY DEF ExecutionAims

\* A token stands for one contact: two of its kind in one session are the same.
LEMMA OneContact ==
  ASSUME SessionsApart, NEW tok, NEW s, NEW x, NEW y,
         MayStandFor(tok, x, s), MayStandFor(tok, y, s)
  PROVE  x = y
  BY DEF SessionsApart, MayStandFor

\* Every await of an execution keeps it aimed at its customer.
LEMMA AimOfWorker ==
  ASSUME SessionsApart, RecipientInv, NEW w \in Workers, Advance(w) \/ Disturb(w)
  PROVE  /\ ExecutionAims(w)'
         /\ \A s \in Sessions : VaultHolds(vault'[s], s)
  <1> DEFINE c == CampOf(w)
             Vaults == \A s \in Sessions : VaultHolds(vault'[s], s)
  <1>0. /\ TypeOK /\ wk[w].pc # "idle" /\ TasksKept
        /\ wk'[w] = IdleWorker \/ wk'[w].task = wk[w].task
    BY WorkerStep DEF RecipientInv
  <1>1. DOMAIN wk = Workers /\ WorkerTyped(w) /\ c \in Campaigns /\ Contact[c] \in Contacts
    BY <1>0, Busy DEF TypeOK, WorkersTyped
  <1>2. ExecutionAims(w) /\ VaultsTyped  BY DEF RecipientInv, TypeOK
  <1>3. UNCHANGED vault => Vaults  BY DEF RecipientInv
  <1>4. wk'[w] = IdleWorker => ExecutionAims(w)'  BY EndedAims DEF IdleWorker
  <1>5. wk'[w].task = wk[w].task => CampOf(w)' = c
    BY <1>0, Busy DEF CampOf, TasksKept
  <1>6. CASE StoreSet(w)
    <2> DEFINE s == wk[w].session
               u == PutToken(wk[w].seen, wk[w].token, Contact[c])
    <2>1. s \in Sessions /\ vault' = [vault EXCEPT ![s] = u]
      BY <1>1, <1>6 DEF StoreSet, WorkerTyped
    <2>2. MayStandFor(wk[w].token, Contact[c], s) /\ VaultHolds(wk[w].seen, s)
      BY <1>2, <1>6 DEF ExecutionAims, StoreSet
    <2>3. VaultHolds(u, s)  BY <2>2 DEF VaultHolds, PutToken
    <2>4. Vaults
      <3>1. \A r \in Sessions : vault'[r] = IF r = s THEN u ELSE vault[r]
        BY <1>2, <2>1 DEF VaultsTyped
      <3> HIDE DEF u, s
      <3> QED  BY <2>3, <3>1 DEF RecipientInv
    <2>5. /\ wk'[w].pc = "unmask" /\ wk'[w].session = s /\ wk'[w].token = wk[w].token
          /\ wk'[w].task = wk[w].task
      BY <1>1, <1>6 DEF StoreSet, WorkerTyped
    <2>6. s \in SessionsOf(c)  BY <1>2, <1>6 DEF ExecutionAims, StoreSet
    <2>7. ExecutionAims(w)'  BY <1>5, <2>2, <2>5, <2>6 DEF ExecutionAims
    <2> QED  BY <2>4, <2>7
  <1>7. CASE ~StoreSet(w)
    <2>1. Vaults
      BY <1>3, <1>7
      DEF Advance, Disturb, CheckDND, CheckRate, LoadVault, StoreGet, Unmask, Post, Commit,
          Increment, PostUnanswered, Raise, LoseWorker, TimeLimit
    <2> HIDE DEF Vaults
    <2>2. ASSUME wk'[w] # IdleWorker, CheckDND(w) \/ CheckRate(w)  PROVE ExecutionAims(w)'
      <3>1. /\ wk'[w].pc \in {"rate", "vault"} /\ wk'[w].session = wk[w].session
            /\ wk'[w].task = wk[w].task
        BY <1>1, <2>2 DEF CheckDND, CheckRate, Finish, WorkerTyped
      <3>2. wk[w].session \in SessionsOf(c)
        BY <1>2, <2>2 DEF ExecutionAims, CheckDND, CheckRate
      <3> QED  BY <1>5, <3>1, <3>2 DEF ExecutionAims
    <2>3. ASSUME LoadVault(w)  PROVE ExecutionAims(w)'
      <3> DEFINE s == wk[w].session
                 v == vault[s]
      <3>1. s \in SessionsOf(c) /\ s \in Sessions
        BY <1>1, <1>2, <2>3 DEF ExecutionAims, LoadVault, WorkerTyped
      <3>2. VaultHolds(v, s) /\ IsVault(v)  BY <1>2, <3>1 DEF RecipientInv, VaultsTyped
      <3>3. PICK tok :
              /\ \/ wk' = [wk EXCEPT ![w].pc = "unmask", ![w].token = tok]
                 \/ wk' = [wk EXCEPT ![w].pc = "storeGet", ![w].token = tok]
              /\ MayStandFor(tok, Contact[c], s)
        <4>1. ASSUME NEW tok \in DOMAIN v, v[tok] = Contact[c]
              PROVE  MayStandFor(tok, Contact[c], s)
          BY <3>2, <4>1 DEF VaultHolds
        <4>2. ASSUME NEW n  PROVE MayStandFor(<<Kind(c), n>>, Contact[c], s)
          BY <1>1, <3>1 DEF MayStandFor
        <4> QED  BY <2>3, <4>1, <4>2 DEF LoadVault
      <3>4. /\ wk'[w].pc \in {"unmask", "storeGet"} /\ wk'[w].token = tok
            /\ wk'[w].session = s /\ wk'[w].task = wk[w].task
        BY <1>1, <3>3 DEF WorkerTyped
      <3> QED  BY <1>5, <3>1, <3>3, <3>4 DEF ExecutionAims
    <2>4. ASSUME StoreGet(w)  PROVE ExecutionAims(w)'
      <3>1. wk[w].session \in Sessions  BY <1>1, <2>4 DEF StoreGet, WorkerTyped
      <3>2. VaultHolds(vault[wk[w].session], wk[w].session)  BY <3>1 DEF RecipientInv
      <3>3. /\ wk'[w].pc = "storeSet" /\ wk'[w].token = wk[w].token
            /\ wk'[w].session = wk[w].session /\ wk'[w].seen = vault[wk[w].session]
            /\ wk'[w].task = wk[w].task
        BY <1>1, <2>4 DEF StoreGet, WorkerTyped
      <3>4. /\ wk[w].session \in SessionsOf(c)
            /\ MayStandFor(wk[w].token, Contact[c], wk[w].session)
        BY <1>2, <2>4 DEF StoreGet, ExecutionAims
      <3> QED  BY <1>5, <3>2, <3>3, <3>4 DEF ExecutionAims
    <2>5. ASSUME wk'[w] # IdleWorker, Unmask(w)  PROVE ExecutionAims(w)'
      <3> DEFINE s == wk[w].session
                 v == vault[s]
      <3>1. /\ wk[w].token \in DOMAIN v
            /\ wk' = [wk EXCEPT ![w].pc = "post", ![w].to = v[wk[w].token],
                                ![w].token = NoToken, ![w].session = NoSession]
        BY <1>1, <2>5 DEF Unmask, RetryOrFail
      <3>2. s \in Sessions  BY <1>1, <2>5 DEF Unmask, WorkerTyped
      <3>3. MayStandFor(wk[w].token, v[wk[w].token], s)
        BY <3>1, <3>2 DEF RecipientInv, VaultHolds
      <3>4. MayStandFor(wk[w].token, Contact[c], s)
        BY <1>2, <2>5 DEF ExecutionAims, Unmask
      <3>5. v[wk[w].token] = Contact[c]  BY <3>3, <3>4, OneContact
      <3>6. wk'[w].pc = "post" /\ wk'[w].to = Contact[c] /\ wk'[w].task = wk[w].task
        BY <1>1, <3>1, <3>5 DEF WorkerTyped
      <3> QED  BY <1>5, <3>6 DEF ExecutionAims
    <2>6. ASSUME Post(w)  PROVE ExecutionAims(w)'
      <3>1. wk'[w] = [IdleWorker EXCEPT !.pc = "commit", !.task = wk[w].task,
                                        !.id = Len(outbox) + 1]
        BY <1>1, <2>6 DEF Post
      <3>2. wk'[w].pc = "commit"  BY <3>1 DEF IdleWorker
      <3> QED  BY <3>2, EndedAims
    <2>7. ASSUME Commit(w)  PROVE ExecutionAims(w)'
      <3>1. wk'[w].pc = "incr"  BY <1>1, <2>7 DEF Commit, WorkerTyped
      <3> QED  BY <3>1, EndedAims
    <2>8. ASSUME Increment(w) \/ Disturb(w)  PROVE ExecutionAims(w)'
      <3>1. wk'[w] = IdleWorker
        BY <1>1, <2>8 DEF Increment, Disturb, PostUnanswered, Raise, LoseWorker, TimeLimit,
           RetryOrFail, Finish
      <3> QED  BY <1>4, <3>1
    <2> QED
      BY <1>4, <1>7, <2>1, <2>2, <2>3, <2>4, <2>5, <2>6, <2>7, <2>8 DEF Advance, Vaults
  <1> QED  BY <1>6, <1>7

\* A row keeps a session of its own campaign.
LEMMA SessionsKept ==
  ASSUME RecipientInv, Next
  PROVE  \A c \in Campaigns : row'[c].session \in SessionsOf(c)
  <1>0. \A c \in Campaigns : row[c] \in RowType /\ row[c].session \in SessionsOf(c)
    BY DEF RecipientInv, TypeOK, RowsTyped
  <1>1. ASSUME NEW r \in Requests, ApproveCommit(r), NEW c \in Campaigns
        PROVE  row'[c].session \in SessionsOf(c)
    <2> DEFINE d == req[r].camp
    <2>1. d \in Campaigns
      BY <1>1 DEF ApproveCommit, RecipientInv, TypeOK, RequestsTyped
    <2>2. row'[c].session =
            IF c = d /\ HdrSession[d] # NoSession THEN HdrSession[d] ELSE row[c].session
      <3> DEFINE b == IF req[r].edit = NoEdit THEN row[d].body ELSE req[r].edit
                 s == IF HdrSession[d] = NoSession THEN row[d].session ELSE HdrSession[d]
      <3>1. row' = [row EXCEPT ![d].body = b, ![d].session = s]
        BY <1>1, <2>1 DEF ApproveCommit, RecipientInv, TypeOK, RowsTyped, RowType
      <3>2. row \in [Campaigns -> RowType]  BY DEF RecipientInv, TypeOK, RowsTyped
      <3>3. c = d => row'[c].session = s
        <4> HIDE DEF b, s, d
        <4> QED  BY <2>1, <3>1, <3>2 DEF RowType
      <3>4. c # d => row'[c] = row[c]
        <4> HIDE DEF b, s, d
        <4> QED  BY <2>1, <3>1, <3>2
      <3> QED  BY <3>3, <3>4
    <2> QED  BY <1>0, <2>1, <2>2 DEF SessionsOf
  <1>2. ASSUME NEW i, NEW x, Receipt(i, x), NEW c \in Campaigns
        PROVE  row'[c].session = row[c].session
    <2>1. PICK d \in Campaigns : row' = [row EXCEPT ![d] = Received(row[d], x)]
      BY <1>2 DEF Receipt
    <2>2. Received(row[d], x).session = row[d].session  BY <1>0 DEF Received, RowType
    <2> QED  BY <2>1, <2>2 DEF RecipientInv, TypeOK, RowsTyped
  <1>3. ASSUME NEW w \in Workers, Advance(w) \/ Disturb(w), NEW c \in Campaigns
        PROVE  row'[c].session = row[c].session
    <2>1. CASE Commit(w)
      BY <2>1 DEF Commit, RecipientInv, TypeOK, RowsTyped, RowType
    <2>2. CASE ~Commit(w)  BY <1>3, <2>2, RecordStep DEF RecipientInv
    <2> QED  BY <2>1, <2>2
  <1>4. \/ UNCHANGED row
        \/ \E r \in Requests : ApproveCommit(r)
        \/ \E i, x : Receipt(i, x)
        \/ \E w \in Workers : Advance(w) \/ Disturb(w)
    BY DEF Next, Approve, ApproveRefused, ApproveSelect, ApproveQueue, Take, Load,
           LoadNoContact, Environment, OptOut, Expire, NextDay
  <1> QED  BY <1>0, <1>1, <1>2, <1>3, <1>4

\* A worker that takes a task takes a session of its campaign with it.
LEMMA AimOfTake ==
  ASSUME RecipientInv, NEW t \in Requests, NEW w \in Workers, Load(w, t)
  PROVE  TasksKept /\ ExecutionAims(w)' /\ \A v \in Workers \ {w} : wk'[v] = wk[v]
  <1> DEFINE c == task[t].camp
  <1>1. task \in [Requests -> TaskType] /\ DOMAIN wk = Workers
    BY DEF RecipientInv, TypeOK, TasksTyped, WorkersTyped
  <1>2. c \in Campaigns
    BY DEF Load, RecipientInv, TypeOK, TasksTyped, RequestsTyped
  <1>3. TasksKept /\ task'[t].camp = c
    BY <1>1 DEF Load, TaskType, TasksKept
  <1>4. wk'[w] = [IdleWorker EXCEPT !.pc = "dnd", !.task = t,
                    !.body = row[c].body, !.session = row[c].session]
    BY <1>1 DEF Load
  <1>5. wk'[w].pc = "dnd" /\ wk'[w].task = t /\ wk'[w].session = row[c].session
    BY <1>4 DEF IdleWorker
  <1>6. CampOf(w)' = c  BY <1>3, <1>5 DEF CampOf
  <1>7. ExecutionAims(w)'  BY <1>2, <1>5, <1>6 DEF ExecutionAims, RecipientInv
  <1> QED  BY <1>1, <1>3, <1>7 DEF Load

\* The recipients hold in every reachable state.
LEMMA RecipientInvariant ==
  ASSUME SessionsApart  PROVE Spec => []RecipientInv
  <1>1. Init => RecipientInv
    <2> SUFFICES ASSUME Init  PROVE RecipientInv
      OBVIOUS
    <2>1. \A c \in Campaigns : row[c].session \in SessionsOf(c)
      BY ConstantsAssumption DEF Init, SessionsOf
    <2>2. \A s \in Sessions : VaultHolds(vault[s], s)
      BY DEF Init, VaultHolds, EmptyVault
    <2>3. \A w \in Workers : ExecutionAims(w)
      BY DEF Init, IdleWorker, ExecutionAims
    <2>4. RightRecipient  BY DEF Init, RightRecipient, Messages
    <2> QED  BY <2>1, <2>2, <2>3, <2>4, TypeInit DEF RecipientInv
  <1>2. RecipientInv /\ TypeOK' /\ [Next]_vars => RecipientInv'
    <2> SUFFICES ASSUME RecipientInv, TypeOK', [Next]_vars  PROVE RecipientInv'
      OBVIOUS
    <2>0. TypeOK  BY DEF RecipientInv
    <2>1. \A c \in Campaigns : row'[c].session \in SessionsOf(c)
      BY SessionsKept DEF vars, RecipientInv
    <2>2. UNCHANGED outbox => RightRecipient'
      BY DEF RecipientInv, RightRecipient, Messages
    <2>3. UNCHANGED vault => \A s \in Sessions : VaultHolds(vault'[s], s)
      BY DEF RecipientInv
    <2>4. ASSUME TasksKept, UNCHANGED wk  PROVE \A v \in Workers : ExecutionAims(v)'
      BY <2>0, <2>4, AimKept DEF RecipientInv
    <2>5. CASE UNCHANGED vars
      BY <2>1, <2>2, <2>3, <2>4, <2>5 DEF vars, TasksKept, RecipientInv
    <2>6. CASE Approve
      <3>1. ASSUME NEW r \in Requests, ApproveQueue(r)  PROVE TasksKept
        BY <2>0, <3>1 DEF ApproveQueue, TypeOK, TasksTyped, TasksKept
      <3>2. TasksKept
        BY <2>6, <3>1 DEF Approve, ApproveRefused, ApproveSelect, ApproveCommit, TasksKept
      <3>3. UNCHANGED <<wk, vault, outbox>>
        BY <2>6 DEF Approve, ApproveRefused, ApproveSelect, ApproveCommit, ApproveQueue
      <3> QED  BY <2>1, <2>2, <2>3, <2>4, <3>2, <3>3 DEF RecipientInv
    <2>7. ASSUME NEW t \in Requests, NEW w \in Workers, Load(w, t)  PROVE RecipientInv'
      <3>1. TasksKept /\ ExecutionAims(w)' /\ \A v \in Workers \ {w} : wk'[v] = wk[v]
        BY <2>7, AimOfTake
      <3>2. \A v \in Workers : ExecutionAims(v)'
        BY <2>0, <3>1, AimKept DEF RecipientInv
      <3> QED  BY <2>1, <2>2, <2>3, <2>7, <3>2 DEF Load, RecipientInv
    <2>8. ASSUME NEW t \in Requests, NEW w \in Workers, LoadNoContact(w, t)
          PROVE  RecipientInv'
      <3>1. TasksKept
        BY <2>0, <2>8 DEF LoadNoContact, TypeOK, TasksTyped, TaskType, TasksKept
      <3> QED  BY <2>1, <2>2, <2>3, <2>4, <2>8, <3>1 DEF LoadNoContact, RecipientInv
    <2>9. ASSUME NEW w \in Workers, Advance(w) \/ Disturb(w)  PROVE RecipientInv'
      <3>1. /\ TasksKept /\ \A v \in Workers \ {w} : wk'[v] = wk[v]
            /\ UNCHANGED outbox \/ (wk[w].pc = "post" /\ Accepted(w))
        BY <2>0, <2>9, WorkerStep
      <3>2. ExecutionAims(w)' /\ \A s \in Sessions : VaultHolds(vault'[s], s)
        BY <2>9, AimOfWorker
      <3>3. \A v \in Workers : ExecutionAims(v)'
        BY <2>0, <3>1, <3>2, AimKept DEF RecipientInv
      <3>4. ASSUME wk[w].pc = "post", Accepted(w)  PROVE RightRecipient'
        <4>1. wk[w].to = Contact[CampOf(w)]
          BY <3>4 DEF RecipientInv, ExecutionAims
        <4> QED
          BY <2>0, <3>4, <4>1, AcceptedMessage DEF RecipientInv, RightRecipient
      <3> QED  BY <2>1, <2>2, <3>1, <3>2, <3>3, <3>4 DEF RecipientInv
    <2>10. CASE Environment
      <3>1. UNCHANGED <<task, wk, outbox>>
        BY <2>10 DEF Environment, Receipt, OptOut, Expire, NextDay
      <3>2. ASSUME NEW s \in Sessions, Expire(s)
            PROVE  \A r \in Sessions : VaultHolds(vault'[r], r)
        <4>1. \A r \in Sessions : vault'[r] = EmptyVault \/ vault'[r] = vault[r]
          BY <2>0, <3>2 DEF Expire, TypeOK, VaultsTyped
        <4>2. \A r : VaultHolds(EmptyVault, r)  BY DEF VaultHolds, EmptyVault
        <4> QED  BY <4>1, <4>2 DEF RecipientInv
      <3>3. UNCHANGED vault \/ \E s \in Sessions : Expire(s)
        BY <2>10 DEF Environment, Receipt, OptOut, NextDay
      <3> QED  BY <2>1, <2>2, <2>3, <2>4, <3>1, <3>2, <3>3 DEF TasksKept, RecipientInv
    <2> QED  BY <2>5, <2>6, <2>7, <2>8, <2>9, <2>10 DEF Next, Take
  <1> QED  BY <1>1, <1>2, TypeCorrect, PTL DEF Spec

\* The recipient of every message is the campaign's own customer, however the
\* writers of a vault race and whenever its entries are lost, so long as no
\* two customers' contacts of one kind share a session.
THEOREM RecipientIsRight ==
  ASSUME SessionsApart  PROVE Spec => []RightRecipient
  <1>1. RecipientInv => RightRecipient  BY DEF RecipientInv
  <1> QED  BY <1>1, RecipientInvariant, PTL

------------------------------------------------------------------------------
(* The opt-out.  A message that goes out after it comes from an execution    *)
(* that had consulted the registry before; there are no more of those than   *)
(* workers, and each of them that sends is one fewer.                        *)

LateTo(x) == {i \in Messages : outbox[i].to = x /\ outbox[i].late}

\* The executions past the registry that have yet to send to x.
LetThrough(x) ==
  {w \in Workers : /\ wk[w].pc \in {"rate", "vault", "storeGet", "storeSet", "unmask", "post"}
                   /\ Contact[CampOf(w)] = x}

OptOutInv ==
  /\ RecipientInv
  /\ \A x \in Contacts :
       /\ x \notin dnd => LateTo(x) = {}
       /\ x \in dnd =>
            Cardinality(LateTo(x)) + Cardinality(LetThrough(x)) <= Cardinality(Workers)

\* Both sets are finite, and the second is of workers.
LEMMA OptOutType ==
  ASSUME TypeOK, NEW x
  PROVE  /\ IsFiniteSet(LateTo(x)) /\ Cardinality(LateTo(x)) \in Nat
         /\ IsFiniteSet(LetThrough(x)) /\ Cardinality(LetThrough(x)) \in Nat
         /\ Cardinality(LetThrough(x)) <= Cardinality(Workers)
         /\ Cardinality(Workers) \in Nat
  <1>1. Len(outbox) \in Nat  BY DEF TypeOK, RecordsTyped
  <1>2. IsFiniteSet(Messages)  BY <1>1, FS_Interval DEF Messages
  <1>3. IsFiniteSet(LateTo(x))  BY <1>2, FS_Subset DEF LateTo
  <1>4. IsFiniteSet(Workers)  BY ConstantsAssumption
  <1>5. LetThrough(x) \subseteq Workers  BY DEF LetThrough
  <1> QED  BY <1>3, <1>4, <1>5, FS_Subset, FS_CardinalityType

\* A step that sends nothing and lets nobody through to one who opted out.
LEMMA OptOutKept ==
  ASSUME OptOutInv, RecipientInv', UNCHANGED <<outbox, dnd>>,
         \A x \in dnd : LetThrough(x)' \subseteq LetThrough(x)
  PROVE  OptOutInv'
  <1> SUFFICES ASSUME NEW x \in Contacts
      PROVE  /\ x \notin dnd => LateTo(x)' = {}
             /\ x \in dnd => Cardinality(LateTo(x)') + Cardinality(LetThrough(x)')
                               <= Cardinality(Workers)
    BY DEF OptOutInv
  <1>1. LateTo(x)' = LateTo(x)  BY DEF LateTo, Messages
  <1>2. x \notin dnd => LateTo(x)' = {}  BY <1>1 DEF OptOutInv
  <1>3. ASSUME x \in dnd
        PROVE  Cardinality(LateTo(x)') + Cardinality(LetThrough(x)') <= Cardinality(Workers)
    <2> DEFINE a == Cardinality(LateTo(x))
               b == Cardinality(LetThrough(x))
               d == Cardinality(LetThrough(x)')
    <2>1. a \in Nat /\ IsFiniteSet(LetThrough(x)) /\ b \in Nat /\ Cardinality(Workers) \in Nat
      BY OptOutType DEF OptOutInv, RecipientInv
    <2>2. d \in Nat /\ d <= b
      BY <1>3, <2>1, FS_Subset, FS_CardinalityType
    <2>3. a + b <= Cardinality(Workers)  BY <1>3 DEF OptOutInv
    <2>4. Cardinality(LateTo(x)') = a  BY <1>1
    <2> HIDE DEF a, b, d
    <2>5. a + d <= Cardinality(Workers)  BY <2>1, <2>2, <2>3
    <2> QED  BY <2>4, <2>5 DEF d
  <1> QED  BY <1>2, <1>3

\* Executions are let through by the registry only.
LEMMA ThroughStep ==
  ASSUME TypeOK, TasksKept, NEW x, NEW S, S \subseteq Workers,
         \A v \in Workers :
            wk'[v].pc \in {"rate", "vault", "storeGet", "storeSet", "unmask", "post"} =>
              /\ v \notin S /\ wk[v].pc # "idle" /\ wk'[v].task = wk[v].task
              /\ \/ wk[v].pc \in {"rate", "vault", "storeGet", "storeSet", "unmask", "post"}
                 \/ Contact[CampOf(v)] # x
  PROVE  LetThrough(x)' \subseteq LetThrough(x) \ S
  <1> SUFFICES ASSUME NEW v \in Workers,
                      wk'[v].pc \in {"rate", "vault", "storeGet", "storeSet", "unmask", "post"},
                      Contact[CampOf(v)'] = x
      PROVE  v \in LetThrough(x) \ S
    BY DEF LetThrough
  <1>1. CampOf(v)' = CampOf(v)  BY Busy DEF CampOf, TasksKept
  <1> QED  BY <1>1 DEF LetThrough

\* The step of an execution in those terms.
LEMMA ThroughByWorker ==
  ASSUME TypeOK, NEW w \in Workers, Advance(w) \/ Disturb(w), NEW x, x \in dnd
  PROVE  LetThrough(x)' \subseteq
           LetThrough(x) \ (IF UNCHANGED outbox THEN {} ELSE {w})
  <1> DEFINE P == {"rate", "vault", "storeGet", "storeSet", "unmask", "post"}
             S == IF UNCHANGED outbox THEN {} ELSE {w}
  <1>1. /\ wk[w].pc # "idle" /\ TasksKept /\ \A v \in Workers \ {w} : wk'[v] = wk[v]
        /\ wk'[w] = IdleWorker \/ wk'[w].task = wk[w].task
    BY WorkerStep
  <1>2. DOMAIN wk = Workers /\ WorkerTyped(w)  BY DEF TypeOK, WorkersTyped
  <1>3. wk'[w] = IdleWorker => wk'[w].pc \notin P  BY DEF IdleWorker
  <1>4. ASSUME wk'[w].pc \in P
        PROVE  /\ UNCHANGED outbox
               /\ wk[w].pc \in P \/ Contact[CampOf(w)] # x
    <2>1. CASE CheckDND(w)
      BY <1>2, <1>3, <1>4, <2>1 DEF CheckDND, Finish
    <2>2. CASE CheckRate(w) \/ LoadVault(w) \/ StoreGet(w) \/ StoreSet(w) \/ Unmask(w)
      BY <2>2 DEF CheckRate, LoadVault, StoreGet, StoreSet, Unmask
    <2>3. CASE Post(w)
      <3>1. wk'[w] = [IdleWorker EXCEPT !.pc = "commit", !.task = wk[w].task,
                                        !.id = Len(outbox) + 1]
        BY <1>2, <2>3 DEF Post
      <3>2. wk'[w].pc = "commit"  BY <3>1 DEF IdleWorker
      <3> QED  BY <1>4, <3>2
    <2>4. CASE Commit(w)
      <3>1. wk'[w].pc = "incr"  BY <1>2, <2>4 DEF Commit, WorkerTyped
      <3> QED  BY <1>4, <3>1
    <2>5. CASE Increment(w) \/ Disturb(w)
      <3>1. wk'[w] = IdleWorker
        BY <1>2, <2>5 DEF Increment, Disturb, PostUnanswered, Raise, LoseWorker, TimeLimit,
           RetryOrFail, Finish
      <3> QED  BY <1>3, <1>4, <3>1
    <2> QED  BY <2>1, <2>2, <2>3, <2>4, <2>5 DEF Advance
  <1>5. ASSUME NEW v \in Workers, wk'[v].pc \in P
        PROVE  /\ v \notin S /\ wk[v].pc # "idle" /\ wk'[v].task = wk[v].task
               /\ wk[v].pc \in P \/ Contact[CampOf(v)] # x
    <2>1. CASE v = w  BY <1>1, <1>3, <1>4, <1>5, <2>1
    <2>2. CASE v # w  BY <1>1, <1>5, <2>2
    <2> QED  BY <2>1, <2>2
  <1>6. S \subseteq Workers  OBVIOUS
  <1> HIDE DEF S
  <1>7. LetThrough(x)' \subseteq LetThrough(x) \ S
    BY <1>1, <1>5, <1>6, ThroughStep
  <1> QED  BY <1>7 DEF S

\* Which messages are late when a provider takes one more.
LEMMA LateAdded ==
  ASSUME TypeOK, NEW w \in Workers, wk[w].pc = "post", Accepted(w), NEW x
  PROVE  LateTo(x)' = IF wk[w].to = x /\ x \in dnd THEN LateTo(x) \cup {Len(outbox) + 1}
                      ELSE LateTo(x)
  <1> DEFINE n == Len(outbox) + 1
             m == [camp |-> CampOf(w), task |-> wk[w].task, to |-> wk[w].to,
                   body |-> Rendered(w), late |-> wk[w].to \in dnd]
  <1>1. /\ Messages' = Messages \cup {n}
        /\ \A i \in Messages : outbox'[i] = outbox[i]
        /\ outbox'[n].to = wk[w].to
    BY AcceptedMessage
  <1>2. outbox'[n].late <=> wk[w].to \in dnd
    <2>1. outbox' = Append(outbox, m)  BY DEF Accepted
    <2>2. outbox'[n] = m
      <3>1. outbox \in Seq(MessageType)  BY DEF TypeOK, RecordsTyped
      <3> HIDE DEF m
      <3> QED  BY <2>1, <3>1
    <2>3. m.late = (wk[w].to \in dnd)  OBVIOUS
    <2> HIDE DEF m
    <2> QED  BY <2>2, <2>3
  <1> QED  BY <1>1, <1>2 DEF LateTo

\* A message sent after the opt-out uses up the execution that was let through.
LEMMA OptOutByWorker ==
  ASSUME OptOutInv, RecipientInv', NEW w \in Workers, Advance(w) \/ Disturb(w)
  PROVE  OptOutInv'
  <1>0. TypeOK /\ RecipientInv  BY DEF OptOutInv, RecipientInv
  <1>1. UNCHANGED dnd
    BY DEF Advance, Disturb, CheckDND, CheckRate, LoadVault, StoreGet, StoreSet, Unmask,
           Post, Commit, Increment, PostUnanswered, Raise, LoseWorker, TimeLimit
  <1>2. UNCHANGED outbox \/ (wk[w].pc = "post" /\ Accepted(w))  BY <1>0, WorkerStep
  <1>3. CASE UNCHANGED outbox
    <2>1. \A x \in dnd : LetThrough(x)' \subseteq LetThrough(x)
      BY <1>0, <1>3, ThroughByWorker
    <2> QED  BY <1>1, <1>3, <2>1, OptOutKept
  <1>4. CASE wk[w].pc = "post" /\ Accepted(w)
    <2> SUFFICES ASSUME NEW x \in Contacts
        PROVE  /\ x \notin dnd => LateTo(x)' = {}
               /\ x \in dnd => Cardinality(LateTo(x)') + Cardinality(LetThrough(x)')
                                 <= Cardinality(Workers)
      BY <1>1 DEF OptOutInv
    <2>1. LateTo(x)' = IF wk[w].to = x /\ x \in dnd THEN LateTo(x) \cup {Len(outbox) + 1}
                       ELSE LateTo(x)
      BY <1>0, <1>4, LateAdded
    <2>2. x \notin dnd => LateTo(x)' = {}  BY <2>1 DEF OptOutInv
    <2>3. ASSUME x \in dnd
          PROVE  Cardinality(LateTo(x)') + Cardinality(LetThrough(x)') <= Cardinality(Workers)
      <3> DEFINE a == Cardinality(LateTo(x))
                 b == Cardinality(LetThrough(x))
                 r == Cardinality(LetThrough(x) \ {w})
                 d == Cardinality(LetThrough(x)')
                 e == Cardinality(LateTo(x)')
      <3>1. /\ IsFiniteSet(LateTo(x)) /\ a \in Nat /\ IsFiniteSet(LetThrough(x)) /\ b \in Nat
            /\ Cardinality(Workers) \in Nat
        BY <1>0, OptOutType
      <3>2. a + b <= Cardinality(Workers)  BY <2>3 DEF OptOutInv
      <3>3. ~UNCHANGED outbox
        <4>1. Len(outbox') = Len(outbox) + 1 /\ Len(outbox) \in Nat
          BY <1>0, <1>4, AcceptedMessage DEF TypeOK, RecordsTyped
        <4> QED  BY <4>1
      <3>4. LetThrough(x)' \subseteq LetThrough(x) \ {w}
        BY <1>0, <2>3, <3>3, ThroughByWorker
      <3>5. /\ IsFiniteSet(LetThrough(x) \ {w})
            /\ r = IF w \in LetThrough(x) THEN b - 1 ELSE b
        BY <3>1, FS_RemoveElement
      <3>6. d \in Nat /\ d <= r /\ r \in Nat
        BY <3>4, <3>5, FS_Subset, FS_CardinalityType
      <3>7. e = a \/ (e <= a + 1 /\ e \in Nat /\ wk[w].to = x)
        <4> DEFINE n == Len(outbox) + 1
                   f == Cardinality(LateTo(x) \cup {n})
        <4>1. f = IF n \in LateTo(x) THEN a ELSE a + 1
          BY <3>1, FS_AddElement
        <4>2. f \in Nat /\ f <= a + 1
          <5> HIDE DEF f, a
          <5> QED  BY <3>1, <4>1
        <4>3. CASE wk[w].to = x  BY <2>1, <2>3, <4>2, <4>3
        <4>4. CASE wk[w].to # x  BY <2>1, <4>4
        <4> QED  BY <4>3, <4>4
      <3>8. wk[w].to = x => w \in LetThrough(x)
        BY <1>0, <1>4 DEF RecipientInv, ExecutionAims, LetThrough
      <3> HIDE DEF a, b, r, d, e
      <3>9. e + d <= Cardinality(Workers)
        BY <3>1, <3>2, <3>5, <3>6, <3>7, <3>8
      <3> QED  BY <3>9 DEF d, e
    <2> QED  BY <2>2, <2>3
  <1> QED  BY <1>2, <1>3, <1>4

\* At the opt-out no message is late yet, and the workers bound the rest.
LEMMA OptOutByCustomer ==
  ASSUME OptOutInv, RecipientInv', NEW y \in Contacts, OptOut(y)
  PROVE  OptOutInv'
  <1>1. UNCHANGED <<outbox, wk, task>> /\ dnd' = dnd \cup {y} /\ y \notin dnd
    BY DEF OptOut
  <1>2. \A x : LateTo(x)' = LateTo(x) /\ LetThrough(x)' = LetThrough(x)
    BY <1>1 DEF LateTo, Messages, LetThrough, CampOf
  <1>3. LateTo(y) = {}  BY <1>1 DEF OptOutInv
  <1>4. Cardinality(LateTo(y)) + Cardinality(LetThrough(y)) <= Cardinality(Workers)
    <2>1. Cardinality(LateTo(y)) = 0  BY <1>3, FS_EmptySet
    <2>2. /\ Cardinality(LetThrough(y)) \in Nat /\ Cardinality(Workers) \in Nat
          /\ Cardinality(LetThrough(y)) <= Cardinality(Workers)
      BY OptOutType DEF OptOutInv, RecipientInv
    <2> QED  BY <2>1, <2>2
  <1> QED  BY <1>1, <1>2, <1>4 DEF OptOutInv

\* An opt-out is obeyed by every execution that consults the registry after
\* it: at most one message for each worker still goes out to the contact.
THEOREM OptOutIsObeyed ==
  ASSUME SessionsApart  PROVE Spec => []OptOutTakesEffect
  <1>1. Init => (RecipientInv => OptOutInv)
    <2> SUFFICES ASSUME Init, RecipientInv  PROVE OptOutInv
      OBVIOUS
    <2>1. Messages = {} /\ dnd = {}  BY DEF Init, Messages
    <2> QED  BY <2>1 DEF OptOutInv, LateTo
  <1>2. OptOutInv /\ RecipientInv' /\ [Next]_vars => OptOutInv'
    <2> SUFFICES ASSUME OptOutInv, RecipientInv', [Next]_vars  PROVE OptOutInv'
      OBVIOUS
    <2>0. TypeOK /\ RecipientInv /\ DOMAIN wk = Workers
      BY DEF OptOutInv, RecipientInv, TypeOK, WorkersTyped
    <2>1. ASSUME TasksKept, UNCHANGED <<wk, outbox, dnd>>  PROVE OptOutInv'
      <3>1. \A x : LetThrough(x)' \subseteq LetThrough(x)
        <4> SUFFICES ASSUME NEW x, NEW v \in Workers,
                            wk[v].pc \in {"rate", "vault", "storeGet", "storeSet", "unmask", "post"},
                            Contact[CampOf(v)'] = x
            PROVE  v \in LetThrough(x)
          BY <2>1 DEF LetThrough
        <4>1. CampOf(v)' = CampOf(v)  BY <2>0, <2>1, Busy DEF CampOf, TasksKept
        <4> QED  BY <4>1 DEF LetThrough
      <3> QED  BY <2>1, <3>1, OptOutKept
    <2>2. CASE UNCHANGED vars  BY <2>1, <2>2 DEF vars, TasksKept
    <2>3. CASE Approve
      <3>1. ASSUME NEW r \in Requests, ApproveQueue(r)  PROVE TasksKept
        BY <2>0, <3>1 DEF ApproveQueue, TypeOK, TasksTyped, TasksKept
      <3>2. TasksKept
        BY <2>3, <3>1 DEF Approve, ApproveRefused, ApproveSelect, ApproveCommit, TasksKept
      <3>3. UNCHANGED <<wk, outbox, dnd>>
        BY <2>3 DEF Approve, ApproveRefused, ApproveSelect, ApproveCommit, ApproveQueue
      <3> QED  BY <2>1, <3>2, <3>3
    <2>4. ASSUME NEW t \in Requests, NEW w \in Workers, Load(w, t)  PROVE OptOutInv'
      <3>1. TasksKept /\ \A v \in Workers \ {w} : wk'[v] = wk[v]
        BY <2>0, <2>4, AimOfTake
      <3>2. wk'[w] = [IdleWorker EXCEPT !.pc = "dnd", !.task = t,
                        !.body = row[task[t].camp].body,
                        !.session = row[task[t].camp].session]
        BY <2>0, <2>4 DEF Load
      <3>3. wk'[w].pc = "dnd"  BY <3>2 DEF IdleWorker
      <3>4. ASSUME NEW v \in Workers,
                   wk'[v].pc \in {"rate", "vault", "storeGet", "storeSet", "unmask", "post"}
            PROVE  /\ wk[v].pc # "idle" /\ wk'[v].task = wk[v].task
                   /\ wk[v].pc \in {"rate", "vault", "storeGet", "storeSet", "unmask", "post"}
        <4>1. v # w  BY <3>3, <3>4
        <4> QED  BY <3>1, <3>4, <4>1
      <3>5. \A x : LetThrough(x)' \subseteq LetThrough(x)
        <4> TAKE x
        <4> DEFINE S == {}
        <4>1. S \subseteq Workers /\ \A v \in Workers : v \notin S  OBVIOUS
        <4> HIDE DEF S
        <4>2. LetThrough(x)' \subseteq LetThrough(x) \ S
          BY <2>0, <3>1, <3>4, <4>1, ThroughStep
        <4> QED  BY <4>2
      <3> QED  BY <2>4, <3>5, OptOutKept DEF Load
    <2>5. ASSUME NEW t \in Requests, NEW w \in Workers, LoadNoContact(w, t)
          PROVE  OptOutInv'
      <3>1. TasksKept
        BY <2>0, <2>5 DEF LoadNoContact, TypeOK, TasksTyped, TaskType, TasksKept
      <3> QED  BY <2>1, <2>5, <3>1 DEF LoadNoContact
    <2>6. ASSUME NEW w \in Workers, Advance(w) \/ Disturb(w)  PROVE OptOutInv'
      BY <2>6, OptOutByWorker
    <2>7. CASE Environment
      <3>1. ASSUME NEW y \in Contacts, OptOut(y)  PROVE OptOutInv'
        BY <3>1, OptOutByCustomer
      <3>2. CASE \A y \in Contacts : ~OptOut(y)
        <4>1. UNCHANGED <<wk, task, outbox, dnd>>
          BY <2>7, <3>2 DEF Environment, Receipt, Expire, NextDay
        <4> QED  BY <2>1, <4>1 DEF TasksKept
      <3> QED  BY <3>1, <3>2
    <2> QED  BY <2>2, <2>3, <2>4, <2>5, <2>6, <2>7 DEF Next, Take
  <1>3. OptOutInv => OptOutTakesEffect
    <2> SUFFICES ASSUME OptOutInv, NEW x \in Contacts
        PROVE  Cardinality(LateTo(x)) <= Cardinality(Workers)
      BY DEF OptOutTakesEffect, LateTo
    <2>1. /\ Cardinality(LateTo(x)) \in Nat /\ Cardinality(LetThrough(x)) \in Nat
          /\ Cardinality(Workers) \in Nat
      BY OptOutType DEF OptOutInv, RecipientInv
    <2>2. CASE x \in dnd  BY <2>1, <2>2 DEF OptOutInv
    <2>3. CASE x \notin dnd
      <3>1. Cardinality(LateTo(x)) = 0  BY <2>3, FS_EmptySet DEF OptOutInv
      <3> QED  BY <2>1, <3>1
    <2> QED  BY <2>2, <2>3
  <1> QED  BY <1>1, <1>2, <1>3, RecipientInvariant, PTL DEF Spec

==============================================================================

------------------------------ MODULE ReadCaches ------------------------------
(***************************************************************************)
(* The read-through caches of the gateway and those who write behind them. *)
(*                                                                         *)
(*   services/gateway/routers/customers.py   priority queue, profile,      *)
(*                                           opportunities, dismiss        *)
(*   services/gateway/routers/outreach.py    list, approve                 *)
(*   services/workers/tasks/event_scan.py, daily_scoring.py                *)
(*                                                                         *)
(* One customer of one RM.  A GET of an endpoint reads Redis, then the     *)
(* database, then stores what it read: three awaits between which anything *)
(* may happen.  What Redis fails to do is logged and goes unnoticed        *)
(* everywhere here, so a failed call is a step that may always be taken in *)
(* place of the call.                                                      *)
(***************************************************************************)
EXTENDS Naturals

CONSTANTS
  Opps,        \* opportunities of the customer
  Reads,       \* GET requests
  Missing,     \* no value under a key
  MaxEdits,    \* bound: approvals with an edited message
  MaxChanges   \* bound: refreshed profiles, receipts, scans, nightly jobs

ASSUME ConstantsAssumption ==
  /\ MaxEdits \in Nat
  /\ MaxChanges \in Nat

VARIABLES
  opp,       \* opp[o]: status of the row, "none" before it is inserted
  campaign,  \* the campaign's row: its text and its status, as versions
  profile,   \* the customer's row and profile, as a version
  cache,     \* cache[k]: [value, seen, ttl]; seen and ttl are explained below
  dels,      \* history: dels[k], invalidations of k attempted so far
  read,      \* read[r]: the locals of a GET
  dismiss,   \* dismiss[o]: where the dismissal of o is
  approve,   \* where the approval under way is
  changes    \* changes of the environment so far

vars == <<opp, campaign, profile, cache, dels, read, dismiss, approve, changes>>
tables == <<opp, campaign, profile>>
writers == <<dismiss, approve>>

------------------------------------------------------------------------------
(* Keys and what the database says for them.                               *)

\* The two keys of the queue: priority_queue:{rm}:{limit} is what the gateway
\* serves, priority_queue:{rm} what the workers write and delete.
Served == {"queue:limit", "profile", "opps", "list"}
Keys == Served \cup {"queue"}

\* The queries: the RM's customers with their profiles, the customer with its
\* profile, the opportunities not dismissed, the campaigns with their status.
Portfolio == profile
Profile == profile
Active == {o \in Opps : opp[o] = "NEW"}
Campaigns == campaign

\* What the query behind a key returns.
View(k) ==
  CASE k = "queue:limit" -> Portfolio
    [] k = "profile" -> Profile
    [] k = "opps" -> Active
    [] k = "list" -> Campaigns

Idle == [pc |-> "idle", key |-> "opps", all |-> FALSE, value |-> Missing, seen |-> 0]

Init ==
  /\ opp \in [Opps -> {"none", "NEW"}]
  /\ campaign = [text |-> 0, status |-> 0]
  /\ profile = 0
  /\ cache = [k \in Keys |-> Missing]
  /\ dels = [k \in Keys |-> 0]
  /\ read = [r \in Reads |-> Idle]
  /\ dismiss = [o \in Opps |-> "idle"]
  /\ approve = "idle"
  /\ changes = 0

------------------------------------------------------------------------------
(* A read-through GET.                                                     *)

\* A request comes in; only the opportunities can be asked for with the
\* dismissed ones, and then neither the cache is read nor written.
Request(r, k, all) ==
  /\ read[r].pc = "idle"
  /\ all => k = "opps"
  /\ read' = [read EXCEPT ![r] = [Idle EXCEPT !.pc = IF all THEN "select" ELSE "get",
                                              !.key = k, !.all = all]]
  /\ UNCHANGED <<tables, cache, dels, writers, changes>>

\* Mutant: a hit is taken for the answer but not read.
MutantLookup(r) ==
  /\ read[r].pc = "get"
  /\ \E pc \in IF cache[read[r].key] # Missing THEN {"done", "select"} ELSE {"select"} :
       read' = [read EXCEPT ![r].pc = pc]
  /\ UNCHANGED <<tables, cache, dels, writers, changes>>

\* GET the key: a hit answers, a miss or a failure goes to the database.
Lookup(r) ==
  /\ read[r].pc = "get"
  /\ \/ /\ cache[read[r].key] # Missing
        /\ read' = [read EXCEPT ![r].pc = "done", ![r].value = cache[read[r].key].value]
     \/ read' = [read EXCEPT ![r].pc = "select"]
  /\ UNCHANGED <<tables, cache, dels, writers, changes>>

\* The query; it remembers which invalidations came before it.
Query(r) ==
  LET k == read[r].key
      v == IF read[r].all THEN {o \in Opps : opp[o] # "none"} ELSE View(k)
  IN /\ read[r].pc = "select"
     /\ read' = [read EXCEPT ![r].pc = IF read[r].all THEN "done" ELSE "store",
                             ![r].value = v, ![r].seen = dels[k]]
     /\ UNCHANGED <<tables, cache, dels, writers, changes>>

\* Mutant: SET in place of SETEX.
MutantStored(r) == [value |-> read[r].value, seen |-> read[r].seen, ttl |-> FALSE]

\* What SETEX stores.
Stored(r) == [value |-> read[r].value, seen |-> read[r].seen, ttl |-> TRUE]

\* SETEX what was read, or fail to.
Fill(r) ==
  /\ read[r].pc = "store"
  /\ read' = [read EXCEPT ![r].pc = "done"]
  /\ \/ cache' = [cache EXCEPT ![read[r].key] = Stored(r)]
     \/ UNCHANGED cache
  /\ UNCHANGED <<tables, dels, writers, changes>>

\* DEL k, or the attempt at it.
Invalidate(k) ==
  /\ dels' = [dels EXCEPT ![k] = @ + 1]
  /\ \/ cache' = [cache EXCEPT ![k] = Missing]
     \/ UNCHANGED cache

\* The TTL of a key runs out.
Expire(k) ==
  /\ cache[k] # Missing
  /\ cache[k].ttl
  /\ cache' = [cache EXCEPT ![k] = Missing]
  /\ UNCHANGED <<tables, dels, read, writers, changes>>

------------------------------------------------------------------------------
(* Those who write.                                                        *)

\* dismiss_opportunity: the row is read; a missing one or one dismissed
\* already ends the call.
DismissSelect(o) ==
  /\ dismiss[o] = "idle"
  /\ opp[o] = "NEW"
  /\ dismiss' = [dismiss EXCEPT ![o] = "commit"]
  /\ UNCHANGED <<tables, cache, dels, read, approve, changes>>

DismissCommit(o) ==
  /\ dismiss[o] = "commit"
  /\ opp' = [opp EXCEPT ![o] = "DISMISSED"]
  /\ dismiss' = [dismiss EXCEPT ![o] = "delete"]
  /\ UNCHANGED <<campaign, profile, cache, dels, read, approve, changes>>

\* Mutant: the key of another answer is deleted.
MutantDismissDelete(o) ==
  /\ dismiss[o] = "delete"
  /\ Invalidate("profile")
  /\ dismiss' = [dismiss EXCEPT ![o] = "done"]
  /\ UNCHANGED <<tables, read, approve, changes>>

\* The opportunities key is deleted and the RM answered.
DismissDelete(o) ==
  /\ dismiss[o] = "delete"
  /\ Invalidate("opps")
  /\ dismiss' = [dismiss EXCEPT ![o] = "done"]
  /\ UNCHANGED <<tables, read, approve, changes>>

\* approve_outreach commits the edited text ...
ApproveCommit ==
  /\ approve = "idle"
  /\ campaign.text < MaxEdits
  /\ campaign' = [campaign EXCEPT !.text = @ + 1]
  /\ approve' = "delete"
  /\ UNCHANGED <<opp, profile, cache, dels, read, dismiss, changes>>

\* Mutant: the key of another answer is deleted.
MutantApproveDelete ==
  /\ approve = "delete"
  /\ Invalidate("opps")
  /\ approve' = "idle"
  /\ UNCHANGED <<tables, read, dismiss, changes>>

\* ... and deletes the key of the list.
ApproveDelete ==
  /\ approve = "delete"
  /\ Invalidate("list")
  /\ approve' = "idle"
  /\ UNCHANGED <<tables, read, dismiss, changes>>

Change ==
  /\ changes < MaxChanges
  /\ changes' = changes + 1

\* A send or a receipt moves the campaign on; neither deletes the list.
Progress ==
  /\ Change
  /\ campaign.status < 4
  /\ campaign' = [campaign EXCEPT !.status = @ + 1]
  /\ UNCHANGED <<opp, profile, cache, dels, read, writers>>

\* A profile is refreshed from the core banking system.
Refresh ==
  /\ Change
  /\ profile' = profile + 1
  /\ UNCHANGED <<opp, campaign, cache, dels, read, writers>>

\* A job inserts an opportunity: the scan then deletes a key of the queue,
\* the nightly job writes it.  The customer's opportunities keep their key.
Score(o) ==
  /\ Change
  /\ opp[o] = "none"
  /\ opp' = [opp EXCEPT ![o] = "NEW"]
  /\ \/ Invalidate("queue")
     \/ /\ cache' = [cache EXCEPT !["queue"] = [value |-> Active \cup {o}, seen |-> 0, ttl |-> TRUE]]
        /\ UNCHANGED dels
  /\ UNCHANGED <<campaign, profile, read, writers>>

------------------------------------------------------------------------------
Reading(r) == Lookup(r) \/ Query(r) \/ Fill(r)
Dismissing(o) == DismissCommit(o) \/ DismissDelete(o)

Next ==
  \/ \E r \in Reads : \/ \E k \in Served, all \in BOOLEAN : Request(r, k, all)
                      \/ Reading(r)
  \/ \E o \in Opps : DismissSelect(o) \/ Dismissing(o) \/ Score(o)
  \/ ApproveCommit \/ ApproveDelete
  \/ Progress \/ Refresh
  \/ \E k \in Keys : Expire(k)

Spec == Init /\ [][Next]_vars

\* Requests and jobs that are under way go on, and Redis expires what has a
\* TTL; nothing obliges anyone to ask, to write or to approve.
Fairness ==
  /\ \A r \in Reads : WF_vars(Reading(r))
  /\ \A o \in Opps : WF_vars(Dismissing(o))
  /\ WF_vars(ApproveDelete)
  /\ \A k \in Keys : WF_vars(Expire(k))

FairSpec == Spec /\ Fairness

------------------------------------------------------------------------------
(* Properties.                                                             *)

\* What may be stored under a key.
Values(k) ==
  CASE k \in {"opps", "queue"} -> SUBSET Opps
    [] k = "list" -> [text : 0..MaxEdits, status : 0..4]
    [] k \in {"queue:limit", "profile"} -> Nat

ReadTyped(x) ==
  /\ DOMAIN x = {"pc", "key", "all", "value", "seen"}
  /\ x.pc \in {"idle", "get", "select", "store", "done"}
  /\ x.key \in Served
  /\ x.all \in BOOLEAN
  /\ x.all => x.key = "opps"
  /\ x.value \in IF x.pc \in {"store", "done"} THEN Values(x.key) ELSE {Missing}
  /\ x.seen \in Nat

\* Type invariant.
TypeOK ==
  /\ opp \in [Opps -> {"none", "NEW", "DISMISSED"}]
  /\ campaign \in [text : 0..MaxEdits, status : 0..4]
  /\ profile \in Nat
  /\ DOMAIN cache = Keys
  /\ \A k \in Keys :
       cache[k] # Missing => cache[k] \in [value : Values(k), seen : Nat, ttl : BOOLEAN]
  /\ dels \in [Keys -> Nat]
  /\ DOMAIN read = Reads /\ \A r \in Reads : ReadTyped(read[r])
  /\ dismiss \in [Opps -> {"idle", "commit", "delete", "done"}]
  /\ approve \in {"idle", "delete"}
  /\ changes \in 0..MaxChanges

\* The list of opportunities shows one whose dismissal was answered only if
\* it was read before a DEL that followed the dismissal (customers.py:316,
\* "so next fetch reflects the dismiss"): what is cached after the last
\* invalidation, and what is about to be, holds no such opportunity.
DismissedNotListed ==
  /\ cache["opps"] # Missing /\ cache["opps"].seen = dels["opps"] =>
       \A o \in cache["opps"].value : dismiss[o] # "done"
  /\ \A r \in Reads : read[r].pc = "store" /\ read[r].key = "opps" /\ read[r].seen = dels["opps"] =>
       \A o \in read[r].value : dismiss[o] # "done"

\* The same of the list of campaigns and the text an approval confirmed: once
\* no approval is under way, what was read since the last DEL is the text
\* that is sent.
ListShowsApprovedText ==
  /\ approve = "idle" /\ cache["list"] # Missing /\ cache["list"].seen = dels["list"] =>
       cache["list"].value.text = campaign.text
  /\ \A r \in Reads : approve = "idle" /\ read[r].pc = "store" /\ read[r].key = "list"
                        /\ read[r].seen = dels["list"] =>
       read[r].value.text = campaign.text

\* No cached answer outlives its TTL, whatever raced: once the tables rest,
\* every key the gateway serves is eventually absent or true for good.
CachesSettle ==
  \A k \in Served : <>[](cache[k] = Missing \/ cache[k].value = View(k))

==============================================================================

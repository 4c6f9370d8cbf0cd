--------------------------- MODULE ReadCachesProofs ---------------------------
(***************************************************************************)
(* Theorems about ReadCaches, for any opportunities, any number of         *)
(* concurrent requests and any bounds.                                     *)
(***************************************************************************)
EXTENDS ReadCaches, TLAPS

------------------------------------------------------------------------------
(* Type correctness.                                                       *)

Tables == opp \in [Opps -> {"none", "NEW", "DISMISSED"}]
            /\ campaign \in [text : 0..MaxEdits, status : 0..4]
            /\ profile \in Nat

CacheTyped ==
  /\ DOMAIN cache = Keys
  /\ \A k \in Keys :
       cache[k] # Missing => cache[k] \in [value : Values(k), seen : Nat, ttl : BOOLEAN]

ReadsTyped == DOMAIN read = Reads /\ \A r \in Reads : ReadTyped(read[r])

WritersTyped ==
  /\ dismiss \in [Opps -> {"idle", "commit", "delete", "done"}]
  /\ approve \in {"idle", "delete"}
  /\ changes \in 0..MaxChanges

\* The type invariant by parts.
LEMMA TypeParts ==
  TypeOK <=> Tables /\ CacheTyped /\ dels \in [Keys -> Nat] /\ ReadsTyped /\ WritersTyped
  BY DEF TypeOK, Tables, CacheTyped, ReadsTyped, WritersTyped

\* A request that moves leaves the others as they are.
LEMMA OneReadMoves ==
  ASSUME ReadsTyped, NEW r \in Reads, NEW x, ReadTyped(x), read' = [read EXCEPT ![r] = x]
  PROVE  ReadsTyped'
  BY DEF ReadsTyped, ReadTyped

\* Storing a well-typed entry, or none, leaves the cache well typed.
LEMMA OneKeyMoves ==
  ASSUME CacheTyped, NEW k \in Keys, NEW x, cache' = [cache EXCEPT ![k] = x],
         x # Missing => x \in [value : Values(k), seen : Nat, ttl : BOOLEAN]
  PROVE  CacheTyped'
  BY DEF CacheTyped, Values

\* An invalidation counts itself, and empties its key or leaves it.
LEMMA InvalidateTyped ==
  ASSUME CacheTyped, dels \in [Keys -> Nat], NEW k \in Keys, Invalidate(k)
  PROVE  CacheTyped' /\ dels' \in [Keys -> Nat]
  <1>1. dels' \in [Keys -> Nat]  BY DEF Invalidate
  <1>2. CASE UNCHANGED cache  BY <1>1, <1>2 DEF CacheTyped, Values
  <1>3. CASE cache' = [cache EXCEPT ![k] = Missing]  BY <1>1, <1>3, OneKeyMoves
  <1> QED  BY <1>2, <1>3 DEF Invalidate

\* What the query behind a key returns may be stored under it.
LEMMA ViewTyped ==
  ASSUME Tables, NEW k \in Served
  PROVE  View(k) \in Values(k)
  BY DEF Tables, Served, View, Values, Portfolio, Profile, Active, Campaigns

LEMMA TypeInit == Init => TypeOK
  <1> SUFFICES ASSUME Init  PROVE TypeOK
    OBVIOUS
  <1>1. Tables  BY ConstantsAssumption DEF Init, Tables
  <1>2. CacheTyped  BY DEF Init, CacheTyped
  <1>3. ReadsTyped  BY DEF Init, ReadsTyped, ReadTyped, Idle, Served
  <1>4. WritersTyped /\ dels \in [Keys -> Nat]
    BY ConstantsAssumption DEF Init, WritersTyped
  <1> QED  BY <1>1, <1>2, <1>3, <1>4, TypeParts

\* Each step of a GET keeps the types.
LEMMA TypeByRead ==
  ASSUME TypeOK, NEW r \in Reads,
         (\E k \in Served, all \in BOOLEAN : Request(r, k, all)) \/ Reading(r)
  PROVE  TypeOK'
  <1>1. Tables /\ CacheTyped /\ dels \in [Keys -> Nat] /\ ReadsTyped /\ WritersTyped
    BY TypeParts
  <1>2. ReadTyped(read[r]) /\ read[r].key \in Keys /\ DOMAIN read = Reads
    BY <1>1 DEF ReadsTyped, ReadTyped, Keys
  <1>3. ASSUME UNCHANGED <<tables, dels, writers, changes>>, CacheTyped', ReadsTyped'
        PROVE  TypeOK'
    <2>1. Tables' /\ dels' \in [Keys -> Nat] /\ WritersTyped'
      BY <1>1, <1>3 DEF Tables, WritersTyped, tables, writers
    <2> QED  BY <1>3, <2>1 DEF TypeOK, Tables, CacheTyped, ReadsTyped, WritersTyped
  <1>4. ASSUME NEW k \in Served, NEW all \in BOOLEAN, Request(r, k, all)  PROVE TypeOK'
    <2> DEFINE x == [Idle EXCEPT !.pc = IF all THEN "select" ELSE "get", !.key = k, !.all = all]
    <2>1. ReadTyped(x)  BY <1>4 DEF ReadTyped, Idle, Request, Served
    <2>2. read' = [read EXCEPT ![r] = x]  BY <1>4 DEF Request
    <2>3. ReadsTyped'  BY <1>1, <2>1, <2>2, OneReadMoves
    <2>4. CacheTyped'  BY <1>1, <1>4 DEF Request, CacheTyped, Values
    <2> QED  BY <1>3, <1>4, <2>3, <2>4 DEF Request
  <1>5. ASSUME Lookup(r)  PROVE TypeOK'
    <2>1. CacheTyped'  BY <1>1, <1>5 DEF Lookup, CacheTyped, Values
    <2>2. CASE read' = [read EXCEPT ![r].pc = "select"]
      <3> DEFINE x == [read[r] EXCEPT !.pc = "select"]
      <3>1. ReadTyped(x)  BY <1>2, <1>5 DEF ReadTyped, Lookup
      <3>2. ReadsTyped'  BY <1>1, <2>2, <3>1, OneReadMoves
      <3> QED  BY <1>3, <1>5, <2>1, <3>2 DEF Lookup
    <2>3. CASE /\ cache[read[r].key] # Missing
               /\ read' = [read EXCEPT ![r].pc = "done", ![r].value = cache[read[r].key].value]
      <3> DEFINE v == cache[read[r].key].value
                 x == [read[r] EXCEPT !.pc = "done", !.value = v]
      <3>1. v \in Values(read[r].key)  BY <1>1, <1>2, <2>3 DEF CacheTyped
      <3>2. ReadTyped(x)  BY <1>2, <3>1 DEF ReadTyped
      <3>3. read' = [read EXCEPT ![r] = x]  BY <1>2, <2>3
      <3>4. ReadsTyped'  BY <1>1, <3>2, <3>3, OneReadMoves
      <3> QED  BY <1>3, <1>5, <2>1, <3>4 DEF Lookup
    <2> QED  BY <1>5, <2>2, <2>3 DEF Lookup
  <1>6. ASSUME Query(r)  PROVE TypeOK'
    <2> DEFINE k == read[r].key
               v == IF read[r].all THEN {o \in Opps : opp[o] # "none"} ELSE View(k)
               x == [read[r] EXCEPT !.pc = IF read[r].all THEN "done" ELSE "store",
                                    !.value = v, !.seen = dels[k]]
    <2>1. CacheTyped'  BY <1>1, <1>6 DEF Query, CacheTyped, Values
    <2>2. k \in Served /\ (read[r].all => k = "opps") /\ dels[k] \in Nat
      BY <1>1, <1>2 DEF ReadTyped
    <2>3. v \in Values(k)
      BY <1>1, <2>2, ViewTyped DEF Values
    <2>4. ReadTyped(x)  BY <1>2, <2>2, <2>3 DEF ReadTyped
    <2>5. read' = [read EXCEPT ![r] = x]  BY <1>2, <1>6 DEF Query
    <2>6. ReadsTyped'  BY <1>1, <2>4, <2>5, OneReadMoves
    <2> QED  BY <1>3, <1>6, <2>1, <2>6 DEF Query
  <1>7. ASSUME Fill(r)  PROVE TypeOK'
    <2> DEFINE x == [read[r] EXCEPT !.pc = "done"]
    <2>1. ReadTyped(x)  BY <1>2, <1>7 DEF ReadTyped, Fill
    <2>2. ReadsTyped'  BY <1>1, <1>7, <2>1, OneReadMoves DEF Fill
    <2>3. Stored(r) \in [value : Values(read[r].key), seen : Nat, ttl : BOOLEAN]
      BY <1>2, <1>7 DEF Stored, ReadTyped, Fill
    <2>4. CASE cache' = [cache EXCEPT ![read[r].key] = Stored(r)]
      <3>1. CacheTyped'  BY <1>1, <1>2, <2>3, <2>4, OneKeyMoves
      <3> QED  BY <1>3, <1>7, <2>2, <3>1 DEF Fill
    <2>5. CASE UNCHANGED cache
      <3>1. CacheTyped'  BY <1>1, <2>5 DEF CacheTyped, Values
      <3> QED  BY <1>3, <1>7, <2>2, <3>1 DEF Fill
    <2> QED  BY <1>7, <2>4, <2>5 DEF Fill
  <1> QED  BY <1>4, <1>5, <1>6, <1>7 DEF Reading


\* Each step of a dismissal keeps the types.
LEMMA TypeByDismissal ==
  ASSUME TypeOK, NEW o \in Opps, DismissSelect(o) \/ Dismissing(o)
  PROVE  TypeOK'
  <1>1. Tables /\ CacheTyped /\ dels \in [Keys -> Nat] /\ ReadsTyped /\ WritersTyped
    BY TypeParts
  <1>2. ReadsTyped'
    BY <1>1 DEF DismissSelect, Dismissing, DismissCommit, DismissDelete, ReadsTyped, ReadTyped, Values
  <1>3. Tables'
    BY <1>1 DEF DismissSelect, Dismissing, DismissCommit, DismissDelete, tables, Tables
  <1>4. WritersTyped'
    BY <1>1 DEF DismissSelect, Dismissing, DismissCommit, DismissDelete, WritersTyped
  <1>5. CacheTyped' /\ dels' \in [Keys -> Nat]
    <2>1. CASE DismissSelect(o) \/ DismissCommit(o)
      BY <1>1, <2>1 DEF DismissSelect, DismissCommit, CacheTyped, Values
    <2>2. CASE DismissDelete(o)
      <3>1. Invalidate("opps") /\ "opps" \in Keys
        BY <2>2 DEF DismissDelete, Keys, Served
      <3> QED  BY <1>1, <3>1, InvalidateTyped
    <2> QED  BY <2>1, <2>2 DEF Dismissing
  <1> QED  BY <1>2, <1>3, <1>4, <1>5 DEF TypeOK, Tables, CacheTyped, ReadsTyped, WritersTyped

\* Each step of an approval keeps the types.
LEMMA TypeByApproval ==
  ASSUME TypeOK, ApproveCommit \/ ApproveDelete
  PROVE  TypeOK'
  <1>1. Tables /\ CacheTyped /\ dels \in [Keys -> Nat] /\ ReadsTyped /\ WritersTyped
    BY TypeParts
  <1>2. ReadsTyped'
    BY <1>1 DEF ApproveCommit, ApproveDelete, ReadsTyped, ReadTyped, Values
  <1>3. Tables'
    BY <1>1, ConstantsAssumption DEF ApproveCommit, ApproveDelete, tables, Tables
  <1>4. WritersTyped'
    BY <1>1 DEF ApproveCommit, ApproveDelete, WritersTyped
  <1>5. CacheTyped' /\ dels' \in [Keys -> Nat]
    <2>1. CASE ApproveCommit
      BY <1>1, <2>1 DEF ApproveCommit, CacheTyped, Values
    <2>2. CASE ApproveDelete
      <3>1. Invalidate("list") /\ "list" \in Keys
        BY <2>2 DEF ApproveDelete, Keys, Served
      <3> QED  BY <1>1, <3>1, InvalidateTyped
    <2> QED  BY <2>1, <2>2
  <1> QED  BY <1>2, <1>3, <1>4, <1>5 DEF TypeOK, Tables, CacheTyped, ReadsTyped, WritersTyped

\* What the jobs, the receipts and the clock do keeps the types.
LEMMA TypeByEnvironment ==
  ASSUME TypeOK,
         \/ Progress \/ Refresh
         \/ \E o \in Opps : Score(o)
         \/ \E k \in Keys : Expire(k)
  PROVE  TypeOK'
  <1>1. Tables /\ CacheTyped /\ dels \in [Keys -> Nat] /\ ReadsTyped /\ WritersTyped
    BY TypeParts
  <1>2. ReadsTyped'
    BY <1>1 DEF Progress, Refresh, Score, Expire, ReadsTyped, ReadTyped, Values
  <1>3. Tables'
    <2>1. CASE Progress  BY <1>1, <2>1 DEF Progress, Tables
    <2>2. CASE Refresh  BY <1>1, <2>2 DEF Refresh, Tables
    <2>3. CASE \E o \in Opps : Score(o)  BY <1>1, <2>3 DEF Score, Tables
    <2>4. CASE \E k \in Keys : Expire(k)  BY <1>1, <2>4 DEF Expire, Tables, tables
    <2> QED  BY <2>1, <2>2, <2>3, <2>4
  <1>4. WritersTyped'
    BY <1>1, ConstantsAssumption DEF Progress, Refresh, Score, Expire, Change, WritersTyped, writers
  <1>5. CacheTyped' /\ dels' \in [Keys -> Nat]
    <2>1. CASE Progress \/ Refresh
      BY <1>1, <2>1 DEF Progress, Refresh, CacheTyped, Values
    <2>2. ASSUME NEW o \in Opps, Score(o)  PROVE CacheTyped' /\ dels' \in [Keys -> Nat]
      <3>1. "queue" \in Keys /\ Values("queue") = SUBSET Opps
        BY DEF Keys, Values
      <3>2. CASE Invalidate("queue")  BY <1>1, <3>1, <3>2, InvalidateTyped
      <3> DEFINE x == [value |-> Active \cup {o}, seen |-> 0, ttl |-> TRUE]
      <3>3. CASE cache' = [cache EXCEPT !["queue"] = x] /\ UNCHANGED dels
        <4>1. x \in [value : Values("queue"), seen : Nat, ttl : BOOLEAN]
          BY <3>1 DEF Active
        <4> HIDE DEF x
        <4> QED  BY <1>1, <3>1, <3>3, <4>1, OneKeyMoves
      <3> QED  BY <2>2, <3>2, <3>3 DEF Score
    <2>3. ASSUME NEW k \in Keys, Expire(k)  PROVE CacheTyped' /\ dels' \in [Keys -> Nat]
      BY <1>1, <2>3, OneKeyMoves DEF Expire
    <2> QED  BY <2>1, <2>2, <2>3
  <1> QED  BY <1>2, <1>3, <1>4, <1>5 DEF TypeOK, Tables, CacheTyped, ReadsTyped, WritersTyped

LEMMA TypeNext == TypeOK /\ [Next]_vars => TypeOK'
  <1> SUFFICES ASSUME TypeOK, [Next]_vars  PROVE TypeOK'
    OBVIOUS
  <1>1. CASE UNCHANGED vars
    BY <1>1 DEF TypeOK, ReadTyped, Values, vars
  <1>2. CASE Next
    BY <1>2, TypeByRead, TypeByDismissal, TypeByApproval, TypeByEnvironment DEF Next
  <1> QED  BY <1>1, <1>2

\* Every variable keeps its type: in particular what is cached under a key is
\* always an answer to that key's request (customers.py:262, outreach.py:630).
THEOREM TypeCorrect == Spec => []TypeOK
  BY TypeInit, TypeNext, PTL DEF Spec

------------------------------------------------------------------------------
(* What is cached after the last invalidation is not behind it.            *)

\* Nothing was read after more invalidations than there have been.
SeenBehind ==
  /\ \A k \in Keys : cache[k] # Missing => cache[k].seen <= dels[k]
  /\ \A r \in Reads : read[r].pc = "store" => read[r].seen <= dels[read[r].key]

\* A dismissal that reached its DEL is in the table, and a row that is not
\* there is not being dismissed.
DismissalsCommitted ==
  \A o \in Opps : /\ dismiss[o] \in {"delete", "done"} => opp[o] = "DISMISSED"
                  /\ dismiss[o] # "idle" => opp[o] # "none"

FreshInv ==
  TypeOK /\ SeenBehind /\ DismissalsCommitted /\ DismissedNotListed /\ ListShowsApprovedText

LEMMA FreshInit == Init => FreshInv
  <1> SUFFICES ASSUME Init  PROVE FreshInv
    OBVIOUS
  <1>1. \A k \in Keys : cache[k] = Missing  BY DEF Init
  <1>2. \A r \in Reads : read[r].pc = "idle"  BY DEF Init, Idle
  <1>3. SeenBehind  BY <1>1, <1>2 DEF SeenBehind
  <1>4. DismissalsCommitted  BY DEF Init, DismissalsCommitted
  <1>5. DismissedNotListed /\ ListShowsApprovedText
    BY <1>1, <1>2 DEF DismissedNotListed, ListShowsApprovedText, Keys, Served
  <1> QED  BY <1>3, <1>4, <1>5, TypeInit DEF FreshInv

\* A GET stores nothing it did not read, and reads what the tables say.
LEMMA FreshByRead ==
  ASSUME FreshInv, NEW r \in Reads,
         (\E k \in Served, all \in BOOLEAN : Request(r, k, all)) \/ Reading(r)
  PROVE  SeenBehind' /\ DismissalsCommitted' /\ DismissedNotListed' /\ ListShowsApprovedText'
  <1>1. /\ ReadTyped(read[r]) /\ read[r].key \in Keys /\ DOMAIN read = Reads
        /\ DOMAIN cache = Keys /\ dels \in [Keys -> Nat] /\ {"opps", "list"} \subseteq Keys
    BY DEF FreshInv, TypeOK, ReadTyped, Keys, Served
  <1>2. DismissalsCommitted' /\ UNCHANGED <<tables, dels, writers>>
    BY DEF FreshInv, Reading, Request, Lookup, Query, Fill, DismissalsCommitted, tables, writers
  <1>3. CASE (\E k \in Served, all \in BOOLEAN : Request(r, k, all)) \/ Lookup(r)
    <2>1. UNCHANGED cache /\ read'[r].pc # "store" /\ \A q \in Reads \ {r} : read'[q] = read[q]
      <3>1. ASSUME NEW k \in Served, NEW all \in BOOLEAN, Request(r, k, all)
            PROVE  UNCHANGED cache /\ read'[r].pc # "store" /\ \A q \in Reads \ {r} : read'[q] = read[q]
        <4> DEFINE x == [Idle EXCEPT !.pc = IF all THEN "select" ELSE "get", !.key = k, !.all = all]
        <4>1. x.pc # "store"  BY DEF Idle
        <4>2. read' = [read EXCEPT ![r] = x] /\ UNCHANGED cache  BY <3>1 DEF Request
        <4> HIDE DEF x
        <4> QED  BY <1>1, <4>1, <4>2
      <3>2. CASE Lookup(r)
        BY <1>1, <3>2 DEF Lookup, ReadTyped
      <3> QED  BY <1>3, <3>1, <3>2
    <2>2. SeenBehind'  BY <1>2, <2>1 DEF FreshInv, SeenBehind
    <2>3. DismissedNotListed' /\ ListShowsApprovedText'
      BY <1>2, <2>1 DEF FreshInv, DismissedNotListed, ListShowsApprovedText, writers, tables
    <2> QED  BY <1>2, <2>2, <2>3
  <1>4. CASE Query(r)
    <2>1. UNCHANGED cache /\ \A q \in Reads \ {r} : read'[q] = read[q]
      BY <1>1, <1>4 DEF Query
    <2>2. read'[r].pc = "store" =>
            /\ read'[r].seen = dels[read[r].key] /\ read'[r].key = read[r].key
            /\ read'[r].value = View(read[r].key)
      BY <1>1, <1>4 DEF Query, ReadTyped
    <2>3. dels[read[r].key] \in Nat  BY <1>1
    <2>4. SeenBehind'  BY <1>2, <2>1, <2>2, <2>3 DEF FreshInv, SeenBehind
    <2>5. \A o \in Active : dismiss[o] # "done"
      <3>1. \A o \in Active : o \in Opps /\ opp[o] = "NEW"  BY DEF Active
      <3>2. \A o \in Opps : dismiss[o] = "done" => opp[o] = "DISMISSED"
        BY DEF FreshInv, DismissalsCommitted
      <3> QED  BY <3>1, <3>2
    <2>6. View("opps") = Active /\ View("list") = campaign
      BY DEF View, Campaigns
    <2>7. DismissedNotListed'
      BY <1>2, <2>1, <2>2, <2>5, <2>6 DEF FreshInv, DismissedNotListed, writers
    <2>8. ListShowsApprovedText'
      BY <1>2, <2>1, <2>2, <2>6 DEF FreshInv, ListShowsApprovedText, writers, tables
    <2> QED  BY <1>2, <2>4, <2>7, <2>8
  <1>5. CASE Fill(r)
    <2>1. read'[r].pc # "store" /\ read[r].pc = "store" /\ \A q \in Reads \ {r} : read'[q] = read[q]
      BY <1>1, <1>5 DEF Fill, ReadTyped
    <2>2. \A k \in Keys : \/ cache'[k] = cache[k]
                          \/ /\ k = read[r].key
                             /\ cache'[k].value = read[r].value
                             /\ cache'[k].seen = read[r].seen
      BY <1>1, <1>5 DEF Fill, Stored
    <2>3. SeenBehind'  BY <1>1, <1>2, <2>1, <2>2 DEF FreshInv, SeenBehind
    <2>4. DismissedNotListed'
      BY <1>1, <1>2, <2>1, <2>2 DEF FreshInv, DismissedNotListed, writers
    <2>5. ListShowsApprovedText'
      BY <1>1, <1>2, <2>1, <2>2 DEF FreshInv, ListShowsApprovedText, writers, tables
    <2> QED  BY <1>2, <2>3, <2>4, <2>5
  <1> QED  BY <1>3, <1>4, <1>5 DEF Reading

\* What an invalidation leaves under its key was read before it.
LEMMA InvalidateOutdates ==
  ASSUME TypeOK, SeenBehind, NEW k \in Keys, Invalidate(k), UNCHANGED read
  PROVE  /\ SeenBehind'
         /\ \A j \in Keys \ {k} : cache'[j] = cache[j] /\ dels'[j] = dels[j]
         /\ cache'[k] # Missing => cache'[k].seen # dels'[k]
         /\ \A r \in Reads : read[r].pc = "store" /\ read[r].key = k => read[r].seen # dels'[k]
  <1>1. DOMAIN cache = Keys /\ dels \in [Keys -> Nat] /\ \A r \in Reads : read[r].key \in Keys
    BY DEF TypeOK, ReadTyped, Keys
  <1>2. \A j \in Keys : cache[j] # Missing => cache[j].seen \in Nat
    BY DEF TypeOK
  <1>3. \A r \in Reads : read[r].seen \in Nat
    BY DEF TypeOK, ReadTyped
  <1>4. dels'[k] = dels[k] + 1 /\ \A j \in Keys \ {k} : dels'[j] = dels[j]
    BY <1>1 DEF Invalidate
  <1>5. \A j \in Keys : dels[j] <= dels'[j] /\ dels[j] \in Nat /\ dels'[j] \in Nat
    BY <1>1, <1>4
  <1>6. /\ cache'[k] = Missing \/ cache'[k] = cache[k]
        /\ \A j \in Keys \ {k} : cache'[j] = cache[j]
    BY <1>1 DEF Invalidate
  <1>7. SeenBehind'
    BY <1>1, <1>2, <1>3, <1>5, <1>6 DEF SeenBehind
  <1>8. cache'[k] # Missing => cache'[k].seen # dels'[k]
    BY <1>2, <1>4, <1>5, <1>6 DEF SeenBehind
  <1>9. \A r \in Reads : read[r].pc = "store" /\ read[r].key = k => read[r].seen # dels'[k]
    BY <1>3, <1>4, <1>5 DEF SeenBehind
  <1> QED  BY <1>4, <1>6, <1>7, <1>8, <1>9

\* A dismissal is answered only by the DEL that outdates what was read before.
LEMMA FreshByDismissal ==
  ASSUME FreshInv, NEW o \in Opps, DismissSelect(o) \/ Dismissing(o)
  PROVE  SeenBehind' /\ DismissalsCommitted' /\ DismissedNotListed' /\ ListShowsApprovedText'
  <1>1. /\ opp \in [Opps -> {"none", "NEW", "DISMISSED"}]
        /\ dismiss \in [Opps -> {"idle", "commit", "delete", "done"}]
    BY DEF FreshInv, TypeOK
  <1>2. UNCHANGED <<read, campaign, approve>>
    BY DEF DismissSelect, Dismissing, DismissCommit, DismissDelete, tables, writers
  <1>3. DismissalsCommitted'
    BY <1>1 DEF FreshInv, DismissalsCommitted, DismissSelect, Dismissing, DismissCommit,
                DismissDelete, tables
  <1>4. CASE DismissSelect(o) \/ DismissCommit(o)
    <2>1. UNCHANGED <<cache, dels>> /\ \A p \in Opps : dismiss'[p] = "done" => dismiss[p] = "done"
      BY <1>1, <1>4 DEF DismissSelect, DismissCommit
    <2>2. SeenBehind'  BY <1>2, <2>1 DEF FreshInv, SeenBehind
    <2>3. ListShowsApprovedText'  BY <1>2, <2>1 DEF FreshInv, ListShowsApprovedText
    <2>4. /\ \A k \in Keys : cache[k] # Missing => cache[k].value \in Values(k)
          /\ \A r \in Reads : read[r].pc = "store" => read[r].value \in Values(read[r].key)
          /\ Values("opps") = SUBSET Opps /\ "opps" \in Keys
      BY DEF FreshInv, TypeOK, ReadTyped, Values, Keys, Served
    <2>5. DismissedNotListed'  BY <1>2, <2>1, <2>4 DEF FreshInv, DismissedNotListed
    <2> QED  BY <1>3, <2>2, <2>3, <2>5
  <1>5. CASE DismissDelete(o)
    <2>1. Invalidate("opps") /\ {"opps", "list"} \subseteq Keys
      BY <1>5 DEF DismissDelete, Keys, Served
    <2>2. /\ SeenBehind'
          /\ \A j \in Keys \ {"opps"} : cache'[j] = cache[j] /\ dels'[j] = dels[j]
          /\ cache'["opps"] # Missing => cache'["opps"].seen # dels'["opps"]
          /\ \A r \in Reads : read[r].pc = "store" /\ read[r].key = "opps" => read[r].seen # dels'["opps"]
      BY <1>2, <2>1, InvalidateOutdates DEF FreshInv
    <2>3. DismissedNotListed'  BY <1>2, <2>2 DEF DismissedNotListed
    <2>4. cache'["list"] = cache["list"] /\ dels'["list"] = dels["list"]
      BY <2>1, <2>2
    <2>5. ListShowsApprovedText'  BY <1>2, <2>4 DEF FreshInv, ListShowsApprovedText
    <2> QED  BY <1>3, <2>2, <2>3, <2>5
  <1> QED  BY <1>4, <1>5 DEF Dismissing

\* An approval ends only with the DEL that outdates what was read before.
LEMMA FreshByApproval ==
  ASSUME FreshInv, ApproveCommit \/ ApproveDelete
  PROVE  SeenBehind' /\ DismissalsCommitted' /\ DismissedNotListed' /\ ListShowsApprovedText'
  <1>1. UNCHANGED <<read, opp, dismiss>>
    BY DEF ApproveCommit, ApproveDelete, tables
  <1>2. DismissalsCommitted'  BY <1>1 DEF FreshInv, DismissalsCommitted
  <1>3. CASE ApproveCommit
    <2>1. UNCHANGED <<cache, dels>> /\ approve' # "idle"
      BY <1>3 DEF ApproveCommit
    <2> QED  BY <1>1, <1>2, <2>1 DEF FreshInv, SeenBehind, DismissedNotListed, ListShowsApprovedText
  <1>4. CASE ApproveDelete
    <2>1. Invalidate("list") /\ {"opps", "list"} \subseteq Keys
      BY <1>4 DEF ApproveDelete, Keys, Served
    <2>2. /\ SeenBehind'
          /\ \A j \in Keys \ {"list"} : cache'[j] = cache[j] /\ dels'[j] = dels[j]
          /\ cache'["list"] # Missing => cache'["list"].seen # dels'["list"]
          /\ \A r \in Reads : read[r].pc = "store" /\ read[r].key = "list" => read[r].seen # dels'["list"]
      BY <1>1, <2>1, InvalidateOutdates DEF FreshInv
    <2>3. ListShowsApprovedText'  BY <1>1, <2>2 DEF ListShowsApprovedText
    <2>4. cache'["opps"] = cache["opps"] /\ dels'["opps"] = dels["opps"]
      BY <2>1, <2>2
    <2>5. DismissedNotListed'  BY <1>1, <2>4 DEF FreshInv, DismissedNotListed
    <2> QED  BY <1>2, <2>2, <2>3, <2>5
  <1> QED  BY <1>3, <1>4

\* The jobs write other keys, and a key that expires answers nothing.
LEMMA FreshByEnvironment ==
  ASSUME FreshInv,
         \/ Progress \/ Refresh
         \/ \E o \in Opps : Score(o)
         \/ \E k \in Keys : Expire(k)
  PROVE  SeenBehind' /\ DismissalsCommitted' /\ DismissedNotListed' /\ ListShowsApprovedText'
  <1>1. /\ DOMAIN cache = Keys /\ dels \in [Keys -> Nat] /\ {"opps", "list"} \subseteq Keys \ {"queue"}
        /\ opp \in [Opps -> {"none", "NEW", "DISMISSED"}]
        /\ campaign \in [text : 0..MaxEdits, status : 0..4]
    BY DEF FreshInv, TypeOK, Keys, Served
  <1>2. UNCHANGED <<read, dismiss, approve>> /\ campaign'.text = campaign.text
    BY <1>1 DEF Progress, Refresh, Score, Expire, writers, tables
  <1>3. DismissalsCommitted'
    BY <1>1, <1>2 DEF FreshInv, DismissalsCommitted, Progress, Refresh, Score, Expire, tables
  <1>4. /\ SeenBehind'
        /\ \A k \in {"opps", "list"} : /\ cache'[k] = cache[k] \/ cache'[k] = Missing
                                       /\ dels'[k] = dels[k]
    <2>1. CASE Progress \/ Refresh
      BY <1>2, <2>1 DEF Progress, Refresh, FreshInv, SeenBehind
    <2>2. ASSUME NEW o \in Opps, Score(o)
          PROVE  SeenBehind' /\ \A k \in Keys \ {"queue"} : cache'[k] = cache[k] /\ dels'[k] = dels[k]
      <3>1. "queue" \in Keys  BY DEF Keys
      <3>2. CASE Invalidate("queue")
        BY <1>2, <3>1, <3>2, InvalidateOutdates DEF FreshInv
      <3> DEFINE x == [value |-> Active \cup {o}, seen |-> 0, ttl |-> TRUE]
      <3>3. CASE cache' = [cache EXCEPT !["queue"] = x] /\ UNCHANGED dels
        <4>1. x.seen = 0 /\ dels["queue"] \in Nat  BY <1>1, <3>1
        <4> HIDE DEF x
        <4>2. \A k \in Keys : cache'[k] = IF k = "queue" THEN x ELSE cache[k]
          BY <1>1, <3>1, <3>3
        <4>3. SeenBehind'  BY <1>2, <3>3, <4>1, <4>2 DEF FreshInv, SeenBehind
        <4> QED  BY <3>3, <4>2, <4>3
      <3> QED  BY <2>2, <3>2, <3>3 DEF Score
    <2>3. ASSUME NEW k \in Keys, Expire(k)
          PROVE  SeenBehind' /\ \A j \in Keys : /\ cache'[j] = cache[j] \/ cache'[j] = Missing
                                                /\ dels'[j] = dels[j]
      <3>1. UNCHANGED dels /\ \A j \in Keys : cache'[j] = cache[j] \/ cache'[j] = Missing
        BY <1>1, <2>3 DEF Expire
      <3> QED  BY <1>2, <3>1 DEF FreshInv, SeenBehind
    <2> QED  BY <1>1, <2>1, <2>2, <2>3 DEF Progress, Refresh
  <1>5. DismissedNotListed'
    BY <1>2, <1>4 DEF FreshInv, DismissedNotListed
  <1>6. ListShowsApprovedText'
    BY <1>2, <1>4 DEF FreshInv, ListShowsApprovedText
  <1> QED  BY <1>3, <1>4, <1>5, <1>6

LEMMA FreshNext == FreshInv /\ [Next]_vars => FreshInv'
  <1> SUFFICES ASSUME FreshInv, [Next]_vars  PROVE FreshInv'
    OBVIOUS
  <1>1. TypeOK'  BY TypeNext DEF FreshInv
  <1>2. CASE UNCHANGED vars
    BY <1>1, <1>2 DEF FreshInv, SeenBehind, DismissalsCommitted, DismissedNotListed,
                      ListShowsApprovedText, vars
  <1>3. CASE Next
    BY <1>1, <1>3, FreshByRead, FreshByDismissal, FreshByApproval, FreshByEnvironment
    DEF Next, FreshInv
  <1> QED  BY <1>2, <1>3

\* FreshInv is inductive: the two theorems below are conjuncts of it.
LEMMA FreshAlways == Spec => []FreshInv
  BY FreshInit, FreshNext, PTL DEF Spec

\* An opportunity whose dismissal was answered is in no list that was read
\* since, however the requests interleave with the dismissals (customers.py:316).
THEOREM DismissalsHold == Spec => []DismissedNotListed
  <1>1. FreshInv => DismissedNotListed  BY DEF FreshInv
  <1> QED  BY <1>1, FreshAlways, PTL

\* A list of campaigns read since an approval's DEL shows the text that is
\* sent (outreach.py:483).
THEOREM ListIsApproved == Spec => []ListShowsApprovedText
  <1>1. FreshInv => ListShowsApprovedText  BY DEF FreshInv
  <1> QED  BY <1>1, FreshAlways, PTL

==============================================================================

-------------------------- MODULE EventScoringProofs --------------------------
(***************************************************************************)
(* Theorems about EventScoring, for any customers, events, jobs and number *)
(* of worker processes.                                                    *)
(***************************************************************************)
EXTENDS EventScoring, FiniteSetTheorems, SequenceTheorems, TLAPS

------------------------------------------------------------------------------
(* Type correctness.                                                       *)

\* A job that has ended, or has not begun, is well typed.
LEMMA IdleJobTyped == IdleJob \in ExecutionType
  BY DEF IdleJob, ExecutionType, JobPcs

\* A job that gives up its customer is well typed.
LEMMA GiveUpTyped ==
  ASSUME TypeOK, NEW j \in Jobs, NEW s \in {"fresh", "open", "broken"}, GiveUp(j, s)
  PROVE  /\ ex' \in [Jobs -> ExecutionType]
         /\ ex'[j].pc = "pick"
         /\ ex'[j].use = "load"
         /\ \A k \in Jobs \ {j} : ex'[k] = ex[k]
  <1> DEFINE x == [IdleJob EXCEPT !.pc = "pick", !.todo = ex[j].todo, !.session = s]
  <1>1. ex[j].todo \in SUBSET Customers  BY DEF TypeOK, JobsTyped, ExecutionType
  <1>2. x \in ExecutionType /\ x.pc = "pick" /\ x.use = "load"
    BY <1>1 DEF IdleJob, ExecutionType, JobPcs
  <1> HIDE DEF x
  <1> QED  BY <1>2 DEF GiveUp, TypeOK, JobsTyped, x

\* The jobs that did not move stay well typed.
LEMMA OneJobMoves ==
  ASSUME TypeOK, NEW j \in Jobs,
         ex' \in [Jobs -> ExecutionType], job' \in [Jobs -> JobType],
         \A k \in Jobs \ {j} : ex'[k] = ex[k] /\ job'[k] = job[k],
         \A c \in Customers : Len(opps[c]) <= Len(opps'[c]),
         \A c \in Customers : Len(opps'[c]) \in Nat,
         ExecutionTyped(j)'
  PROVE  JobsTyped'
  <1> SUFFICES ASSUME NEW k \in Jobs, k # j  PROVE ExecutionTyped(k)'
    BY DEF JobsTyped
  <1>1. ex'[k] = ex[k] /\ job'[k] = job[k]  OBVIOUS
  <1>2. ExecutionTyped(k)  BY DEF TypeOK, JobsTyped
  <1>3. ex[k].opp \in Nat  BY DEF TypeOK, JobsTyped, ExecutionType
  <1>4. ASSUME ex[k].pc = "upsert"  PROVE ex[k].opp \in 0..Len(opps'[ex[k].cust])
    <2>1. ex[k].cust \in Customers  BY <1>2, <1>4 DEF ExecutionTyped
    <2>2. Len(opps[ex[k].cust]) \in Nat  BY <2>1 DEF TypeOK, DataTyped
    <2> QED  BY <1>2, <1>3, <1>4, <2>1, <2>2 DEF ExecutionTyped
  <1> QED  BY <1>1, <1>2, <1>4 DEF ExecutionTyped

\* A fault is counted up to its bound.
LEMMA FaultTyped == ASSUME TypeOK, Fault  PROVE faults' \in 0..MaxFaults
  BY ConstantsAssumption DEF Fault, TypeOK, DataTyped

\* A step of one execution that leaves the messages and the rows alone.
LEMMA LocalStep ==
  ASSUME TypeOK, NEW j \in Jobs, UNCHANGED <<opps, job>>,
         ex' \in [Jobs -> ExecutionType], \A k \in Jobs \ {j} : ex'[k] = ex[k],
         ExecutionTyped(j)'
  PROVE  JobsTyped'
  <1>1. \A c \in Customers : Len(opps[c]) \in Nat  BY DEF TypeOK, DataTyped
  <1>2. \A c \in Customers : Len(opps[c]) <= Len(opps'[c]) /\ Len(opps'[c]) \in Nat
    BY <1>1
  <1>3. job' \in [Jobs -> JobType]  BY DEF TypeOK, JobsTyped
  <1> QED  BY <1>2, <1>3, OneJobMoves

\* What is known of an execution that is under way.
LEMMA Busy ==
  ASSUME TypeOK, NEW j \in Jobs
  PROVE  /\ ex[j] \in ExecutionType
         /\ job[j] \in JobType
         /\ ExecutionTyped(j)
         /\ Len(opps[ex[j].cust]) \in Nat \/ ex[j].cust \notin Customers
  BY DEF TypeOK, JobsTyped, DataTyped

\* A step that leaves rows and cache alone keeps them typed.
LEMMA DataKept ==
  ASSUME TypeOK, UNCHANGED <<signals, recent, events, opps, feats, dismissals>>,
         faults' \in 0..MaxFaults
  PROVE  DataTyped'
  BY DEF TypeOK, DataTyped

\* The query for the customers.
LEMMA TypeFetch ==
  ASSUME TypeOK, NEW j \in Jobs, Fetch(j)
  PROVE  TypeOK'
  <1> USE DEF Fetch, db
  <1>1. ex[j] \in ExecutionType /\ ExecutionTyped(j)  BY Busy
  <1>2. DataTyped'  BY DEF TypeOK, DataTyped
  <1>3. ex' \in [Jobs -> ExecutionType]
    BY <1>1, <1>2 DEF TypeOK, JobsTyped, DataTyped, ExecutionType, JobPcs
  <1>4. /\ ex'[j].pc = "pick" /\ ex'[j].use = ex[j].use /\ ex'[j].vec = ex[j].vec
        /\ job'[j] = job[j]
    BY <1>1 DEF TypeOK, JobsTyped, ExecutionType
  <1>5. ExecutionTyped(j)'  BY <1>1, <1>4 DEF ExecutionTyped
  <1>6. \A k \in Jobs \ {j} : ex'[k] = ex[k]  BY DEF TypeOK, JobsTyped
  <1> QED  BY <1>2, <1>3, <1>5, <1>6, LocalStep DEF TypeOK

\* The next customer of the loop.
LEMMA TypePick ==
  ASSUME TypeOK, NEW j \in Jobs, NEW c \in Customers, Pick(j, c)
  PROVE  TypeOK'
  <1> USE DEF Pick, db
  <1>1. ex[j] \in ExecutionType /\ ExecutionTyped(j)  BY Busy
  <1>2. DataTyped'  BY DEF TypeOK, DataTyped
  <1>3. ex' \in [Jobs -> ExecutionType]
    BY <1>1 DEF TypeOK, JobsTyped, ExecutionType, JobPcs
  <1>4. /\ ex'[j].pc \in {"detect", "get"} /\ ex'[j].cust = c
        /\ ex'[j].use = ex[j].use /\ ex'[j].vec = ex[j].vec /\ job'[j] = job[j]
    BY <1>1 DEF TypeOK, JobsTyped, ExecutionType
  <1>5. ExecutionTyped(j)'  BY <1>1, <1>4 DEF ExecutionTyped
  <1>6. \A k \in Jobs \ {j} : ex'[k] = ex[k]  BY DEF TypeOK, JobsTyped
  <1> QED  BY <1>2, <1>3, <1>5, <1>6, LocalStep DEF TypeOK

\* The rules of the scan.
LEMMA TypeDetect ==
  ASSUME TypeOK, NEW j \in Jobs, Detect(j)
  PROVE  TypeOK'
  <1> USE DEF Detect, db
  <1>1. ex[j] \in ExecutionType /\ ExecutionTyped(j)  BY Busy
  <1>2. DataTyped'  BY DEF TypeOK, DataTyped
  <1>3. ex[j].cust \in Customers  BY <1>1 DEF ExecutionTyped
  <1>4. signals[ex[j].cust] \in SUBSET EventTypes  BY <1>3 DEF TypeOK, DataTyped
  <1>5. ex' \in [Jobs -> ExecutionType]
    BY <1>1, <1>4 DEF TypeOK, JobsTyped, ExecutionType, JobPcs
  <1>6. /\ ex'[j].pc = "check" /\ ex'[j].cust = ex[j].cust
        /\ ex'[j].use = ex[j].use /\ ex'[j].vec = ex[j].vec /\ job'[j] = job[j]
    BY <1>1 DEF TypeOK, JobsTyped, ExecutionType
  <1>7. ExecutionTyped(j)'  BY <1>1, <1>3, <1>6 DEF ExecutionTyped
  <1>8. \A k \in Jobs \ {j} : ex'[k] = ex[k]  BY DEF TypeOK, JobsTyped
  <1> QED  BY <1>2, <1>5, <1>7, <1>8, LocalStep DEF TypeOK

\* The look for a row of the event.
LEMMA TypeCheckEvent ==
  ASSUME TypeOK, NEW j \in Jobs, CheckEvent(j)
  PROVE  TypeOK'
  <1> USE DEF CheckEvent, db
  <1>1. ex[j] \in ExecutionType /\ ExecutionTyped(j)  BY Busy
  <1>2. DataTyped'  BY DEF TypeOK, DataTyped
  <1>3. ex[j].cust \in Customers  BY <1>1 DEF ExecutionTyped
  <1>4. PICK e \in FirstFound(j), p \in {"check", "insert"} :
          ex' = [ex EXCEPT ![j] = [ex[j] EXCEPT !.session = "open", !.found = ex[j].found \ {e},
                                                !.ev = e, !.pc = p]]
    <2>1. PICK e \in FirstFound(j) :
            ex' = [ex EXCEPT ![j].session = "open", ![j].found = @ \ {e}, ![j].ev = e,
                             ![j].pc = IF HasEvent(ex[j].cust, e) THEN "check" ELSE "insert"]
      OBVIOUS
    <2> DEFINE p == IF HasEvent(ex[j].cust, e) THEN "check" ELSE "insert"
    <2>2. p \in {"check", "insert"}  OBVIOUS
    <2>3. ex' = [ex EXCEPT ![j].session = "open", ![j].found = @ \ {e}, ![j].ev = e, ![j].pc = p]
      BY <2>1
    <2> HIDE DEF p, CheckEvent
    <2>4. ex' = [ex EXCEPT ![j] = [ex[j] EXCEPT !.session = "open", !.found = ex[j].found \ {e},
                                                !.ev = e, !.pc = p]]
      BY <1>1, <2>3 DEF TypeOK, JobsTyped, ExecutionType
    <2> QED  BY <2>2, <2>4
  <1>5. e \in EventTypes  BY <1>1 DEF FirstFound, ExecutionType
  <1> DEFINE x == [ex[j] EXCEPT !.session = "open", !.found = ex[j].found \ {e},
                                !.ev = e, !.pc = p]
  <1>6. /\ x \in ExecutionType /\ x.pc \in {"check", "insert"} /\ x.cust = ex[j].cust
        /\ x.ev = e /\ x.use = ex[j].use /\ x.vec = ex[j].vec
    BY <1>1, <1>5 DEF ExecutionType, JobPcs
  <1> HIDE DEF x
  <1>7. /\ ex' \in [Jobs -> ExecutionType] /\ ex'[j] = x
        /\ \A k \in Jobs \ {j} : ex'[k] = ex[k]
    <2>1. ex' = [ex EXCEPT ![j] = x]  BY <1>4 DEF x
    <2> QED  BY <1>6, <2>1 DEF TypeOK, JobsTyped
  <1>8. ExecutionTyped(j)'  BY <1>1, <1>3, <1>5, <1>6, <1>7 DEF ExecutionTyped
  <1> QED  BY <1>2, <1>7, <1>8, LocalStep DEF TypeOK

\* The event to score for.
LEMMA TypeReadTopEvent ==
  ASSUME TypeOK, NEW j \in Jobs, ReadTopEvent(j)
  PROVE  TypeOK'
  <1> USE DEF ReadTopEvent, db
  <1>1. ex[j] \in ExecutionType /\ ExecutionTyped(j)  BY Busy
  <1>2. DataTyped'  BY DEF TypeOK, DataTyped
  <1>3. ex[j].cust \in Customers  BY <1>1 DEF ExecutionTyped
  <1>4. PICK e \in EventTypes \cup {Unknown} :
          ex' = [ex EXCEPT ![j].pc = "get", ![j].use = "conversion", ![j].top = e,
                           ![j].session = "open"]
    BY DEF TopEvents
  <1> DEFINE x == [ex[j] EXCEPT !.pc = "get", !.use = "conversion", !.top = e,
                                !.session = "open"]
  <1>4a. x \in ExecutionType /\ x.pc = "get" /\ x.cust = ex[j].cust /\ x.use = "conversion"
    BY <1>1 DEF ExecutionType, JobPcs
  <1>4b. ex' = [ex EXCEPT ![j] = x]
    BY <1>1, <1>4 DEF TypeOK, JobsTyped, ExecutionType
  <1> HIDE DEF x
  <1>5. ex' \in [Jobs -> ExecutionType]
    BY <1>4a, <1>4b DEF TypeOK, JobsTyped
  <1>6. /\ ex'[j].pc = "get" /\ ex'[j].cust = ex[j].cust
        /\ ex'[j].use = "conversion" /\ job'[j] = job[j]
    BY <1>4a, <1>4b DEF TypeOK, JobsTyped
  <1>7. ExecutionTyped(j)'  BY <1>1, <1>3, <1>6 DEF ExecutionTyped
  <1>8. \A k \in Jobs \ {j} : ex'[k] = ex[k]  BY <1>4 DEF TypeOK, JobsTyped
  <1> QED  BY <1>2, <1>5, <1>7, <1>8, LocalStep DEF TypeOK

\* The look for an active opportunity.
LEMMA TypeSelectOpp ==
  ASSUME TypeOK, NEW j \in Jobs, SelectOpp(j)
  PROVE  TypeOK'
  <1> USE DEF SelectOpp, db
  <1>1. ex[j] \in ExecutionType /\ ExecutionTyped(j)  BY Busy
  <1>2. DataTyped'  BY DEF TypeOK, DataTyped
  <1>3. ex[j].cust \in Customers  BY <1>1 DEF ExecutionTyped
  <1>4. opps[ex[j].cust] \in Seq(OppType)  BY <1>3 DEF TypeOK, DataTyped
  <1>5. DOMAIN opps[ex[j].cust] = 1..Len(opps[ex[j].cust]) /\ Len(opps[ex[j].cust]) \in Nat
    BY <1>4
  <1>6. PICK i \in 0..Len(opps[ex[j].cust]) :
          ex' = [ex EXCEPT ![j] = [ex[j] EXCEPT !.pc = "upsert", !.opp = i, !.session = "open"]]
    <2> DEFINE new == NewOpps(ex[j].cust)
    <2>1. \A i \in IF new = {} THEN {0} ELSE new : i \in 0..Len(opps[ex[j].cust])
      BY <1>5 DEF NewOpps
    <2>2. \E i \in IF new = {} THEN {0} ELSE new :
            ex' = [ex EXCEPT ![j] = [ex[j] EXCEPT !.pc = "upsert", !.opp = i, !.session = "open"]]
      BY DEF TypeOK, JobsTyped
    <2> QED  BY <2>1, <2>2
  <1> DEFINE x == [ex[j] EXCEPT !.pc = "upsert", !.opp = i, !.session = "open"]
  <1>7. /\ x \in ExecutionType /\ x.pc = "upsert" /\ x.cust = ex[j].cust /\ x.opp = i
        /\ x.use = ex[j].use /\ x.vec = ex[j].vec
    <2>1. i \in Nat  BY <1>5
    <2> QED  BY <1>1, <2>1 DEF ExecutionType, JobPcs
  <1> HIDE DEF x
  <1>8. /\ ex' \in [Jobs -> ExecutionType] /\ ex'[j] = x
        /\ \A k \in Jobs \ {j} : ex'[k] = ex[k]
    <2>1. ex' = [ex EXCEPT ![j] = x]  BY <1>6 DEF x
    <2> QED  BY <1>7, <2>1 DEF TypeOK, JobsTyped
  <1>9. ExecutionTyped(j)'  BY <1>1, <1>3, <1>7, <1>8 DEF ExecutionTyped
  <1> QED  BY <1>2, <1>8, <1>9, LocalStep DEF TypeOK

\* The vector read from the database.
LEMMA TypeComputeFeatures ==
  ASSUME TypeOK, NEW j \in Jobs, ComputeFeatures(j)
  PROVE  TypeOK'
  <1> USE DEF ComputeFeatures, db
  <1>1. ex[j] \in ExecutionType /\ ExecutionTyped(j)  BY Busy
  <1>2. DataTyped'  BY DEF TypeOK, DataTyped
  <1>3. ex[j].cust \in Customers  BY <1>1 DEF ExecutionTyped
  <1>4. Features(ex[j].cust) \in Vectors
    <2>1. events[ex[j].cust] \in Seq(EventTypes)  BY <1>3 DEF TypeOK, DataTyped
    <2> QED  BY <2>1 DEF Features, Vectors
  <1> HIDE DEF Features
  <1>5. ex' \in [Jobs -> ExecutionType]
    BY <1>1, <1>4 DEF TypeOK, JobsTyped, ExecutionType, JobPcs
  <1>6. /\ ex'[j].pc = "cache" /\ ex'[j].cust = ex[j].cust /\ ex'[j].made \in Vectors
        /\ ex'[j].use = ex[j].use /\ ex'[j].vec = ex[j].vec /\ job'[j] = job[j]
    BY <1>1, <1>4 DEF TypeOK, JobsTyped, ExecutionType
  <1>7. ExecutionTyped(j)'  BY <1>1, <1>3, <1>6 DEF ExecutionTyped
  <1>8. \A k \in Jobs \ {j} : ex'[k] = ex[k]  BY DEF TypeOK, JobsTyped
  <1> QED  BY <1>2, <1>5, <1>7, <1>8, LocalStep DEF TypeOK

\* The defaults after a query that failed.
LEMMA TypeComputeBlank ==
  ASSUME TypeOK, NEW j \in Jobs, ComputeBlank(j)
  PROVE  TypeOK'
  <1> USE DEF ComputeBlank, db
  <1>1. ex[j] \in ExecutionType /\ ExecutionTyped(j)  BY Busy
  <1>2. DataTyped'  BY FaultTyped DEF TypeOK, DataTyped
  <1>3. ex[j].cust \in Customers  BY <1>1 DEF ExecutionTyped
  <1>4. PICK s \in {"fresh", "open", "broken"} :
          ex' = [ex EXCEPT ![j] = [ex[j] EXCEPT !.pc = "cache", !.made = Blank, !.session = s]]
    <2>1. ex[j].session \in {"fresh", "open", "broken"}  BY <1>1 DEF ExecutionType
    <2>2. [ex[j] EXCEPT !.session = ex[j].session] = ex[j]  BY <1>1 DEF ExecutionType
    <2>3. CASE ex[j].session = "broken"
      <3> SUFFICES ex' = [ex EXCEPT ![j] = [ex[j] EXCEPT !.pc = "cache", !.made = Blank,
                                                         !.session = "broken"]]
        OBVIOUS
      <3>1. [ex[j] EXCEPT !.pc = "cache", !.made = Blank]
              = [ex[j] EXCEPT !.pc = "cache", !.made = Blank, !.session = "broken"]
        BY <1>1, <2>3 DEF ExecutionType
      <3>2. ex' = [ex EXCEPT ![j] = [ex[j] EXCEPT !.pc = "cache", !.made = Blank]]
        BY <2>3 DEF TypeOK, JobsTyped
      <3> QED  BY <3>1, <3>2
    <2>4. CASE ex[j].session # "broken"
      BY <2>4 DEF AfterFailure, TypeOK, JobsTyped
    <2> QED  BY <2>3, <2>4
  <1> DEFINE x == [ex[j] EXCEPT !.pc = "cache", !.made = Blank, !.session = s]
  <1>5. /\ x \in ExecutionType /\ x.pc = "cache" /\ x.cust = ex[j].cust
        /\ x.made \in Vectors /\ x.use = ex[j].use /\ x.vec = ex[j].vec
    BY <1>1 DEF ExecutionType, JobPcs, Vectors
  <1> HIDE DEF x
  <1>6. ex' = [ex EXCEPT ![j] = x]  BY <1>4 DEF x
  <1>7. /\ ex' \in [Jobs -> ExecutionType] /\ ex'[j] = x
        /\ \A k \in Jobs \ {j} : ex'[k] = ex[k]
    BY <1>5, <1>6 DEF TypeOK, JobsTyped
  <1>8. ExecutionTyped(j)'  BY <1>1, <1>3, <1>5, <1>7 DEF ExecutionTyped
  <1> QED  BY <1>2, <1>7, <1>8, LocalStep DEF TypeOK

\* A feature vector goes where it is used.
LEMMA LoadedTyped ==
  ASSUME NEW x \in ExecutionType, NEW v \in Vectors, x.cust \in Customers,
         x.use = "churn" => x.vec \in Vectors
  PROVE  /\ Loaded(x, v) \in ExecutionType
         /\ Loaded(x, v).cust = x.cust
         /\ Loaded(x, v).pc \in {"event", "get", "select"}
         /\ Loaded(x, v).use = "churn" \/ Loaded(x, v).pc = "select" => Loaded(x, v).vec \in Vectors
  <1>1. x.use \in {"load", "conversion", "churn"}  BY DEF ExecutionType
  <1>2. CASE x.use = "load"
    <2>1. Loaded(x, v) = [x EXCEPT !.pc = "event"]  BY <1>2 DEF Loaded
    <2> QED  BY <1>2, <2>1 DEF ExecutionType, JobPcs
  <1>3. CASE x.use = "conversion"
    <2>1. Loaded(x, v) = [x EXCEPT !.pc = "get", !.use = "churn", !.vec = v]
      BY <1>3 DEF Loaded
    <2> QED  BY <1>3, <2>1 DEF ExecutionType, JobPcs
  <1>4. CASE x.use = "churn"
    <2>1. Loaded(x, v) = [x EXCEPT !.pc = "select"]  BY <1>4 DEF Loaded
    <2> QED  BY <1>4, <2>1 DEF ExecutionType, JobPcs
  <1> QED  BY <1>1, <1>2, <1>3, <1>4

\* An execution whose vector has come in is well typed.
LEMMA LoadedStep ==
  ASSUME TypeOK, NEW j \in Jobs, NEW v \in Vectors, ex[j].pc \in {"get", "cache"},
         ex' = [ex EXCEPT ![j] = Loaded(ex[j], v)], UNCHANGED <<opps, job>>
  PROVE  JobsTyped'
  <1>1. ex[j] \in ExecutionType /\ ExecutionTyped(j)  BY Busy
  <1>2. /\ ex[j].cust \in Customers
        /\ ex[j].use = "churn" => ex[j].vec \in Vectors
    BY <1>1 DEF ExecutionTyped
  <1> DEFINE x == Loaded(ex[j], v)
  <1>3. /\ x \in ExecutionType /\ x.cust \in Customers /\ x.pc \in {"event", "get", "select"}
        /\ x.use = "churn" \/ x.pc = "select" => x.vec \in Vectors
    BY <1>1, <1>2, LoadedTyped
  <1> HIDE DEF x
  <1>4. /\ ex' \in [Jobs -> ExecutionType] /\ ex'[j] = x
        /\ \A k \in Jobs \ {j} : ex'[k] = ex[k]
    <2>1. ex' = [ex EXCEPT ![j] = x]  BY DEF x
    <2> QED  BY <1>3, <2>1 DEF TypeOK, JobsTyped
  <1>5. ExecutionTyped(j)'  BY <1>1, <1>3, <1>4 DEF ExecutionTyped
  <1> QED  BY <1>4, <1>5, LocalStep

\* The cached vector, or none.
LEMMA TypeGetFeatures ==
  ASSUME TypeOK, NEW j \in Jobs, GetFeatures(j)
  PROVE  TypeOK'
  <1>1. /\ ex[j] \in ExecutionType /\ ExecutionTyped(j) /\ ex[j].pc = "get"
        /\ UNCHANGED <<signals, recent, events, opps, feats, job, dismissals>>
    BY Busy DEF GetFeatures, db
  <1>2. ex[j].cust \in Customers  BY <1>1 DEF ExecutionTyped
  <1>3. DataTyped'
    <2>1. faults' \in 0..MaxFaults  BY FaultTyped DEF GetFeatures, TypeOK, DataTyped
    <2> QED  BY <1>1, <2>1, DataKept
  <1>4. CASE feats[ex[j].cust] # NoVector /\ ex' = [ex EXCEPT ![j] = Loaded(ex[j], feats[ex[j].cust])]
    <2>1. feats[ex[j].cust] \in Vectors  BY <1>2, <1>4 DEF TypeOK, DataTyped
    <2> QED  BY <1>1, <1>3, <1>4, <2>1, LoadedStep DEF TypeOK
  <1>5. CASE ex' = [ex EXCEPT ![j].pc = "compute"]
    <2>1. ex' \in [Jobs -> ExecutionType] /\ \A k \in Jobs \ {j} : ex'[k] = ex[k]
      BY <1>1, <1>5 DEF TypeOK, JobsTyped, ExecutionType, JobPcs
    <2>2. /\ ex'[j].pc = "compute" /\ ex'[j].cust = ex[j].cust
          /\ ex'[j].use = ex[j].use /\ ex'[j].vec = ex[j].vec /\ job'[j] = job[j]
      BY <1>1, <1>5 DEF TypeOK, JobsTyped, ExecutionType
    <2>3. ExecutionTyped(j)'  BY <1>1, <1>2, <2>2 DEF ExecutionTyped
    <2> QED  BY <1>1, <1>3, <2>1, <2>3, LocalStep DEF TypeOK
  <1> QED  BY <1>4, <1>5 DEF GetFeatures

\* The fill of the cache.
LEMMA TypeCacheFeatures ==
  ASSUME TypeOK, NEW j \in Jobs, CacheFeatures(j)
  PROVE  TypeOK'
  <1>1. /\ ex[j] \in ExecutionType /\ ExecutionTyped(j) /\ ex[j].pc = "cache"
        /\ UNCHANGED <<signals, recent, events, opps, job, dismissals>>
        /\ ex' = [ex EXCEPT ![j] = Loaded(ex[j], ex[j].made)]
    BY Busy DEF CacheFeatures, db
  <1>2. ex[j].made \in Vectors  BY <1>1 DEF ExecutionTyped
  <1>3. faults' \in 0..MaxFaults  BY FaultTyped DEF CacheFeatures, TypeOK, DataTyped
  <1>4. feats' \in [Customers -> Vectors \cup {NoVector}]
    BY <1>2 DEF CacheFeatures, TypeOK, DataTyped
  <1>5. DataTyped'  BY <1>1, <1>3, <1>4 DEF TypeOK, DataTyped
  <1> QED  BY <1>1, <1>2, <1>5, LoadedStep DEF TypeOK

\* The deletion of the customer's vector.
LEMMA TypeInvalidate ==
  ASSUME TypeOK, NEW j \in Jobs, Invalidate(j)
  PROVE  TypeOK'
  <1>1. /\ ex[j] \in ExecutionType /\ ExecutionTyped(j) /\ ex[j].pc = "invalidate"
        /\ UNCHANGED <<signals, recent, events, opps, job, dismissals>>
        /\ ex' = [ex EXCEPT ![j].pc = "get"]
    BY Busy DEF Invalidate, db
  <1>2. faults' \in 0..MaxFaults  BY FaultTyped DEF Invalidate, TypeOK, DataTyped
  <1>3. feats' \in [Customers -> Vectors \cup {NoVector}]  BY DEF Invalidate, TypeOK, DataTyped
  <1>4. DataTyped'  BY <1>1, <1>2, <1>3 DEF TypeOK, DataTyped
  <1>5. ex' \in [Jobs -> ExecutionType] /\ \A k \in Jobs \ {j} : ex'[k] = ex[k]
    BY <1>1 DEF TypeOK, JobsTyped, ExecutionType, JobPcs
  <1>6. /\ ex'[j].pc = "get" /\ ex'[j].cust = ex[j].cust
        /\ ex'[j].use = ex[j].use /\ ex'[j].vec = ex[j].vec /\ job'[j] = job[j]
    BY <1>1 DEF TypeOK, JobsTyped, ExecutionType
  <1>7. ExecutionTyped(j)'  BY <1>1, <1>6 DEF ExecutionTyped
  <1> QED  BY <1>1, <1>4, <1>5, <1>7, LocalStep DEF TypeOK

\* An execution that gives up its customer, with the rows left alone.
LEMMA GiveUpStep ==
  ASSUME TypeOK, NEW j \in Jobs, NEW s \in {"fresh", "open", "broken"}, GiveUp(j, s),
         job' = job, job[j].status = "running",
         \A c \in Customers : Len(opps[c]) <= Len(opps'[c]),
         \A c \in Customers : Len(opps'[c]) \in Nat
  PROVE  JobsTyped'
  <1>1. /\ ex' \in [Jobs -> ExecutionType] /\ ex'[j].pc = "pick" /\ ex'[j].use = "load"
        /\ \A k \in Jobs \ {j} : ex'[k] = ex[k]
    BY GiveUpTyped
  <1>2. ExecutionTyped(j)'  BY <1>1 DEF ExecutionTyped
  <1>3. job' \in [Jobs -> JobType]  BY DEF TypeOK, JobsTyped
  <1> QED  BY <1>1, <1>2, <1>3, OneJobMoves

\* The same when the rows are not touched.
LEMMA GiveUpKeepsRows ==
  ASSUME TypeOK, NEW j \in Jobs, NEW s \in {"fresh", "open", "broken"}, GiveUp(j, s),
         job' = job, opps' = opps, ex[j].pc # "idle"
  PROVE  JobsTyped'
  <1>1. \A c \in Customers : Len(opps[c]) \in Nat  BY DEF TypeOK, DataTyped
  <1>2. \A c \in Customers : Len(opps[c]) <= Len(opps'[c]) /\ Len(opps'[c]) \in Nat  BY <1>1
  <1>3. job[j].status = "running"  BY Busy DEF ExecutionTyped
  <1> QED  BY <1>2, <1>3, GiveUpStep

\* The end of the scan of a customer.
LEMMA TypeScanNext ==
  ASSUME TypeOK, NEW j \in Jobs, ScanNext(j)
  PROVE  TypeOK'
  <1> USE DEF ScanNext, db
  <1>1. ex[j].session \in {"fresh", "open", "broken"}  BY Busy DEF ExecutionType
  <1>2. DataTyped'  BY DEF TypeOK, DataTyped
  <1> QED  BY <1>1, <1>2, GiveUpKeepsRows DEF TypeOK

\* A customer that is given up.
LEMMA TypeCustomerFails ==
  ASSUME TypeOK, NEW j \in Jobs, CustomerFails(j)
  PROVE  TypeOK'
  <1> USE DEF CustomerFails, DbCalls
  <1>1. faults' \in 0..MaxFaults  BY FaultTyped DEF TypeOK, DataTyped
  <1>2. DataTyped'  BY <1>1, DataKept
  <1>3. PICK s \in {"fresh", "open", "broken"} : GiveUp(j, s)  BY DEF AfterFailure
  <1> QED  BY <1>2, <1>3, GiveUpKeepsRows DEF TypeOK

\* The deletion of the RM's queue.
LEMMA TypeClearQueue ==
  ASSUME TypeOK, NEW j \in Jobs, ClearQueue(j)
  PROVE  TypeOK'
  <1>1. /\ ex[j] \in ExecutionType /\ ExecutionTyped(j) /\ ex[j].pc = "queue"
        /\ UNCHANGED <<signals, recent, events, opps, feats, job, dismissals>>
    BY Busy DEF ClearQueue, db
  <1>2. DataTyped'
    <2>1. faults' \in 0..MaxFaults  BY FaultTyped DEF ClearQueue, TypeOK, DataTyped
    <2> QED  BY <1>1, <2>1, DataKept
  <1>3. CASE ex' = [ex EXCEPT ![j].pc = "check"]
    <2>1. ex' \in [Jobs -> ExecutionType] /\ \A k \in Jobs \ {j} : ex'[k] = ex[k]
      BY <1>1, <1>3 DEF TypeOK, JobsTyped, ExecutionType, JobPcs
    <2>2. /\ ex'[j].pc = "check" /\ ex'[j].cust = ex[j].cust
          /\ ex'[j].use = ex[j].use /\ ex'[j].vec = ex[j].vec /\ job'[j] = job[j]
      BY <1>1, <1>3 DEF TypeOK, JobsTyped, ExecutionType
    <2>3. ExecutionTyped(j)'  BY <1>1, <2>2 DEF ExecutionTyped
    <2> QED  BY <1>1, <1>2, <2>1, <2>3, LocalStep DEF TypeOK
  <1>4. CASE GiveUp(j, ex[j].session)
    <2>1. ex[j].session \in {"fresh", "open", "broken"}  BY <1>1 DEF ExecutionType
    <2> QED  BY <1>1, <1>2, <1>4, <2>1, GiveUpKeepsRows DEF TypeOK
  <1> QED  BY <1>3, <1>4 DEF ClearQueue

\* One more row of the event.
LEMMA EventAppended ==
  ASSUME TypeOK, NEW j \in Jobs, ex[j].pc = "insert",
         events' = [events EXCEPT ![ex[j].cust] = Append(@, ex[j].ev)]
  PROVE  events' \in [Customers -> Seq(EventTypes)]
  <1>1. ex[j].cust \in Customers /\ ex[j].ev \in EventTypes  BY Busy DEF ExecutionTyped
  <1>2. Append(events[ex[j].cust], ex[j].ev) \in Seq(EventTypes)
    BY <1>1 DEF TypeOK, DataTyped
  <1> QED  BY <1>1, <1>2 DEF TypeOK, DataTyped

\* The event is inserted.
LEMMA TypeInsertEvent ==
  ASSUME TypeOK, NEW j \in Jobs, InsertEvent(j)
  PROVE  TypeOK'
  <1>1. /\ ex[j] \in ExecutionType /\ ExecutionTyped(j) /\ ex[j].pc = "insert"
        /\ UNCHANGED <<signals, recent, opps, feats, job, faults, dismissals>>
        /\ ex' = [ex EXCEPT ![j].pc = "invalidate", ![j].session = "fresh"]
        /\ events' = [events EXCEPT ![ex[j].cust] = Append(@, ex[j].ev)]
    BY Busy DEF InsertEvent
  <1>2. DataTyped'  BY <1>1, EventAppended DEF TypeOK, DataTyped
  <1>3. ex' \in [Jobs -> ExecutionType] /\ \A k \in Jobs \ {j} : ex'[k] = ex[k]
    BY <1>1 DEF TypeOK, JobsTyped, ExecutionType, JobPcs
  <1>4. /\ ex'[j].pc = "invalidate" /\ ex'[j].cust = ex[j].cust
        /\ ex'[j].use = ex[j].use /\ ex'[j].vec = ex[j].vec /\ job'[j] = job[j]
    BY <1>1 DEF TypeOK, JobsTyped, ExecutionType
  <1>5. ExecutionTyped(j)'  BY <1>1, <1>4 DEF ExecutionTyped
  <1> QED  BY <1>1, <1>2, <1>3, <1>5, LocalStep DEF TypeOK

\* The event is inserted and nobody knows.
LEMMA TypeInsertUnanswered ==
  ASSUME TypeOK, NEW j \in Jobs, InsertUnanswered(j)
  PROVE  TypeOK'
  <1> USE DEF InsertUnanswered
  <1>1. faults' \in 0..MaxFaults  BY FaultTyped
  <1>2. DataTyped'  BY <1>1, EventAppended DEF TypeOK, DataTyped
  <1> QED  BY <1>2, GiveUpKeepsRows DEF TypeOK

\* The customer's rows after an upsert: typed, and none is lost.
LEMMA UpsertedTyped ==
  ASSUME TypeOK, NEW j \in Jobs, ex[j].pc = "upsert",
         opps' = [opps EXCEPT ![ex[j].cust] = Upserted(j)]
  PROVE  /\ opps' \in [Customers -> Seq(OppType)]
         /\ \A c \in Customers : Len(opps[c]) <= Len(opps'[c])
         /\ \A c \in Customers : Len(opps'[c]) \in Nat
  <1> DEFINE c == ex[j].cust
             old == opps[c]
             i == ex[j].opp
             new == [status |-> "NEW", product |-> ex[j].top, vec |-> ex[j].vec]
  <1>1. /\ c \in Customers /\ i \in 0..Len(old) /\ ex[j].vec \in Vectors
        /\ ex[j].top \in EventTypes \cup {Unknown}
    BY Busy DEF ExecutionTyped, ExecutionType
  <1>2. old \in Seq(OppType) /\ Len(old) \in Nat  BY <1>1 DEF TypeOK, DataTyped
  <1>3. new \in OppType  BY <1>1 DEF OppType
  <1>4. Upserted(j) = IF i = 0 THEN Append(old, new) ELSE [old EXCEPT ![i].vec = ex[j].vec]
    BY DEF Upserted
  <1>5. Upserted(j) \in Seq(OppType) /\ Len(old) <= Len(Upserted(j)) /\ Len(Upserted(j)) \in Nat
    <2> HIDE DEF c, old, i, new
    <2>1. CASE i = 0
      <3>1. Append(old, new) \in Seq(OppType) /\ Len(Append(old, new)) = Len(old) + 1
        BY <1>2, <1>3
      <3> QED  BY <1>2, <1>4, <2>1, <3>1
    <2>2. CASE i # 0
      <3>1. i \in 1..Len(old)  BY <1>1, <1>2, <2>2
      <3>2. old[i] \in OppType  BY <1>2, <3>1
      <3>3. [old[i] EXCEPT !.vec = ex[j].vec] \in OppType  BY <1>1, <3>2 DEF OppType
      <3> DEFINE y == [old[i] EXCEPT !.vec = ex[j].vec]
      <3>4. Upserted(j) = [old EXCEPT ![i] = y]  BY <1>4, <2>2
      <3> HIDE DEF y
      <3>5. [old EXCEPT ![i] = y] \in Seq(OppType) /\ Len([old EXCEPT ![i] = y]) = Len(old)
        BY <1>2, <3>1, <3>3, ExceptSeq DEF y
      <3> QED  BY <1>2, <3>4, <3>5
    <2> QED  BY <2>1, <2>2
  <1>6. opps' \in [Customers -> Seq(OppType)]  BY <1>1, <1>5 DEF TypeOK, DataTyped
  <1>7. \A d \in Customers : opps'[d] = IF d = c THEN Upserted(j) ELSE opps[d]
    BY DEF TypeOK, DataTyped
  <1>8. \A d \in Customers : Len(opps[d]) \in Nat  BY DEF TypeOK, DataTyped
  <1> HIDE DEF c
  <1>9. \A d \in Customers : Len(opps[d]) <= Len(opps'[d]) /\ Len(opps'[d]) \in Nat
    BY <1>5, <1>7, <1>8
  <1> QED  BY <1>6, <1>9

\* The opportunity is written.
LEMMA TypeUpsert ==
  ASSUME TypeOK, NEW j \in Jobs, Upsert(j)
  PROVE  TypeOK'
  <1>1. /\ ex[j] \in ExecutionType /\ ExecutionTyped(j) /\ ex[j].pc = "upsert"
        /\ UNCHANGED <<signals, recent, events, feats, job, faults, dismissals>>
        /\ opps' = [opps EXCEPT ![ex[j].cust] = Upserted(j)]
    BY Busy DEF Upsert
  <1>2. /\ opps' \in [Customers -> Seq(OppType)]
        /\ \A c \in Customers : Len(opps[c]) <= Len(opps'[c])
        /\ \A c \in Customers : Len(opps'[c]) \in Nat
    BY <1>1, UpsertedTyped
  <1>3. DataTyped'  BY <1>1, <1>2 DEF TypeOK, DataTyped
  <1>4. job[j].status = "running"  BY <1>1 DEF ExecutionTyped
  <1>5. CASE j \in Scans
    <2> DEFINE x == [ex[j] EXCEPT !.pc = "queue", !.use = "load", !.opp = 0,
                                  !.top = Unknown, !.session = "fresh",
                                  !.made = NoVector, !.vec = NoVector]
    <2>1. x \in ExecutionType /\ x.pc = "queue" /\ x.use = "load" /\ x.cust = ex[j].cust
      BY <1>1 DEF ExecutionType, JobPcs
    <2>2. ex' = [ex EXCEPT ![j] = x]  BY <1>5 DEF Upsert, TypeOK, JobsTyped
    <2> HIDE DEF x
    <2>3. ex' \in [Jobs -> ExecutionType] /\ ex'[j] = x /\ \A k \in Jobs \ {j} : ex'[k] = ex[k]
      BY <2>1, <2>2 DEF TypeOK, JobsTyped
    <2>4. ExecutionTyped(j)'  BY <1>1, <1>4, <2>1, <2>3 DEF ExecutionTyped
    <2>5. job' \in [Jobs -> JobType]  BY <1>1 DEF TypeOK, JobsTyped
    <2> QED  BY <1>1, <1>2, <1>3, <2>3, <2>4, <2>5, OneJobMoves DEF TypeOK
  <1>6. CASE j \notin Scans
    <2>1. GiveUp(j, "fresh")  BY <1>6 DEF Upsert
    <2> QED  BY <1>1, <1>2, <1>3, <1>4, <2>1, GiveUpStep DEF TypeOK
  <1> QED  BY <1>5, <1>6

\* The opportunity is written and nobody knows.
LEMMA TypeUpsertUnanswered ==
  ASSUME TypeOK, NEW j \in Jobs, UpsertUnanswered(j)
  PROVE  TypeOK'
  <1> USE DEF UpsertUnanswered
  <1>1. /\ opps' \in [Customers -> Seq(OppType)]
        /\ \A c \in Customers : Len(opps[c]) <= Len(opps'[c])
        /\ \A c \in Customers : Len(opps'[c]) \in Nat
    BY UpsertedTyped
  <1>2. faults' \in 0..MaxFaults  BY FaultTyped
  <1>3. DataTyped'  BY <1>1, <1>2 DEF TypeOK, DataTyped
  <1>4. job[j].status = "running"  BY Busy DEF ExecutionTyped
  <1> QED  BY <1>1, <1>3, <1>4, GiveUpStep DEF TypeOK

\* An execution that ends, with its message put back or settled.
LEMMA JobEnds ==
  ASSUME TypeOK, NEW j \in Jobs, NEW m \in JobType, m.status # "running",
         ex' = [ex EXCEPT ![j] = IdleJob], job' = [job EXCEPT ![j] = m],
         UNCHANGED <<signals, recent, events, opps, feats, dismissals>>,
         faults' \in 0..MaxFaults
  PROVE  TypeOK'
  <1>1. DataTyped'  BY DataKept
  <1>2. /\ ex' \in [Jobs -> ExecutionType] /\ job' \in [Jobs -> JobType]
        /\ ex'[j] = IdleJob /\ job'[j] = m
        /\ \A k \in Jobs \ {j} : ex'[k] = ex[k] /\ job'[k] = job[k]
    BY IdleJobTyped DEF TypeOK, JobsTyped
  <1>3. ExecutionTyped(j)'  BY <1>2 DEF ExecutionTyped, IdleJob
  <1>4. \A c \in Customers : Len(opps[c]) \in Nat  BY DEF TypeOK, DataTyped
  <1>5. \A c \in Customers : Len(opps[c]) <= Len(opps'[c]) /\ Len(opps'[c]) \in Nat  BY <1>4
  <1> QED  BY <1>1, <1>2, <1>3, <1>5, OneJobMoves DEF TypeOK

\* An exception that reached the task.
LEMMA RetryTyped ==
  ASSUME TypeOK, NEW j \in Jobs, RetryOrFail(j), Fault,
         UNCHANGED <<signals, recent, events, opps, feats, dismissals>>
  PROVE  TypeOK'
  <1> DEFINE m == IF job[j].retries < MaxRetries
                  THEN [status |-> "queued", retries |-> job[j].retries + 1]
                  ELSE [status |-> "failed", retries |-> job[j].retries]
  <1>1. job[j].retries \in 0..MaxRetries /\ MaxRetries \in Nat
    BY ConstantsAssumption, Busy DEF JobType
  <1>2. m \in JobType /\ m.status # "running"  BY <1>1 DEF JobType
  <1>3. ex' = [ex EXCEPT ![j] = IdleJob] /\ job' = [job EXCEPT ![j] = m]  BY DEF RetryOrFail
  <1> HIDE DEF m
  <1> QED  BY <1>2, <1>3, FaultTyped, JobEnds

\* An exception outside the loop.
LEMMA TypeJobFails ==
  ASSUME TypeOK, NEW j \in Jobs, JobFails(j)
  PROVE  TypeOK'
  BY RetryTyped DEF JobFails, db

\* A message whose execution ends without an exception.
LEMMA StatusSet ==
  ASSUME TypeOK, NEW j \in Jobs, NEW st \in {"queued", "done", "killed"},
         job' = [job EXCEPT ![j].status = st], ex' = [ex EXCEPT ![j] = IdleJob],
         UNCHANGED <<signals, recent, events, opps, feats, dismissals>>,
         faults' \in 0..MaxFaults
  PROVE  TypeOK'
  <1> DEFINE m == [job[j] EXCEPT !.status = st]
  <1>1. m \in JobType /\ m.status # "running"  BY Busy DEF JobType
  <1>2. job' = [job EXCEPT ![j] = m]  OBVIOUS
  <1> HIDE DEF m
  <1> QED  BY <1>1, <1>2, JobEnds

\* The end of the loop.
LEMMA TypeFinish ==
  ASSUME TypeOK, NEW j \in Jobs, Finish(j)
  PROVE  TypeOK'
  <1>1. UNCHANGED <<signals, recent, events, opps, feats, dismissals>>  BY DEF Finish, db
  <1>2. CASE Fault /\ RetryOrFail(j)  BY <1>1, <1>2, RetryTyped
  <1>3. CASE /\ ex' = [ex EXCEPT ![j] = IdleJob] /\ job' = [job EXCEPT ![j].status = "done"]
             /\ UNCHANGED faults
    <2>1. faults' \in 0..MaxFaults  BY <1>3 DEF TypeOK, DataTyped
    <2> QED  BY <1>1, <1>3, <2>1, StatusSet
  <1> QED  BY <1>2, <1>3 DEF Finish

\* The hard time limit, and a lost process.
LEMMA TypeKilled ==
  ASSUME TypeOK, NEW j \in Jobs, TimeLimit(j) \/ LoseWorker(j)
  PROVE  TypeOK'
  <1>1. faults' \in 0..MaxFaults  BY FaultTyped DEF TimeLimit, LoseWorker
  <1> QED  BY <1>1, StatusSet DEF TimeLimit, LoseWorker, db

\* A worker process takes the message.
LEMMA TypeStart ==
  ASSUME TypeOK, NEW j \in Jobs, Start(j)
  PROVE  TypeOK'
  <1>1. /\ job' = [job EXCEPT ![j].status = "running"]
        /\ ex' = [ex EXCEPT ![j] = [IdleJob EXCEPT !.pc = "fetch"]]
        /\ UNCHANGED <<signals, recent, events, opps, dismissals>>
    BY DEF Start, db
  <1>2. faults' \in 0..MaxFaults  BY FaultTyped DEF Start, TypeOK, DataTyped
  <1>3. feats' \in [Customers -> Vectors \cup {NoVector}]  BY DEF Start, TypeOK, DataTyped
  <1>4. DataTyped'  BY <1>1, <1>2, <1>3 DEF TypeOK, DataTyped
  <1> DEFINE x == [IdleJob EXCEPT !.pc = "fetch"]
             m == [job[j] EXCEPT !.status = "running"]
  <1>5. x \in ExecutionType /\ x.pc = "fetch" /\ x.use = "load"
    BY DEF IdleJob, ExecutionType, JobPcs
  <1>6. m \in JobType /\ m.status = "running"  BY Busy DEF JobType
  <1>7. ex' = [ex EXCEPT ![j] = x] /\ job' = [job EXCEPT ![j] = m]  BY <1>1
  <1> HIDE DEF x, m
  <1>8. /\ ex' \in [Jobs -> ExecutionType] /\ job' \in [Jobs -> JobType]
        /\ ex'[j] = x /\ job'[j] = m
        /\ \A k \in Jobs \ {j} : ex'[k] = ex[k] /\ job'[k] = job[k]
    BY <1>5, <1>6, <1>7 DEF TypeOK, JobsTyped
  <1>9. ExecutionTyped(j)'  BY <1>5, <1>6, <1>8 DEF ExecutionTyped
  <1>10. \A c \in Customers : Len(opps[c]) \in Nat  BY DEF TypeOK, DataTyped
  <1>11. \A c \in Customers : Len(opps[c]) <= Len(opps'[c]) /\ Len(opps'[c]) \in Nat
    BY <1>1, <1>10
  <1> QED  BY <1>4, <1>8, <1>9, <1>11, OneJobMoves DEF TypeOK

\* Executions stay typed when no execution moves and no row is lost.
LEMMA NobodyMoves ==
  ASSUME TypeOK, UNCHANGED <<job, ex>>,
         \A c \in Customers : Len(opps'[c]) = Len(opps[c])
  PROVE  JobsTyped'
  <1> SUFFICES ASSUME NEW j \in Jobs  PROVE ExecutionTyped(j)'
    BY DEF TypeOK, JobsTyped
  <1>1. ExecutionTyped(j)  BY Busy
  <1>2. ex[j].pc = "upsert" => Len(opps'[ex[j].cust]) = Len(opps[ex[j].cust])
    BY <1>1 DEF ExecutionTyped
  <1> QED  BY <1>1, <1>2 DEF ExecutionTyped

\* An opportunity is dismissed.
LEMMA DismissTyped ==
  ASSUME TypeOK, NEW c \in Customers, NEW i \in DOMAIN opps[c], Dismiss(c, i)
  PROVE  /\ opps' \in [Customers -> Seq(OppType)]
         /\ \A d \in Customers : Len(opps'[d]) = Len(opps[d])
  <1> DEFINE y == [opps[c][i] EXCEPT !.status = "DISMISSED"]
             z == [opps[c] EXCEPT ![i] = y]
  <1>1. opps[c] \in Seq(OppType) /\ i \in 1..Len(opps[c])  BY DEF TypeOK, DataTyped
  <1>2. opps[c][i] \in OppType  BY <1>1
  <1>3. y \in OppType  BY <1>2 DEF OppType
  <1>4. opps' = [opps EXCEPT ![c] = z]  BY DEF Dismiss
  <1> HIDE DEF y
  <1>5. z \in Seq(OppType) /\ Len(z) = Len(opps[c])  BY <1>1, <1>3, ExceptSeq
  <1> HIDE DEF z
  <1> QED  BY <1>4, <1>5 DEF TypeOK, DataTyped

\* What happens outside the jobs.
LEMMA TypeEnvironment ==
  ASSUME TypeOK, Environment
  PROVE  TypeOK'
  <1> SUFFICES ASSUME NEW c \in Customers,
                      \/ \E e \in EventTypes : Transact(c, e)
                      \/ LeaveWindow(c)
                      \/ Expire(c)
                      \/ \E i \in DOMAIN opps[c] : Dismiss(c, i)
               PROVE  TypeOK'
    BY DEF Environment
  <1>1. ASSUME NEW e \in EventTypes, Transact(c, e)  PROVE TypeOK'
    <2>1. signals' \in [Customers -> SUBSET EventTypes] /\ recent' \subseteq Customers
      BY <1>1 DEF Transact, TypeOK, DataTyped
    <2>2. DataTyped'  BY <1>1, <2>1 DEF Transact, TypeOK, DataTyped
    <2> QED  BY <1>1, <2>2, NobodyMoves DEF Transact, TypeOK
  <1>2. CASE LeaveWindow(c)
    <2>1. DataTyped'  BY <1>2 DEF LeaveWindow, TypeOK, DataTyped
    <2> QED  BY <1>2, <2>1, NobodyMoves DEF LeaveWindow, TypeOK
  <1>3. CASE Expire(c)
    <2>1. feats' \in [Customers -> Vectors \cup {NoVector}]
      BY <1>3 DEF Expire, TypeOK, DataTyped
    <2>2. DataTyped'  BY <1>3, <2>1 DEF Expire, db, TypeOK, DataTyped
    <2> QED  BY <1>3, <2>2, NobodyMoves DEF Expire, db, TypeOK
  <1>4. ASSUME NEW i \in DOMAIN opps[c], Dismiss(c, i)  PROVE TypeOK'
    <2>1. dismissals' \in 0..MaxDismissals
      BY <1>4, ConstantsAssumption DEF Dismiss, TypeOK, DataTyped
    <2>2. DataTyped'  BY <1>4, <2>1, DismissTyped DEF Dismiss, TypeOK, DataTyped
    <2> QED  BY <1>4, <2>2, DismissTyped, NobodyMoves DEF Dismiss, TypeOK
  <1> QED  BY <1>1, <1>2, <1>3, <1>4

\* The first state.
LEMMA TypeInit == Init => TypeOK
  <1> SUFFICES ASSUME Init  PROVE TypeOK  OBVIOUS
  <1> USE DEF Init
  <1>1. DataTyped  BY ConstantsAssumption DEF DataTyped, Vectors
  <1>2. ex \in [Jobs -> ExecutionType]  BY IdleJobTyped
  <1>3. job \in [Jobs -> JobType]  BY ConstantsAssumption DEF JobType
  <1>4. \A j \in Jobs : ExecutionTyped(j)  BY DEF ExecutionTyped, IdleJob
  <1> QED  BY <1>1, <1>2, <1>3, <1>4 DEF TypeOK, JobsTyped

\* Every step.
LEMMA TypeStep ==
  ASSUME TypeOK, [Next]_vars
  PROVE  TypeOK'
  <1>1. ASSUME NEW j \in Jobs, Start(j)  PROVE TypeOK'  BY <1>1, TypeStart
  <1>2. ASSUME NEW j \in Jobs, Advance(j)  PROVE TypeOK'
    BY <1>2, TypeFetch, TypePick, TypeFinish, TypeDetect, TypeScanNext, TypeCheckEvent,
       TypeInsertEvent, TypeInvalidate, TypeClearQueue, TypeGetFeatures, TypeComputeFeatures,
       TypeComputeBlank, TypeCacheFeatures, TypeReadTopEvent, TypeSelectOpp, TypeUpsert,
       TypeCustomerFails DEF Advance
  <1>3. ASSUME NEW j \in Jobs, Disturb(j)  PROVE TypeOK'
    BY <1>3, TypeJobFails, TypeInsertUnanswered, TypeUpsertUnanswered, TypeKilled DEF Disturb
  <1>4. CASE UNCHANGED vars
    <2>1. DataTyped'  BY <1>4 DEF vars, TypeOK, DataTyped
    <2> QED  BY <1>4, <2>1, NobodyMoves DEF vars, TypeOK
  <1> QED  BY <1>1, <1>2, <1>3, <1>4, TypeEnvironment DEF Next

\* The type invariant of the two jobs (event_scan.py, daily_scoring.py): rows,
\* vectors, messages and executions are what the code takes them for in every
\* reachable state.
THEOREM ScoringTypeCorrect == Spec => []TypeOK
  BY TypeInit, TypeStep, PTL DEF Spec

------------------------------------------------------------------------------
(* How many executions and rows there are.                                 *)

\* A step of j moves j alone, and only three of them lead to an insert.
LEMMA StepShape ==
  ASSUME TypeOK, NEW j \in Jobs, Start(j) \/ Advance(j) \/ Disturb(j)
  PROVE  /\ \A k \in Jobs \ {j} : ex'[k] = ex[k]
         /\ ex'[j].pc = "upsert" => SelectOpp(j)
         /\ ex'[j].pc = "insert" => CheckEvent(j)
         /\ ex[j].pc = "idle" => Start(j)
  <1> DEFINE Goal == /\ \A k \in Jobs \ {j} : ex'[k] = ex[k]
                     /\ ex'[j].pc = "upsert" => SelectOpp(j)
                     /\ ex'[j].pc = "insert" => CheckEvent(j)
                     /\ ex[j].pc = "idle" => Start(j)
  <1>1. ex \in [Jobs -> ExecutionType] /\ ex[j] \in ExecutionType  BY DEF TypeOK, JobsTyped
  <1>2. ASSUME NEW p \in {"fetch", "pick", "detect", "check", "insert", "invalidate", "get",
                         "compute", "cache", "event", "select", "upsert", "queue"},
               ex[j].pc = p,
               ex'[j].pc \notin {"upsert", "insert"}, \A k \in Jobs \ {j} : ex'[k] = ex[k]
        PROVE  Goal
    BY <1>2
  <1>3. ASSUME NEW s \in {"fresh", "open", "broken"}, GiveUp(j, s), ex[j].pc # "idle"
        PROVE  Goal
    BY <1>3, GiveUpTyped
  <1>4. ASSUME ex' = [ex EXCEPT ![j] = IdleJob], ex[j].pc # "idle"  PROVE Goal
    BY <1>1, <1>4 DEF IdleJob
  <1>5. ASSUME NEW v \in Vectors, ex[j].pc \in {"get", "cache"},
               ex' = [ex EXCEPT ![j] = Loaded(ex[j], v)]
        PROVE  Goal
    <2>1. Loaded(ex[j], v).pc \in {"event", "get", "select"}
      BY <1>1, <1>5, Busy, LoadedTyped DEF ExecutionTyped
    <2> QED  BY <1>1, <1>5, <2>1
  <1>6. CASE Start(j)  BY <1>1, <1>6 DEF Start, IdleJob
  <1>7. CASE Fetch(j)  BY <1>1, <1>7 DEF Fetch, ExecutionType
  <1>8. CASE \E c \in Customers : Pick(j, c)
    BY <1>1, <1>8 DEF Pick, ExecutionType
  <1>9. CASE Finish(j)  BY <1>4, <1>9 DEF Finish, RetryOrFail
  <1>10. CASE Detect(j)  BY <1>1, <1>10 DEF Detect, ExecutionType
  <1>11. CASE ScanNext(j)  BY <1>1, <1>3, <1>11 DEF ScanNext, ExecutionType
  <1>12. CASE CheckEvent(j)
    <2>1. PICK e \in FirstFound(j) :
            ex' = [ex EXCEPT ![j].session = "open", ![j].found = @ \ {e}, ![j].ev = e,
                             ![j].pc = IF HasEvent(ex[j].cust, e) THEN "check" ELSE "insert"]
      BY <1>12 DEF CheckEvent
    <2>2. ex'[j].pc # "upsert" /\ \A k \in Jobs \ {j} : ex'[k] = ex[k]
      BY <1>1, <2>1 DEF ExecutionType
    <2> QED  BY <1>12, <2>2 DEF CheckEvent
  <1>13. CASE InsertEvent(j)  BY <1>1, <1>13 DEF InsertEvent, ExecutionType
  <1>14. CASE Invalidate(j)  BY <1>1, <1>14 DEF Invalidate, ExecutionType
  <1>15. CASE ClearQueue(j)
    <2>1. CASE ex' = [ex EXCEPT ![j].pc = "check"]
      BY <1>1, <1>15, <2>1 DEF ClearQueue, ExecutionType
    <2>2. CASE GiveUp(j, ex[j].session)  BY <1>1, <1>3, <1>15, <2>2 DEF ClearQueue, ExecutionType
    <2> QED  BY <1>15, <2>1, <2>2 DEF ClearQueue
  <1>16. CASE GetFeatures(j)
    <2>1. ex[j].pc = "get" /\ ex[j].cust \in Customers
      BY <1>16, Busy DEF GetFeatures, ExecutionTyped
    <2>2. CASE ex' = [ex EXCEPT ![j].pc = "compute"]
      BY <1>1, <2>1, <2>2 DEF ExecutionType
    <2>3. CASE /\ feats[ex[j].cust] # NoVector
               /\ ex' = [ex EXCEPT ![j] = Loaded(ex[j], feats[ex[j].cust])]
      <3>1. feats[ex[j].cust] \in Vectors  BY <2>1, <2>3 DEF TypeOK, DataTyped
      <3> QED  BY <1>5, <2>1, <2>3, <3>1
    <2> QED  BY <1>16, <2>2, <2>3 DEF GetFeatures
  <1>17. CASE ComputeFeatures(j)  BY <1>1, <1>17 DEF ComputeFeatures, ExecutionType
  <1>18. CASE ComputeBlank(j)
    <2>1. ex'[j].pc = "cache" /\ \A k \in Jobs \ {j} : ex'[k] = ex[k]
      BY <1>1, <1>18 DEF ComputeBlank, ExecutionType
    <2> QED  BY <1>18, <2>1 DEF ComputeBlank
  <1>19. CASE CacheFeatures(j)
    <2>1. ex[j].made \in Vectors  BY <1>19, Busy DEF CacheFeatures, ExecutionTyped
    <2> QED  BY <1>5, <1>19, <2>1 DEF CacheFeatures
  <1>20. CASE ReadTopEvent(j)  BY <1>1, <1>20 DEF ReadTopEvent, ExecutionType
  <1>21. CASE SelectOpp(j)
    <2>1. ex'[j].pc = "upsert" /\ \A k \in Jobs \ {j} : ex'[k] = ex[k]
      BY <1>1, <1>21 DEF SelectOpp, ExecutionType
    <2> QED  BY <1>21, <2>1 DEF SelectOpp
  <1>22. CASE Upsert(j)
    <2>1. CASE j \in Scans  BY <1>1, <1>22, <2>1 DEF Upsert, ExecutionType
    <2>2. CASE j \notin Scans  BY <1>3, <1>22, <2>2 DEF Upsert
    <2> QED  BY <2>1, <2>2
  <1>23. CASE CustomerFails(j)
    <2>1. PICK s \in {"fresh", "open", "broken"} : GiveUp(j, s)
      BY <1>23 DEF CustomerFails, AfterFailure
    <2> QED  BY <1>3, <1>23, <2>1 DEF CustomerFails, DbCalls
  <1>24. CASE Disturb(j)
    BY <1>3, <1>4, <1>24
    DEF Disturb, JobFails, RetryOrFail, InsertUnanswered, UpsertUnanswered, TimeLimit, LoseWorker
  <1> QED
    BY <1>6, <1>7, <1>8, <1>9, <1>10, <1>11, <1>12, <1>13, <1>14, <1>15, <1>16, <1>17, <1>18,
       <1>19, <1>20, <1>21, <1>22, <1>23, <1>24 DEF Advance

\* There are no more executions than worker processes.
WorkersBounded == Cardinality(Running) <= Slots

\* A subset is no larger.
LEMMA NoLarger ==
  ASSUME NEW S, NEW T, IsFiniteSet(S), T \subseteq S
  PROVE  /\ IsFiniteSet(T)
         /\ Cardinality(T) \in Nat /\ Cardinality(S) \in Nat
         /\ Cardinality(T) <= Cardinality(S)
  BY FS_Subset, FS_CardinalityType

\* One element adds at most one.
LEMMA OneMore ==
  ASSUME NEW S, NEW x, IsFiniteSet(S)
  PROVE  /\ IsFiniteSet(S \cup {x})
         /\ Cardinality(S) \in Nat /\ Cardinality(S \cup {x}) \in Nat
         /\ Cardinality(S \cup {x}) <= Cardinality(S) + 1
  <1>1. IsFiniteSet(S \cup {x})  BY FS_AddElement
  <1>2. Cardinality(S) \in Nat /\ Cardinality(S \cup {x}) \in Nat
    BY <1>1, FS_CardinalityType
  <1>3. \/ Cardinality(S \cup {x}) = Cardinality(S)
        \/ Cardinality(S \cup {x}) = Cardinality(S) + 1
    BY FS_AddElement
  <1> QED  BY <1>1, <1>2, <1>3

\* Worker processes take one message at a time.
LEMMA WorkersStep ==
  ASSUME TypeOK, WorkersBounded, [Next]_vars
  PROVE  WorkersBounded'
  <1>1. IsFiniteSet(Running) /\ Slots \in Nat
    BY ConstantsAssumption, NoLarger DEF Running
  <1>2. ASSUME Running' \subseteq Running  PROVE WorkersBounded'
    BY <1>1, <1>2, NoLarger DEF WorkersBounded
  <1>3. ASSUME NEW j \in Jobs, Start(j)  PROVE WorkersBounded'
    <2>1. Running' \subseteq Running \cup {j}  BY <1>3, StepShape DEF Running
    <2>2. Cardinality(Running) < Slots  BY <1>3 DEF Start
    <2>3. /\ IsFiniteSet(Running \cup {j}) /\ Cardinality(Running) \in Nat
          /\ Cardinality(Running \cup {j}) <= Cardinality(Running) + 1
      BY <1>1, OneMore
    <2>4. /\ Cardinality(Running') <= Cardinality(Running \cup {j})
          /\ Cardinality(Running') \in Nat /\ Cardinality(Running \cup {j}) \in Nat
      BY <2>1, <2>3, NoLarger
    <2> QED  BY <1>1, <2>2, <2>3, <2>4 DEF WorkersBounded
  <1>4. ASSUME NEW j \in Jobs, Advance(j) \/ Disturb(j)  PROVE WorkersBounded'
    <2>1. CASE Start(j)  BY <1>3, <2>1
    <2>2. CASE ~Start(j)
      <3>1. j \in Running /\ \A k \in Jobs \ {j} : ex'[k] = ex[k]
        BY <1>4, <2>2, StepShape DEF Running
      <3>2. Running' \subseteq Running  BY <3>1 DEF Running
      <3> QED  BY <1>2, <3>2
    <2> QED  BY <2>1, <2>2
  <1>5. CASE Environment
    <2>1. ex' = ex  BY <1>5 DEF Environment, Transact, LeaveWindow, Expire, Dismiss
    <2> QED  BY <1>2, <2>1 DEF Running
  <1>6. CASE UNCHANGED vars  BY <1>2, <1>6 DEF Running, vars
  <1> QED  BY <1>3, <1>4, <1>5, <1>6 DEF Next

\* What NewOpportunitiesBounded says of one customer.
OppBound(c) == Cardinality(NewOpps(c)) + Cardinality(InsertingOpp(c)) <= Slots

\* The sets it counts are finite.
LEMMA OppsFinite ==
  ASSUME TypeOK, NEW c \in Customers
  PROVE  /\ opps[c] \in Seq(OppType) /\ DOMAIN opps[c] = 1..Len(opps[c]) /\ Len(opps[c]) \in Nat
         /\ IsFiniteSet(NewOpps(c)) /\ Cardinality(NewOpps(c)) \in Nat
         /\ IsFiniteSet(InsertingOpp(c)) /\ Cardinality(InsertingOpp(c)) \in Nat
  <1>1. opps[c] \in Seq(OppType)  BY DEF TypeOK, DataTyped
  <1>2. DOMAIN opps[c] = 1..Len(opps[c]) /\ Len(opps[c]) \in Nat  BY <1>1
  <1>3. IsFiniteSet(1..Len(opps[c]))  BY <1>2, FS_Interval
  <1>4. NewOpps(c) \subseteq 1..Len(opps[c])  BY <1>2 DEF NewOpps
  <1>5. InsertingOpp(c) \subseteq Jobs  BY DEF InsertingOpp
  <1> QED  BY <1>1, <1>2, <1>3, <1>4, <1>5, ConstantsAssumption, NoLarger

\* No row and no insert is added.
LEMMA OppBoundKept ==
  ASSUME TypeOK, NEW c \in Customers, OppBound(c),
         NewOpps(c)' \subseteq NewOpps(c), InsertingOpp(c)' \subseteq InsertingOpp(c)
  PROVE  OppBound(c)'
  <1>1. /\ Cardinality(NewOpps(c)') \in Nat /\ Cardinality(NewOpps(c)) \in Nat
        /\ Cardinality(NewOpps(c)') <= Cardinality(NewOpps(c))
    BY OppsFinite, NoLarger
  <1>2. /\ Cardinality(InsertingOpp(c)') \in Nat /\ Cardinality(InsertingOpp(c)) \in Nat
        /\ Cardinality(InsertingOpp(c)') <= Cardinality(InsertingOpp(c))
    BY OppsFinite, NoLarger
  <1> QED  BY <1>1, <1>2, ConstantsAssumption DEF OppBound

\* An execution that finds no active opportunity is one of those at work.
LEMMA OppBoundSelect ==
  ASSUME TypeOK, NEW j \in Jobs, SelectOpp(j), WorkersBounded', NEW c \in Customers, OppBound(c)
  PROVE  OppBound(c)'
  <1>1. /\ \A k \in Jobs \ {j} : ex'[k] = ex[k]
        /\ opps' = opps
        /\ ex[j] \in ExecutionType
    BY StepShape, Busy DEF Advance, SelectOpp, db
  <1>2. NewOpps(c)' = NewOpps(c)  BY <1>1 DEF NewOpps
  <1> DEFINE d == ex[j].cust
  <1>3. PICK i \in IF NewOpps(d) = {} THEN {0} ELSE NewOpps(d) :
          ex' = [ex EXCEPT ![j].pc = "upsert", ![j].opp = i, ![j].session = "open"]
    BY DEF SelectOpp
  <1>4. ex'[j].cust = d /\ ex'[j].opp = i
    BY <1>1, <1>3 DEF TypeOK, JobsTyped, ExecutionType
  <1>5. d \in Customers  BY Busy DEF SelectOpp, ExecutionTyped
  <1>6. CASE c = d /\ NewOpps(d) = {}
    <2>1. InsertingOpp(c)' \subseteq Running'  BY DEF InsertingOpp, Running
    <2>2. IsFiniteSet(Running')  BY ConstantsAssumption, NoLarger DEF Running
    <2>3. Cardinality(NewOpps(c)') = 0  BY <1>2, <1>6, FS_EmptySet
    <2>4. /\ Cardinality(InsertingOpp(c)') <= Cardinality(Running')
          /\ Cardinality(InsertingOpp(c)') \in Nat /\ Cardinality(Running') \in Nat
      BY <2>1, <2>2, NoLarger
    <2> QED  BY <2>3, <2>4, ConstantsAssumption DEF OppBound, WorkersBounded
  <1>7. CASE c # d \/ NewOpps(d) # {}
    <2>1. NewOpps(d) # {} => i # 0
      <3>1. \A n \in NewOpps(d) : n # 0
        <4>1. DOMAIN opps[d] = 1..Len(opps[d]) /\ Len(opps[d]) \in Nat  BY <1>5, OppsFinite
        <4> QED  BY <4>1 DEF NewOpps
      <3> QED  BY <3>1
    <2>2. j \notin InsertingOpp(c)'  BY <1>4, <1>7, <2>1 DEF InsertingOpp
    <2>3. InsertingOpp(c)' \subseteq InsertingOpp(c)  BY <1>1, <2>2 DEF InsertingOpp
    <2> QED  BY <1>2, <2>3, OppBoundKept
  <1> QED  BY <1>6, <1>7

\* A row inserted is one insert less to come.
LEMMA OppBoundUpsert ==
  ASSUME TypeOK, NEW j \in Jobs, NEW c \in Customers, OppBound(c), ex[j].pc = "upsert",
         opps' = [opps EXCEPT ![ex[j].cust] = Upserted(j)],
         ex'[j].pc # "upsert", \A k \in Jobs \ {j} : ex'[k] = ex[k]
  PROVE  OppBound(c)'
  <1> DEFINE d == ex[j].cust
             i == ex[j].opp
             new == [status |-> "NEW", product |-> ex[j].top, vec |-> ex[j].vec]
  <1>1. d \in Customers /\ i \in 0..Len(opps[d])  BY Busy DEF ExecutionTyped
  <1>2. InsertingOpp(c)' \subseteq InsertingOpp(c) \ {j}  BY DEF InsertingOpp
  <1>3. opps \in [Customers -> Seq(OppType)]  BY DEF TypeOK, DataTyped
  <1>4. CASE c # d
    <2>1. opps'[c] = opps[c]  BY <1>3, <1>4
    <2> QED  BY <1>2, <2>1, OppBoundKept DEF NewOpps
  <1>5. CASE c = d /\ i # 0
    <2>1. opps[c] \in Seq(OppType) /\ i \in 1..Len(opps[c]) /\ Len(opps[c]) \in Nat
      BY <1>1, <1>5, OppsFinite
    <2>2. opps[c][i] \in OppType  BY <2>1
    <2> DEFINE y == [opps[c][i] EXCEPT !.vec = ex[j].vec]
    <2>3. y.status = opps[c][i].status  BY <2>2 DEF OppType
    <2>4. opps'[c] = [opps[c] EXCEPT ![i] = y]  BY <1>1, <1>3, <1>5 DEF Upserted
    <2> HIDE DEF y
    <2>5. NewOpps(c)' \subseteq NewOpps(c)  BY <2>1, <2>3, <2>4 DEF NewOpps
    <2> QED  BY <1>2, <2>5, OppBoundKept
  <1>6. CASE c = d /\ i = 0
    <2>1. opps[c] \in Seq(OppType) /\ DOMAIN opps[c] = 1..Len(opps[c]) /\ Len(opps[c]) \in Nat
      BY OppsFinite
    <2>2. opps'[c] = Append(opps[c], new)  BY <1>1, <1>3, <1>6 DEF Upserted
    <2> DEFINE n == Len(opps[c]) + 1
    <2>3. NewOpps(c)' \subseteq NewOpps(c) \cup {n}
      <3>1. DOMAIN opps'[c] = 1..n  BY <2>1, <2>2
      <3>2. \A m \in 1..Len(opps[c]) : opps'[c][m] = opps[c][m]  BY <2>1, <2>2
      <3> QED  BY <2>1, <3>1, <3>2 DEF NewOpps
    <2>4. j \in InsertingOpp(c)  BY <1>6 DEF InsertingOpp
    <2>5. /\ IsFiniteSet(NewOpps(c)) /\ Cardinality(NewOpps(c)) \in Nat
          /\ IsFiniteSet(InsertingOpp(c)) /\ Cardinality(InsertingOpp(c)) \in Nat
      BY OppsFinite
    <2>6. /\ IsFiniteSet(NewOpps(c) \cup {n})
          /\ Cardinality(NewOpps(c) \cup {n}) <= Cardinality(NewOpps(c)) + 1
      BY <2>5, OneMore
    <2>7. /\ IsFiniteSet(InsertingOpp(c) \ {j})
          /\ Cardinality(InsertingOpp(c) \ {j}) = Cardinality(InsertingOpp(c)) - 1
      BY <2>4, <2>5, FS_RemoveElement
    <2>8. /\ Cardinality(NewOpps(c)') <= Cardinality(NewOpps(c) \cup {n})
          /\ Cardinality(NewOpps(c)') \in Nat /\ Cardinality(NewOpps(c) \cup {n}) \in Nat
      BY <2>3, <2>6, NoLarger
    <2>9. /\ Cardinality(InsertingOpp(c)') <= Cardinality(InsertingOpp(c) \ {j})
          /\ Cardinality(InsertingOpp(c)') \in Nat
      BY <1>2, <2>7, NoLarger
    <2> QED  BY <2>5, <2>6, <2>7, <2>8, <2>9, ConstantsAssumption DEF OppBound
  <1> QED  BY <1>4, <1>5, <1>6

\* Only the two ends of an upsert, and an RM, change an opportunity.
LEMMA WhoWrites ==
  ASSUME NEW j \in Jobs, Start(j) \/ Advance(j) \/ Disturb(j)
  PROVE  /\ Upsert(j) \/ UpsertUnanswered(j) \/ opps' = opps
         /\ InsertEvent(j) \/ InsertUnanswered(j) \/ events' = events
         /\ dismissals' = dismissals
  <1>1. CASE Start(j)  BY <1>1 DEF Start, db
  <1>2. CASE Disturb(j)
    BY <1>2 DEF Disturb, JobFails, InsertUnanswered, UpsertUnanswered, TimeLimit, LoseWorker, db
  <1>3. CASE Advance(j)
    BY <1>3 DEF Advance, Fetch, Pick, Finish, Detect, ScanNext, CheckEvent, InsertEvent,
                Invalidate, ClearQueue, GetFeatures, ComputeFeatures, ComputeBlank,
                CacheFeatures, ReadTopEvent, SelectOpp, Upsert, CustomerFails, db
  <1> QED  BY <1>1, <1>2, <1>3

\* Every step keeps the bound of every customer.
LEMMA OppBoundStep ==
  ASSUME TypeOK, WorkersBounded, [Next]_vars, NEW c \in Customers, OppBound(c)
  PROVE  OppBound(c)'
  <1>1. TypeOK' /\ WorkersBounded'  BY TypeStep, WorkersStep
  <1>2. ASSUME NEW j \in Jobs, Start(j) \/ Advance(j) \/ Disturb(j)  PROVE OppBound(c)'
    <2>1. CASE SelectOpp(j)  BY <1>1, <2>1, OppBoundSelect
    <2>2. CASE Upsert(j) \/ UpsertUnanswered(j)
      <3>1. /\ ex[j].pc = "upsert" /\ opps' = [opps EXCEPT ![ex[j].cust] = Upserted(j)]
        BY <2>2 DEF Upsert, UpsertUnanswered
      <3>2. ex'[j].pc # "upsert"  BY <1>2, <3>1, StepShape DEF SelectOpp
      <3> QED  BY <1>2, <3>1, <3>2, StepShape, OppBoundUpsert
    <2>3. CASE ~SelectOpp(j) /\ ~Upsert(j) /\ ~UpsertUnanswered(j)
      <3>1. opps' = opps  BY <1>2, <2>3, WhoWrites
      <3>2. ex'[j].pc # "upsert" /\ \A k \in Jobs \ {j} : ex'[k] = ex[k]
        BY <1>2, <2>3, StepShape
      <3>3. InsertingOpp(c)' \subseteq InsertingOpp(c)  BY <3>2 DEF InsertingOpp
      <3>4. NewOpps(c)' \subseteq NewOpps(c)  BY <3>1 DEF NewOpps
      <3> QED  BY <3>3, <3>4, OppBoundKept
    <2> QED  BY <2>1, <2>2, <2>3
  <1>3. ASSUME NEW d \in Customers, NEW i \in DOMAIN opps[d], Dismiss(d, i)
        PROVE  OppBound(c)'
    <2>1. InsertingOpp(c)' \subseteq InsertingOpp(c)  BY <1>3 DEF Dismiss, InsertingOpp
    <2>2. NewOpps(c)' \subseteq NewOpps(c)
      <3>1. opps \in [Customers -> Seq(OppType)]  BY DEF TypeOK, DataTyped
      <3>2. CASE c # d
        <4>1. opps'[c] = opps[c]  BY <1>3, <3>1, <3>2 DEF Dismiss
        <4> QED  BY <4>1 DEF NewOpps
      <3>3. CASE c = d
        <4>1. opps[c] \in Seq(OppType) /\ i \in 1..Len(opps[c])  BY <3>1, <3>3
        <4>2. opps[c][i] \in OppType  BY <4>1
        <4> DEFINE y == [opps[c][i] EXCEPT !.status = "DISMISSED"]
        <4>3. y.status = "DISMISSED"  BY <4>2 DEF OppType
        <4>4. opps'[c] = [opps[c] EXCEPT ![i] = y]  BY <1>3, <3>1, <3>3 DEF Dismiss
        <4> HIDE DEF y
        <4> QED  BY <4>1, <4>3, <4>4 DEF NewOpps
      <3> QED  BY <3>2, <3>3
    <2> QED  BY <2>1, <2>2, OppBoundKept
  <1>4. ASSUME UNCHANGED <<opps, ex>>  PROVE OppBound(c)'
    <2>1. InsertingOpp(c)' = InsertingOpp(c)  BY <1>4 DEF InsertingOpp
    <2>2. NewOpps(c)' = NewOpps(c)  BY <1>4 DEF NewOpps
    <2> QED  BY <2>1, <2>2, OppBoundKept
  <1>5. CASE Environment
    BY <1>3, <1>4, <1>5 DEF Environment, Transact, LeaveWindow, Expire, db
  <1> QED  BY <1>2, <1>4, <1>5 DEF Next, vars

\* NewOpportunitiesBounded, made inductive: an insert is on its way only in an
\* execution, and there are no more of those than worker processes.
OppInv == TypeOK /\ WorkersBounded /\ \A c \in Customers : OppBound(c)

\* No execution is under way at the start.
LEMMA WorkersInit == Init => WorkersBounded
  <1> SUFFICES ASSUME Init  PROVE WorkersBounded  OBVIOUS
  <1>1. Running = {}  BY DEF Running, Init, IdleJob
  <1>2. Cardinality({}) = 0  BY FS_EmptySet
  <1> QED  BY <1>1, <1>2, ConstantsAssumption DEF WorkersBounded

\* _upsert_opportunity (daily_scoring.py:242-268) leaves a customer at most as
\* many NEW opportunities as there are worker processes, whatever jobs run,
\* fail, are retried or redelivered.
THEOREM NewOpportunitiesAreBounded == Spec => []NewOpportunitiesBounded
  <1>1. Init => OppInv
    <2> SUFFICES ASSUME Init, NEW c \in Customers  PROVE OppBound(c)
      BY TypeInit, WorkersInit DEF OppInv
    <2>1. NewOpps(c) = {} /\ InsertingOpp(c) = {}
      BY DEF Init, NewOpps, InsertingOpp, IdleJob
    <2>2. Cardinality({}) = 0  BY FS_EmptySet
    <2> QED  BY <2>1, <2>2, ConstantsAssumption DEF OppBound
  <1>2. OppInv /\ [Next]_vars => OppInv'
    BY TypeStep, WorkersStep, OppBoundStep DEF OppInv
  <1>3. OppInv => NewOpportunitiesBounded
    BY DEF OppInv, OppBound, NewOpportunitiesBounded
  <1> QED  BY <1>1, <1>2, <1>3, PTL DEF Spec

------------------------------------------------------------------------------
(* The rows of an event.                                                   *)

\* The rows of event e of customer c, and what EventRowsBounded says of them.
RowsOf(c, e) == {i \in DOMAIN events[c] : events[c][i] = e}
RowBound(c, e) == Cardinality(RowsOf(c, e)) + Cardinality(InsertingEvent(c, e)) <= Slots

\* The sets it counts are finite.
LEMMA RowsFinite ==
  ASSUME TypeOK, NEW c \in Customers, NEW e \in EventTypes
  PROVE  /\ events[c] \in Seq(EventTypes) /\ DOMAIN events[c] = 1..Len(events[c])
         /\ Len(events[c]) \in Nat
         /\ IsFiniteSet(RowsOf(c, e)) /\ Cardinality(RowsOf(c, e)) \in Nat
         /\ IsFiniteSet(InsertingEvent(c, e)) /\ Cardinality(InsertingEvent(c, e)) \in Nat
  <1>1. events[c] \in Seq(EventTypes)  BY DEF TypeOK, DataTyped
  <1>2. DOMAIN events[c] = 1..Len(events[c]) /\ Len(events[c]) \in Nat  BY <1>1
  <1>3. IsFiniteSet(1..Len(events[c]))  BY <1>2, FS_Interval
  <1>4. RowsOf(c, e) \subseteq 1..Len(events[c])  BY <1>2 DEF RowsOf
  <1>5. InsertingEvent(c, e) \subseteq Jobs  BY DEF InsertingEvent
  <1> QED  BY <1>1, <1>2, <1>3, <1>4, <1>5, ConstantsAssumption, NoLarger

\* No row and no insert is added.
LEMMA RowBoundKept ==
  ASSUME TypeOK, NEW c \in Customers, NEW e \in EventTypes, RowBound(c, e),
         RowsOf(c, e)' \subseteq RowsOf(c, e), InsertingEvent(c, e)' \subseteq InsertingEvent(c, e)
  PROVE  RowBound(c, e)'
  <1>1. /\ Cardinality(RowsOf(c, e)') \in Nat /\ Cardinality(RowsOf(c, e)) \in Nat
        /\ Cardinality(RowsOf(c, e)') <= Cardinality(RowsOf(c, e))
    BY RowsFinite, NoLarger
  <1>2. /\ Cardinality(InsertingEvent(c, e)') \in Nat /\ Cardinality(InsertingEvent(c, e)) \in Nat
        /\ Cardinality(InsertingEvent(c, e)') <= Cardinality(InsertingEvent(c, e))
    BY RowsFinite, NoLarger
  <1> QED  BY <1>1, <1>2, ConstantsAssumption DEF RowBound

\* An execution goes on to insert an event only if it has seen no row of it.
LEMMA RowBoundCheck ==
  ASSUME TypeOK, NEW j \in Jobs, CheckEvent(j), WorkersBounded',
         NEW c \in Customers, NEW e \in EventTypes, RowBound(c, e)
  PROVE  RowBound(c, e)'
  <1>1. /\ \A k \in Jobs \ {j} : ex'[k] = ex[k]
        /\ events' = events
        /\ ex[j] \in ExecutionType
    BY StepShape, Busy DEF Advance, CheckEvent, db
  <1>2. RowsOf(c, e)' = RowsOf(c, e)  BY <1>1 DEF RowsOf
  <1> DEFINE d == ex[j].cust
  <1>3. PICK f \in FirstFound(j) :
          ex' = [ex EXCEPT ![j].session = "open", ![j].found = @ \ {f}, ![j].ev = f,
                           ![j].pc = IF HasEvent(d, f) THEN "check" ELSE "insert"]
    BY DEF CheckEvent
  <1>4. /\ ex'[j].cust = d /\ ex'[j].ev = f
        /\ ex'[j].pc = "insert" => ~HasEvent(d, f)
    BY <1>1, <1>3 DEF TypeOK, JobsTyped, ExecutionType
  <1>5. CASE c = d /\ e = f /\ ~HasEvent(d, f)
    <2>1. RowsOf(c, e) = {}  BY <1>5 DEF RowsOf, HasEvent
    <2>2. InsertingEvent(c, e)' \subseteq Running'  BY DEF InsertingEvent, Running
    <2>3. IsFiniteSet(Running')  BY ConstantsAssumption, NoLarger DEF Running
    <2>4. Cardinality(RowsOf(c, e)') = 0  BY <1>2, <2>1, FS_EmptySet
    <2>5. /\ Cardinality(InsertingEvent(c, e)') <= Cardinality(Running')
          /\ Cardinality(InsertingEvent(c, e)') \in Nat /\ Cardinality(Running') \in Nat
      BY <2>2, <2>3, NoLarger
    <2> QED  BY <2>4, <2>5, ConstantsAssumption DEF RowBound, WorkersBounded
  <1>6. CASE c # d \/ e # f \/ HasEvent(d, f)
    <2>1. j \notin InsertingEvent(c, e)'  BY <1>4, <1>6 DEF InsertingEvent
    <2>2. InsertingEvent(c, e)' \subseteq InsertingEvent(c, e)  BY <1>1, <2>1 DEF InsertingEvent
    <2> QED  BY <1>2, <2>2, RowBoundKept
  <1> QED  BY <1>5, <1>6

\* A row inserted is one insert less to come.
LEMMA RowBoundInsert ==
  ASSUME TypeOK, NEW j \in Jobs, NEW c \in Customers, NEW e \in EventTypes, RowBound(c, e),
         ex[j].pc = "insert", events' = [events EXCEPT ![ex[j].cust] = Append(@, ex[j].ev)],
         ex'[j].pc # "insert", \A k \in Jobs \ {j} : ex'[k] = ex[k]
  PROVE  RowBound(c, e)'
  <1> DEFINE d == ex[j].cust
             f == ex[j].ev
             n == Len(events[c]) + 1
  <1>1. d \in Customers /\ f \in EventTypes  BY Busy DEF ExecutionTyped
  <1>2. InsertingEvent(c, e)' \subseteq InsertingEvent(c, e) \ {j}  BY DEF InsertingEvent
  <1>3. events \in [Customers -> Seq(EventTypes)]  BY DEF TypeOK, DataTyped
  <1>4. /\ events[c] \in Seq(EventTypes) /\ DOMAIN events[c] = 1..Len(events[c])
        /\ Len(events[c]) \in Nat
        /\ IsFiniteSet(RowsOf(c, e)) /\ Cardinality(RowsOf(c, e)) \in Nat
        /\ IsFiniteSet(InsertingEvent(c, e)) /\ Cardinality(InsertingEvent(c, e)) \in Nat
    BY RowsFinite
  <1>5. CASE c # d
    <2>1. events'[c] = events[c]  BY <1>3, <1>5
    <2> QED  BY <1>2, <2>1, RowBoundKept DEF RowsOf
  <1>6. ASSUME c = d
        PROVE  /\ DOMAIN events'[c] = 1..n /\ events'[c][n] = f
               /\ \A m \in 1..Len(events[c]) : events'[c][m] = events[c][m]
    <2>1. events'[c] = Append(events[c], f)  BY <1>1, <1>3, <1>6
    <2> HIDE DEF f
    <2> QED  BY <1>4, <2>1
  <1>7. CASE c = d /\ e # f
    <2>1. RowsOf(c, e)' \subseteq RowsOf(c, e)  BY <1>4, <1>6, <1>7 DEF RowsOf
    <2> QED  BY <1>2, <2>1, RowBoundKept
  <1>8. CASE c = d /\ e = f
    <2>1. RowsOf(c, e)' \subseteq RowsOf(c, e) \cup {n}  BY <1>4, <1>6, <1>8 DEF RowsOf
    <2>2. j \in InsertingEvent(c, e)  BY <1>8 DEF InsertingEvent
    <2>3. /\ IsFiniteSet(RowsOf(c, e) \cup {n})
          /\ Cardinality(RowsOf(c, e) \cup {n}) <= Cardinality(RowsOf(c, e)) + 1
      BY <1>4, OneMore
    <2>4. /\ IsFiniteSet(InsertingEvent(c, e) \ {j})
          /\ Cardinality(InsertingEvent(c, e) \ {j}) = Cardinality(InsertingEvent(c, e)) - 1
      BY <1>4, <2>2, FS_RemoveElement
    <2>5. /\ Cardinality(RowsOf(c, e)') <= Cardinality(RowsOf(c, e) \cup {n})
          /\ Cardinality(RowsOf(c, e)') \in Nat /\ Cardinality(RowsOf(c, e) \cup {n}) \in Nat
      BY <2>1, <2>3, NoLarger
    <2>6. /\ Cardinality(InsertingEvent(c, e)') <= Cardinality(InsertingEvent(c, e) \ {j})
          /\ Cardinality(InsertingEvent(c, e)') \in Nat
      BY <1>2, <2>4, NoLarger
    <2> QED  BY <1>4, <2>3, <2>4, <2>5, <2>6, ConstantsAssumption DEF RowBound
  <1> QED  BY <1>5, <1>7, <1>8

\* Every step keeps the bound of every event.
LEMMA RowBoundStep ==
  ASSUME TypeOK, WorkersBounded, [Next]_vars,
         NEW c \in Customers, NEW e \in EventTypes, RowBound(c, e)
  PROVE  RowBound(c, e)'
  <1>1. TypeOK' /\ WorkersBounded'  BY TypeStep, WorkersStep
  <1>2. ASSUME NEW j \in Jobs, Start(j) \/ Advance(j) \/ Disturb(j)  PROVE RowBound(c, e)'
    <2>1. CASE CheckEvent(j)  BY <1>1, <2>1, RowBoundCheck
    <2>2. CASE InsertEvent(j) \/ InsertUnanswered(j)
      <3>1. /\ ex[j].pc = "insert"
            /\ events' = [events EXCEPT ![ex[j].cust] = Append(@, ex[j].ev)]
        BY <2>2 DEF InsertEvent, InsertUnanswered
      <3>2. ex'[j].pc # "insert"  BY <1>2, <3>1, StepShape DEF CheckEvent
      <3> QED  BY <1>2, <3>1, <3>2, StepShape, RowBoundInsert
    <2>3. CASE ~CheckEvent(j) /\ ~InsertEvent(j) /\ ~InsertUnanswered(j)
      <3>1. events' = events  BY <1>2, <2>3, WhoWrites
      <3>2. ex'[j].pc # "insert" /\ \A k \in Jobs \ {j} : ex'[k] = ex[k]
        BY <1>2, <2>3, StepShape
      <3>3. InsertingEvent(c, e)' \subseteq InsertingEvent(c, e)  BY <3>2 DEF InsertingEvent
      <3>4. RowsOf(c, e)' \subseteq RowsOf(c, e)  BY <3>1 DEF RowsOf
      <3> QED  BY <3>3, <3>4, RowBoundKept
    <2> QED  BY <2>1, <2>2, <2>3
  <1>3. ASSUME UNCHANGED <<events, ex>>  PROVE RowBound(c, e)'
    <2>1. InsertingEvent(c, e)' = InsertingEvent(c, e)  BY <1>3 DEF InsertingEvent
    <2>2. RowsOf(c, e)' = RowsOf(c, e)  BY <1>3 DEF RowsOf
    <2> QED  BY <2>1, <2>2, RowBoundKept
  <1>4. CASE Environment
    BY <1>3, <1>4 DEF Environment, Transact, LeaveWindow, Expire, Dismiss, db
  <1> QED  BY <1>2, <1>3, <1>4 DEF Next, vars

\* EventRowsBounded, made inductive in the same way.
RowInv ==
  TypeOK /\ WorkersBounded /\ \A c \in Customers, e \in EventTypes : RowBound(c, e)

\* The check of event_scan.py:165-173 and the insert of :176-185 leave an event
\* at most as many rows as there are worker processes.
THEOREM EventRowsAreBounded == Spec => []EventRowsBounded
  <1>1. Init => RowInv
    <2> SUFFICES ASSUME Init, NEW c \in Customers, NEW e \in EventTypes  PROVE RowBound(c, e)
      BY TypeInit, WorkersInit DEF RowInv
    <2>1. RowsOf(c, e) = {} /\ InsertingEvent(c, e) = {}
      BY DEF Init, RowsOf, InsertingEvent, IdleJob
    <2>2. Cardinality({}) = 0  BY FS_EmptySet
    <2> QED  BY <2>1, <2>2, ConstantsAssumption DEF RowBound
  <1>2. RowInv /\ [Next]_vars => RowInv'
    BY TypeStep, WorkersStep, RowBoundStep DEF RowInv
  <1>3. RowInv => EventRowsBounded
    BY DEF RowInv, RowBound, RowsOf, EventRowsBounded
  <1> QED  BY <1>1, <1>2, <1>3, PTL DEF Spec

------------------------------------------------------------------------------
(* Dismissed opportunities.                                                *)

\* What DismissedStaysDismissed says of a step.
Lasting ==
  \A c \in Customers : \A i \in DOMAIN opps[c] :
    opps[c][i].status = "DISMISSED" =>
      /\ i \in DOMAIN opps'[c]
      /\ opps'[c][i].status = "DISMISSED"
      /\ opps'[c][i].product = opps[c][i].product

\* An upsert appends a row, or writes the scores of one.
LEMMA LastingUpsert ==
  ASSUME TypeOK, NEW j \in Jobs, ex[j].pc = "upsert",
         opps' = [opps EXCEPT ![ex[j].cust] = Upserted(j)]
  PROVE  Lasting
  <1> SUFFICES ASSUME NEW c \in Customers, NEW i \in DOMAIN opps[c]
               PROVE  /\ i \in DOMAIN opps'[c]
                      /\ opps'[c][i].status = opps[c][i].status
                      /\ opps'[c][i].product = opps[c][i].product
    BY DEF Lasting
  <1> DEFINE d == ex[j].cust
             n == ex[j].opp
             new == [status |-> "NEW", product |-> ex[j].top, vec |-> ex[j].vec]
  <1>1. d \in Customers /\ n \in 0..Len(opps[d])  BY Busy DEF ExecutionTyped
  <1>2. opps \in [Customers -> Seq(OppType)]  BY DEF TypeOK, DataTyped
  <1>3. /\ opps[c] \in Seq(OppType) /\ i \in 1..Len(opps[c]) /\ Len(opps[c]) \in Nat
        /\ opps[c][i] \in OppType
    BY <1>2
  <1>4. CASE c # d  BY <1>2, <1>4
  <1>5. CASE c = d /\ n = 0
    <2>1. opps'[c] = Append(opps[c], new)  BY <1>1, <1>2, <1>5 DEF Upserted
    <2> HIDE DEF new
    <2>2. DOMAIN opps'[c] = 1..(Len(opps[c]) + 1) /\ opps'[c][i] = opps[c][i]
      BY <1>3, <2>1
    <2> QED  BY <1>3, <2>2
  <1>6. CASE c = d /\ n # 0
    <2> DEFINE y == [opps[c][n] EXCEPT !.vec = ex[j].vec]
    <2>1. n \in 1..Len(opps[c])  BY <1>1, <1>3, <1>6
    <2>2. opps[c][n] \in OppType  BY <1>3, <2>1
    <2>3. y.status = opps[c][n].status /\ y.product = opps[c][n].product
      BY <2>2 DEF OppType
    <2>4. opps'[c] = [opps[c] EXCEPT ![n] = y]  BY <1>1, <1>2, <1>6 DEF Upserted
    <2> HIDE DEF y
    <2> QED  BY <1>3, <2>1, <2>3, <2>4
  <1> QED  BY <1>4, <1>5, <1>6

\* A dismissal writes the status of one row that is not dismissed.
LEMMA LastingDismiss ==
  ASSUME TypeOK, NEW d \in Customers, NEW n \in DOMAIN opps[d], Dismiss(d, n)
  PROVE  Lasting
  <1> SUFFICES ASSUME NEW c \in Customers, NEW i \in DOMAIN opps[c],
                      opps[c][i].status = "DISMISSED"
               PROVE  /\ i \in DOMAIN opps'[c]
                      /\ opps'[c][i].status = "DISMISSED"
                      /\ opps'[c][i].product = opps[c][i].product
    BY DEF Lasting
  <1>1. opps \in [Customers -> Seq(OppType)]  BY DEF TypeOK, DataTyped
  <1>2. i \in 1..Len(opps[c]) /\ n \in 1..Len(opps[d])  BY <1>1
  <1> DEFINE y == [opps[d][n] EXCEPT !.status = "DISMISSED"]
  <1>3. opps' = [opps EXCEPT ![d] = [opps[d] EXCEPT ![n] = y]]  BY DEF Dismiss
  <1> HIDE DEF y
  <1>4. c # d \/ i # n  BY DEF Dismiss
  <1>5. CASE c # d  BY <1>1, <1>3, <1>5
  <1>6. CASE c = d /\ i # n
    <2>1. opps'[c] = [opps[c] EXCEPT ![n] = y]  BY <1>1, <1>3, <1>6
    <2> QED  BY <1>1, <1>2, <1>6, <2>1
  <1> QED  BY <1>4, <1>5, <1>6

\* No upsert brings back an opportunity that an RM dismissed after it was read
\* (daily_scoring.py:250-254 assigns the scores alone), nor changes its product.
THEOREM DismissalsLast == Spec => DismissedStaysDismissed
  <1>1. ASSUME opps' = opps  PROVE Lasting  BY <1>1 DEF Lasting
  <1>2. ASSUME TypeOK, [Next]_vars  PROVE Lasting
    <2>1. ASSUME NEW j \in Jobs, Start(j) \/ Advance(j) \/ Disturb(j)  PROVE Lasting
      <3>1. CASE Upsert(j) \/ UpsertUnanswered(j)
        BY <1>2, <3>1, LastingUpsert DEF Upsert, UpsertUnanswered
      <3> QED  BY <1>1, <2>1, <3>1, WhoWrites
    <2>2. CASE Environment
      BY <1>1, <1>2, <2>2, LastingDismiss DEF Environment, Transact, LeaveWindow, Expire, db
    <2>3. CASE UNCHANGED vars  BY <1>1, <2>3 DEF vars
    <2> QED  BY <1>2, <2>1, <2>2, <2>3 DEF Next
  <1>3. TypeOK /\ [Next]_vars => [Lasting]_vars  BY <1>2
  <1> QED  BY <1>3, ScoringTypeCorrect, PTL DEF Spec, DismissedStaysDismissed, Lasting

------------------------------------------------------------------------------
(* Detected events are scored.                                             *)

\* The places of an execution between the insert of an event and the upsert.
Scoring == {"invalidate", "get", "compute", "cache", "event", "select", "upsert"}

\* Why a customer with an event has, or is about to have, an opportunity: as
\* long as nothing failed, sessions are sound and who scores goes on to upsert.
ScoredInv ==
  faults = 0 =>
    /\ \A j \in Jobs : ex[j].session # "broken"
    /\ \A c \in Customers :
         events[c] # <<>> =>
           opps[c] # <<>> \/ \E j \in Jobs : ex[j].cust = c /\ ex[j].pc \in Scoring

\* A step that counts no fault is no fault.
LEMMA NoFault == ASSUME TypeOK, Fault  PROVE faults' # 0
  BY DEF Fault, TypeOK, DataTyped

\* Without a fault a step leaves the session sound, and an execution that is
\* scoring a customer stays at it until the customer has an opportunity.
LEMMA ScoringGoesOn ==
  ASSUME TypeOK, NEW j \in Jobs, Start(j) \/ Advance(j) \/ Disturb(j),
         faults' = 0, ex[j].session # "broken"
  PROVE  /\ ex'[j].session # "broken"
         /\ ex[j].pc \in Scoring =>
              \/ ex'[j].pc \in Scoring /\ ex'[j].cust = ex[j].cust
              \/ opps'[ex[j].cust] # <<>>
         /\ InsertEvent(j) => ex'[j].pc \in Scoring /\ ex'[j].cust = ex[j].cust
  <1> DEFINE Goal == /\ ex'[j].session # "broken"
                     /\ ex[j].pc \in Scoring =>
                          \/ ex'[j].pc \in Scoring /\ ex'[j].cust = ex[j].cust
                          \/ opps'[ex[j].cust] # <<>>
                     /\ InsertEvent(j) => ex'[j].pc \in Scoring /\ ex'[j].cust = ex[j].cust
  <1>1. ex \in [Jobs -> ExecutionType] /\ ex[j] \in ExecutionType  BY DEF TypeOK, JobsTyped
  <1>2. ~Fault  BY NoFault
  <1>3. ASSUME GiveUp(j, ex[j].session), ex[j].pc \notin Scoring \cup {"insert"}  PROVE Goal
    BY <1>1, <1>3 DEF GiveUp, IdleJob, InsertEvent
  <1>4. ASSUME ex' = [ex EXCEPT ![j] = IdleJob], ex[j].pc \notin Scoring \cup {"insert"}
        PROVE  Goal
    BY <1>1, <1>4 DEF IdleJob, InsertEvent
  <1>5. ASSUME NEW v \in Vectors, ex[j].pc \in {"get", "cache"},
               ex' = [ex EXCEPT ![j] = Loaded(ex[j], v)]
        PROVE  Goal
    <2>1. ex[j].cust \in Customers /\ (ex[j].use = "churn" => ex[j].vec \in Vectors)
      BY <1>5, Busy DEF ExecutionTyped
    <2>2. Loaded(ex[j], v).pc \in Scoring /\ Loaded(ex[j], v).cust = ex[j].cust
      BY <1>1, <2>1, LoadedTyped DEF Scoring
    <2>3. Loaded(ex[j], v).session = ex[j].session
      <3>1. ex[j].use \in {"load", "conversion", "churn"}  BY <1>1 DEF ExecutionType
      <3>2. CASE ex[j].use = "load"
        <4>1. Loaded(ex[j], v) = [ex[j] EXCEPT !.pc = "event"]  BY <3>2 DEF Loaded
        <4> QED  BY <1>1, <4>1 DEF ExecutionType
      <3>3. CASE ex[j].use = "conversion"
        <4>1. Loaded(ex[j], v) = [ex[j] EXCEPT !.pc = "get", !.use = "churn", !.vec = v]
          BY <3>3 DEF Loaded
        <4> QED  BY <1>1, <4>1 DEF ExecutionType
      <3>4. CASE ex[j].use = "churn"
        <4>1. Loaded(ex[j], v) = [ex[j] EXCEPT !.pc = "select"]  BY <3>4 DEF Loaded
        <4> QED  BY <1>1, <4>1 DEF ExecutionType
      <3> QED  BY <3>1, <3>2, <3>3, <3>4
    <2>4. ex'[j] = Loaded(ex[j], v)  BY <1>1, <1>5
    <2> QED  BY <1>5, <2>2, <2>3, <2>4 DEF InsertEvent
  <1>6. CASE Start(j)
    <2>1. ex[j].pc = "idle"
      BY <1>6, Busy DEF Start, ExecutionTyped
    <2> QED  BY <1>1, <1>6, <2>1 DEF Start, IdleJob, Scoring, InsertEvent
  <1>7. CASE Fetch(j)  BY <1>1, <1>7 DEF Fetch, ExecutionType, Scoring, InsertEvent
  <1>8. CASE \E c \in Customers : Pick(j, c)
    BY <1>1, <1>8 DEF Pick, ExecutionType, Scoring, InsertEvent
  <1>9. CASE Finish(j)  BY <1>2, <1>4, <1>9 DEF Finish, Scoring
  <1>10. CASE Detect(j)  BY <1>1, <1>10 DEF Detect, ExecutionType, Scoring, InsertEvent
  <1>11. CASE ScanNext(j)  BY <1>3, <1>11 DEF ScanNext, Scoring
  <1>12. CASE CheckEvent(j)
    <2>1. ex'[j].session = "open"  BY <1>1, <1>12 DEF CheckEvent, ExecutionType
    <2> QED  BY <1>12, <2>1 DEF CheckEvent, Scoring, InsertEvent
  <1>13. CASE InsertEvent(j)  BY <1>1, <1>13 DEF InsertEvent, ExecutionType, Scoring
  <1>14. CASE Invalidate(j)
    BY <1>1, <1>14 DEF Invalidate, ExecutionType, Scoring, InsertEvent
  <1>15. CASE ClearQueue(j)
    BY <1>1, <1>2, <1>15 DEF ClearQueue, ExecutionType, Scoring, InsertEvent
  <1>16. CASE GetFeatures(j)
    <2>1. ex[j].pc = "get" /\ ex[j].cust \in Customers
      BY <1>16, Busy DEF GetFeatures, ExecutionTyped
    <2>2. CASE ex' = [ex EXCEPT ![j].pc = "compute"]
      BY <1>1, <2>1, <2>2 DEF ExecutionType, Scoring, InsertEvent
    <2>3. CASE /\ feats[ex[j].cust] # NoVector
               /\ ex' = [ex EXCEPT ![j] = Loaded(ex[j], feats[ex[j].cust])]
      <3>1. feats[ex[j].cust] \in Vectors  BY <2>1, <2>3 DEF TypeOK, DataTyped
      <3> QED  BY <1>5, <2>1, <2>3, <3>1
    <2> QED  BY <1>16, <2>2, <2>3 DEF GetFeatures
  <1>17. CASE ComputeFeatures(j)
    BY <1>1, <1>17 DEF ComputeFeatures, ExecutionType, Scoring, InsertEvent
  <1>18. CASE ComputeBlank(j)  BY <1>2, <1>18 DEF ComputeBlank
  <1>19. CASE CacheFeatures(j)
    <2>1. ex[j].made \in Vectors  BY <1>19, Busy DEF CacheFeatures, ExecutionTyped
    <2> QED  BY <1>5, <1>19, <2>1 DEF CacheFeatures
  <1>20. CASE ReadTopEvent(j)
    BY <1>1, <1>20 DEF ReadTopEvent, ExecutionType, Scoring, InsertEvent
  <1>21. CASE SelectOpp(j)
    BY <1>1, <1>21 DEF SelectOpp, ExecutionType, Scoring, InsertEvent
  <1>22. CASE Upsert(j)
    <2>1. opps'[ex[j].cust] # <<>>
      <3> DEFINE c == ex[j].cust
                 new == [status |-> "NEW", product |-> ex[j].top, vec |-> ex[j].vec]
      <3>1. c \in Customers /\ ex[j].opp \in 0..Len(opps[c])
        BY <1>22, Busy DEF Upsert, ExecutionTyped
      <3>2. opps[c] \in Seq(OppType) /\ opps \in [Customers -> Seq(OppType)]
        BY <3>1 DEF TypeOK, DataTyped
      <3>3. opps'[c] = Upserted(j)  BY <1>22, <3>1, <3>2 DEF Upsert
      <3>4. CASE ex[j].opp = 0
        <4>1. opps'[c] = Append(opps[c], new)  BY <3>3, <3>4 DEF Upserted
        <4> HIDE DEF new
        <4> QED  BY <3>2, <4>1
      <3>5. CASE ex[j].opp # 0
        <4>1. Len(opps[c]) \in Nat /\ Len(opps[c]) # 0  BY <3>1, <3>2, <3>5
        <4>2. Len(opps[c]) <= Len(opps'[c]) /\ Len(opps'[c]) \in Nat
          BY <1>22, <3>1, UpsertedTyped DEF Upsert
        <4>3. Len(<<>>) = 0  OBVIOUS
        <4> QED  BY <4>1, <4>2, <4>3
      <3> QED  BY <3>4, <3>5
    <2>2. ex'[j].session = "fresh"
      <3>1. CASE j \in Scans  BY <1>1, <1>22, <3>1 DEF Upsert, ExecutionType
      <3>2. CASE j \notin Scans
        BY <1>1, <1>22, <3>2 DEF Upsert, GiveUp, IdleJob
      <3> QED  BY <3>1, <3>2
    <2> QED  BY <1>22, <2>1, <2>2 DEF Upsert, InsertEvent
  <1>23. CASE CustomerFails(j)  BY <1>2, <1>23 DEF CustomerFails
  <1>24. CASE Disturb(j)
    BY <1>2, <1>24
    DEF Disturb, JobFails, InsertUnanswered, UpsertUnanswered, TimeLimit, LoseWorker
  <1> QED
    BY <1>6, <1>7, <1>8, <1>9, <1>10, <1>11, <1>12, <1>13, <1>14, <1>15, <1>16, <1>17, <1>18,
       <1>19, <1>20, <1>21, <1>22, <1>23, <1>24 DEF Advance

\* A customer's opportunities are never deleted.
LEMMA OppsStay ==
  ASSUME TypeOK, [Next]_vars, NEW c \in Customers, opps[c] # <<>>
  PROVE  opps'[c] # <<>>
  <1>1. opps[c] \in Seq(OppType) /\ Len(opps[c]) \in Nat /\ Len(opps[c]) # 0
    BY OppsFinite, EmptySeq
  <1>2. ASSUME Len(opps[c]) <= Len(opps'[c]) /\ Len(opps'[c]) \in Nat  PROVE opps'[c] # <<>>
    <2>1. Len(<<>>) = 0  OBVIOUS
    <2> QED  BY <1>1, <1>2, <2>1
  <1>3. ASSUME NEW j \in Jobs, Start(j) \/ Advance(j) \/ Disturb(j)  PROVE opps'[c] # <<>>
    <2>1. CASE Upsert(j) \/ UpsertUnanswered(j)
      BY <1>2, <2>1, UpsertedTyped DEF Upsert, UpsertUnanswered
    <2> QED  BY <1>3, <2>1, WhoWrites
  <1>4. CASE Environment
    BY <1>1, <1>2, <1>4, DismissTyped DEF Environment, Transact, LeaveWindow, Expire, db
  <1>5. CASE UNCHANGED vars  BY <1>5 DEF vars
  <1> QED  BY <1>3, <1>4, <1>5 DEF Next

\* Every step keeps it.
LEMMA ScoredStep ==
  ASSUME TypeOK, ScoredInv, [Next]_vars
  PROVE  ScoredInv'
  <1> SUFFICES ASSUME faults' = 0
               PROVE  /\ \A k \in Jobs : ex'[k].session # "broken"
                      /\ \A c \in Customers :
                           events'[c] # <<>> =>
                             \/ opps'[c] # <<>>
                             \/ \E k \in Jobs : ex'[k].cust = c /\ ex'[k].pc \in Scoring
    BY DEF ScoredInv
  <1>1. ASSUME faults = 0, NEW j \in Jobs, Start(j) \/ Advance(j) \/ Disturb(j)
        PROVE  /\ \A k \in Jobs : ex'[k].session # "broken"
               /\ \A c \in Customers :
                    events'[c] # <<>> =>
                      \/ opps'[c] # <<>>
                      \/ \E k \in Jobs : ex'[k].cust = c /\ ex'[k].pc \in Scoring
    <2>1. \A k \in Jobs \ {j} : ex'[k] = ex[k]  BY <1>1, StepShape
    <2>2. /\ ex'[j].session # "broken"
          /\ ex[j].pc \in Scoring =>
               \/ ex'[j].pc \in Scoring /\ ex'[j].cust = ex[j].cust
               \/ opps'[ex[j].cust] # <<>>
          /\ InsertEvent(j) => ex'[j].pc \in Scoring /\ ex'[j].cust = ex[j].cust
      BY <1>1, ScoringGoesOn DEF ScoredInv
    <2>3. \A k \in Jobs : ex'[k].session # "broken"  BY <1>1, <2>1, <2>2 DEF ScoredInv
    <2>4. ASSUME NEW c \in Customers, events'[c] # <<>>
          PROVE  \/ opps'[c] # <<>>
                 \/ \E k \in Jobs : ex'[k].cust = c /\ ex'[k].pc \in Scoring
      <3>1. CASE InsertEvent(j) /\ c = ex[j].cust  BY <2>2, <3>1
      <3>2. CASE ~(InsertEvent(j) /\ c = ex[j].cust)
        <4>1. ~InsertUnanswered(j)  BY NoFault DEF InsertUnanswered
        <4>2. events'[c] = events[c]
          BY <1>1, <3>2, <4>1, WhoWrites DEF InsertEvent, TypeOK, DataTyped
        <4>3. CASE opps[c] # <<>>  BY <1>1, <4>3, OppsStay DEF Next
        <4>4. CASE \E k \in Jobs : ex[k].cust = c /\ ex[k].pc \in Scoring
          BY <2>1, <2>2, <4>4
        <4> QED  BY <1>1, <2>4, <4>2, <4>3, <4>4 DEF ScoredInv
      <3> QED  BY <3>1, <3>2
    <2> QED  BY <2>3, <2>4
  <1>2. ASSUME faults = 0, UNCHANGED <<events, ex>>
        PROVE  /\ \A k \in Jobs : ex'[k].session # "broken"
               /\ \A c \in Customers :
                    events'[c] # <<>> =>
                      \/ opps'[c] # <<>>
                      \/ \E k \in Jobs : ex'[k].cust = c /\ ex'[k].pc \in Scoring
    BY <1>2, OppsStay DEF ScoredInv
  <1>3. CASE Environment
    <2>1. faults' = faults /\ UNCHANGED <<events, ex>>
      BY <1>3 DEF Environment, Transact, LeaveWindow, Expire, Dismiss, db
    <2> QED  BY <1>2, <2>1
  <1>4. CASE UNCHANGED vars  BY <1>2, <1>4 DEF vars
  <1>5. ASSUME NEW j \in Jobs, Start(j) \/ Advance(j) \/ Disturb(j)  PROVE faults = 0
    <2>1. faults' = faults \/ Fault
      BY <1>5 DEF Start, Disturb, JobFails, InsertUnanswered, UpsertUnanswered, TimeLimit,
                  LoseWorker, Advance, Fetch, Pick, Finish, Detect, ScanNext, CheckEvent,
                  InsertEvent, Invalidate, ClearQueue, GetFeatures, ComputeFeatures,
                  ComputeBlank, CacheFeatures, ReadTopEvent, SelectOpp, Upsert, CustomerFails
    <2> QED  BY <2>1, NoFault
  <1> QED  BY <1>1, <1>3, <1>4, <1>5 DEF Next

\* Unless a call failed or a process was lost, an event that a scan inserted
\* (event_scan.py:185) leads to an opportunity (:198), whatever other scans and
\* nightly jobs run at the same time.
THEOREM DetectedEventsAreScored == Spec => []DetectedEventIsScored
  <1>1. Init => ScoredInv  BY DEF Init, ScoredInv, IdleJob
  <1>2. TypeOK /\ ScoredInv /\ [Next]_vars => ScoredInv'  BY ScoredStep
  <1>3. ScoredInv => DetectedEventIsScored  BY DEF ScoredInv, DetectedEventIsScored
  <1> QED  BY <1>1, <1>2, <1>3, ScoringTypeCorrect, PTL DEF Spec

==============================================================================

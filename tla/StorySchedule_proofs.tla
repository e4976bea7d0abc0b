-------------------------- MODULE StorySchedule_proofs --------------------------
(***************************************************************************)
(* Type correctness of scheduled stories, how often a story is announced,  *)
(* and why the stories of a published session may not have been.           *)
(***************************************************************************)
EXTENDS StorySchedule, FiniteSetTheorems, TLAPS

\* Runs of the cron that may still announce s.
Pending(s) == {k \in Publishers : \/ cron[k].tell = s
                                  \/ \E n \in Sessions : <<n, s>> \in cron[k].left
                                  \/ \E n \in Sessions : n \in cron[k].seen /\ In(s, n)}

Own(s) == IF s \in own THEN 1 ELSE 0

Telling(r) == request[r].step = "tell"

\* Nothing is known of a story that was never created.
Unborn == \A s \in StoryIds : row[s].state = "none" =>
  told[s] = 0 /\ s \notin own /\ Pending(s) = {} /\ row[s].session = "none"

\* A run announces the stories it found with their own sessions, each once.
Faithful ==
  \A k \in Publishers :
    /\ cron[k].seen # {} => cron[k].left = {} /\ cron[k].tell = "none"
    /\ \A s \in StoryIds :
         /\ \A n \in Sessions : <<n, s>> \in cron[k].left => In(s, n)
         /\ cron[k].tell = s => \A n \in Sessions : <<n, s>> \notin cron[k].left

\* What the cron announced, or is about to, was published.
ToldIsPublished ==
  \A s \in StoryIds, n \in Sessions :
    In(s, n) /\ (told[s] > Own(s) \/ \E k \in Publishers : cron[k].tell = s) => session[n].published

\* A story of a published session is announced by no more runs than found it.
TellersCounted ==
  \A s \in StoryIds : told[s] + Cardinality(Pending(s)) <= Cardinality(Publishers) + Own(s)

\* A request is to announce the story it created, and nobody else's.
Tellers ==
  \A r \in Requests : Telling(r) =>
    /\ request[r].story \in StoryIds \ own
    /\ row[request[r].story].state # "none"
    /\ row[request[r].story].session = request[r].session
    /\ \A q \in Requests : Telling(q) /\ request[q].story = request[r].story => q = r

\* A request that published its session is on its way to announce a story in it.
Debtors ==
  \A r \in Requests : request[r].owes =>
    /\ request[r].session \in Sessions
    /\ request[r].at <= now
    /\ request[r].step \in {"ensure", "insert", "tell"}

\* The parts of the invariant that speak of announcements and of requests.
Tale   == Unborn /\ Faithful /\ ToldIsPublished /\ TellersCounted
Duties == Tellers /\ Debtors

-------------------------------------------------------------------------------

LEMMA Constants ==
  /\ IsFiniteSet(Publishers) /\ Publishers # {} /\ Never \notin Nat
  /\ "none" \notin StoryIds /\ "none" \notin Sessions
  /\ MaxTime \in Nat /\ MaxBegun \in Nat /\ MaxFailures \in Nat
BY ConstantsAssumption DEF ConstantsAssumption

LEMMA PublishersCount ==
  ASSUME NEW S \in SUBSET Publishers
  PROVE  /\ IsFiniteSet(S) /\ Cardinality(S) \in Nat /\ Cardinality(Publishers) \in Nat
         /\ Cardinality(Publishers) > 0 /\ Cardinality(S) <= Cardinality(Publishers)
         /\ \A T \in SUBSET S : Cardinality(T) \in Nat /\ Cardinality(T) <= Cardinality(S)
         /\ \A k \in S : Cardinality(S \ {k}) = Cardinality(S) - 1
<1>1. /\ IsFiniteSet(S) /\ Cardinality(S) \in Nat /\ Cardinality(Publishers) \in Nat
      /\ Cardinality(S) <= Cardinality(Publishers)
  BY Constants, FS_Subset, FS_CardinalityType
<1>2. Cardinality(Publishers) > 0
  BY <1>1, Constants, FS_EmptySet
<1>3. \A T \in SUBSET S : Cardinality(T) \in Nat /\ Cardinality(T) <= Cardinality(S)
  BY <1>1, FS_Subset, FS_CardinalityType
<1>4. \A k \in S : Cardinality(S \ {k}) = Cardinality(S) - 1
  BY <1>1, FS_RemoveElement
<1> QED
  BY <1>1, <1>2, <1>3, <1>4

LEMMA PendingCount ==
  ASSUME NEW s
  PROVE  Pending(s) \subseteq Publishers /\ Cardinality(Pending(s)) \in Nat
BY PublishersCount DEF Pending

RequestType == [step : {"idle", "ensure", "insert", "tell", "more"}, batch : BOOLEAN,
                session : SomeSession, at : Nat, story : SomeStory, owes : BOOLEAN]

LEMMA TypeInit == Init => TypeOK
BY DEF Init, TypeOK, SomeStory, SomeSession, SomeTime, Waits, Idle

\* What a step of a request does to it.
LEMMA RequestTypes ==
  ASSUME TypeOK, NEW r \in Requests, RequestStep(r)
  PROVE  request' \in [Requests -> RequestType] /\ begun' \in Nat
<1>1. request \in [Requests -> RequestType] /\ begun \in Nat /\ MaxTime \in Nat
  BY Constants DEF TypeOK, RequestType
<1>2. Idle \in RequestType
  BY DEF Idle, RequestType, SomeSession, SomeStory
<1>3. ASSUME NEW n \in SomeSession, CreateStart(r, n) PROVE request' \in [Requests -> RequestType] /\ begun' \in Nat
  <2>1. [Idle EXCEPT !.step = "insert", !.session = n, !.owes = n # "none"] \in RequestType
    BY <1>2 DEF RequestType, Idle, SomeStory
  <2> QED
    BY <1>1, <1>3, <2>1 DEF CreateStart, Begins
<1>4. ASSUME NEW n \in SomeSession, NEW t \in now .. MaxTime + 1 \union {Never}, BatchStart(r, n, t)
      PROVE  request' \in [Requests -> RequestType] /\ begun' \in Nat
  <2> DEFINE publishes == t = Never \/ Past(t)
             to == [Idle EXCEPT !.step = "ensure", !.batch = TRUE, !.session = n,
                                !.at = IF publishes THEN 0 ELSE t, !.owes = publishes /\ n # "none"]
  <2>1. (IF publishes THEN 0 ELSE t) \in Nat
    BY <1>1 DEF TypeOK
  <2>2. (publishes /\ n # "none") \in BOOLEAN
    BY Zenon
  <2>3. to \in RequestType
    <3> HIDE DEF publishes
    <3> QED
      BY <2>1, <2>2 DEF RequestType, Idle, SomeStory
  <2> QED
    BY <1>1, <1>4, <2>3 DEF BatchStart, Begins
<1>5. CASE Ensure(r)
  <2>1. /\ request[r] \in RequestType
        /\ request' = [request EXCEPT ![r].step = "insert",
                         ![r].owes = @ \/ (request[r].session # "none" /\ request[r].at <= now)]
        /\ begun' = begun
    BY <1>1, <1>5 DEF Ensure
  <2> QED
    BY <1>1, <2>1 DEF RequestType
<1>6. CASE Tell(r)
  <2> DEFINE tells == request[r].at <= now
             to == [request[r] EXCEPT !.step = "more", !.story = "none",
                                      !.owes = request[r].owes /\ ~tells]
  <2>1. /\ request[r] \in RequestType /\ begun' = begun
        /\ request' = [request EXCEPT ![r] = IF request[r].batch THEN to ELSE Idle]
    BY <1>1, <1>6 DEF Tell
  <2>2. to \in RequestType
    <3>1. tells \in BOOLEAN
      BY <2>1 DEF TypeOK, RequestType
    <3> HIDE DEF tells
    <3> QED
      BY <2>1, <3>1 DEF RequestType, SomeStory
  <2> QED
    <3> HIDE DEF to
    <3> QED
      BY <1>1, <1>2, <2>1, <2>2
<1>7. CASE BatchEnd(r) \/ RequestFails(r)
  BY <1>1, <1>2, <1>7 DEF BatchEnd, RequestFails
<1>8. ASSUME NEW s \in StoryIds, Insert(r, s) PROVE request' \in [Requests -> RequestType] /\ begun' \in Nat
  <2>1. /\ request[r] \in RequestType /\ begun' = begun
        /\ request' = [request EXCEPT ![r].step = "tell", ![r].story = s]
    BY <1>1, <1>8 DEF Insert
  <2> QED
    BY <1>1, <2>1 DEF RequestType, SomeStory
<1> QED
  BY <1>3, <1>4, <1>5, <1>6, <1>7, <1>8 DEF RequestStep

LEMMA PublishTypes ==
  ASSUME TypeOK, NEW n \in Sessions, Publish(n)
  PROVE  session' \in [Sessions -> [at : SomeTime, published : BOOLEAN]]
BY DEF TypeOK, Publish

LEMMA RequestTypeNext ==
  ASSUME TypeOK, Duties, NEW r \in Requests, RequestStep(r)
  PROVE  TypeOK'
<1>1. /\ request' \in [Requests -> RequestType] /\ begun' \in Nat
      /\ request[r] \in RequestType /\ request[r].session \in SomeSession
      /\ now \in Nat /\ MaxTime \in Nat
  BY RequestTypes, Constants DEF TypeOK, RequestType
<1>2. ASSUME NEW n \in SomeSession, CreateStart(r, n) PROVE TypeOK'
  <2>1. session' \in [Sessions -> [at : SomeTime, published : BOOLEAN]]
    BY <1>2, PublishTypes DEF CreateStart, TypeOK, SomeSession
  <2> QED
    BY <1>1, <1>2, <2>1 DEF CreateStart, TypeOK, RequestType
<1>3. ASSUME NEW n \in SomeSession, NEW t \in now .. MaxTime + 1 \union {Never}, BatchStart(r, n, t)
      PROVE  TypeOK'
  <2> DEFINE publishes == t = Never \/ Past(t)
             wrote == [at |-> t, published |-> session[n].published \/ publishes]
  <2>1. /\ t \in SomeTime
        /\ session' = IF n = "none" THEN session ELSE [session EXCEPT ![n] = wrote]
    BY <1>1, <1>3 DEF BatchStart, SomeTime
  <2>2. (session[n].published \/ publishes) \in BOOLEAN
    BY Zenon
  <2>3. wrote \in [at : SomeTime, published : BOOLEAN]
    <3> HIDE DEF publishes
    <3> QED
      BY <2>1, <2>2
  <2>4. session' \in [Sessions -> [at : SomeTime, published : BOOLEAN]]
    <3> HIDE DEF wrote
    <3> QED
      BY <2>1, <2>3 DEF TypeOK
  <2> QED
    BY <1>1, <1>3, <2>4 DEF BatchStart, TypeOK, RequestType
<1>4. CASE Ensure(r)
  <2>1. session' \in [Sessions -> [at : SomeTime, published : BOOLEAN]]
    BY <1>1, <1>4, PublishTypes DEF Ensure, TypeOK, SomeSession
  <2> QED
    BY <1>1, <1>4, <2>1 DEF Ensure, TypeOK, RequestType
<1>5. CASE Tell(r)
  <2>1. told' \in [StoryIds -> Nat] /\ own' \in SUBSET StoryIds
    <3>1. request[r].story \in StoryIds
      BY <1>5 DEF Tell, Duties, Tellers, Telling
    <3>2. CASE request[r].at <= now
      BY <1>5, <3>1, <3>2 DEF Tell, Announce, TypeOK
    <3>3. CASE ~(request[r].at <= now)
      BY <1>5, <3>3 DEF Tell, TypeOK
    <3> QED
      BY <3>2, <3>3
  <2> QED
    BY <1>1, <1>5, <2>1 DEF Tell, TypeOK, RequestType
<1>6. CASE BatchEnd(r)
  <2>1. timer' \in [Sessions -> SomeTime]
    <3>1. request[r].at \in SomeTime
      BY <1>1 DEF RequestType, SomeTime
    <3>2. \/ timer' = timer
          \/ timer' = [timer EXCEPT ![request[r].session] = request[r].at]
      BY <1>6 DEF BatchEnd
    <3> QED
      BY <3>1, <3>2 DEF TypeOK
  <2> QED
    BY <1>1, <1>6, <2>1 DEF BatchEnd, TypeOK, RequestType
<1>7. CASE RequestFails(r)
  <2>1. quiet' \in SUBSET Sessions /\ failures' \in Nat
    BY <1>7 DEF RequestFails, Fails, TypeOK, Duties, Debtors
  <2> QED
    BY <1>1, <1>7, <2>1 DEF RequestFails, TypeOK, RequestType
<1>8. ASSUME NEW s \in StoryIds, Insert(r, s) PROVE TypeOK'
  <2>1. row' \in [StoryIds -> [state : {"none", "row", "removed"}, session : SomeSession]]
    BY <1>1, <1>8 DEF Insert, TypeOK
  <2> QED
    BY <1>1, <1>8, <2>1 DEF Insert, TypeOK, RequestType
<1> QED
  BY <1>2, <1>3, <1>4, <1>5, <1>6, <1>7, <1>8 DEF RequestStep

LEMMA TypeNext == TypeOK /\ Duties /\ [Next]_vars => TypeOK'
<1> SUFFICES ASSUME TypeOK, Duties, [Next]_vars PROVE TypeOK'
  OBVIOUS
<1>1. CASE Tick
  BY <1>1 DEF Tick, TypeOK
<1>2. ASSUME NEW r \in Requests, RequestStep(r) PROVE TypeOK'
  BY <1>2, RequestTypeNext
<1>3. ASSUME NEW s \in StoryIds, Remove(s) PROVE TypeOK'
  BY <1>3 DEF Remove, TypeOK
<1>4. ASSUME NEW n \in Sessions, WorkerRead(n) PROVE TypeOK'
  BY <1>4 DEF WorkerRead, TypeOK, SomeSession, SomeTime
<1>5. CASE WorkerPublish
  <2>1. worker \in Sessions
    BY <1>5 DEF WorkerPublish, TypeOK, SomeSession
  <2>2. session' \in [Sessions -> [at : SomeTime, published : BOOLEAN]]
    BY <1>5, <2>1, PublishTypes DEF WorkerPublish
  <2> QED
    BY <1>5, <2>1, <2>2 DEF WorkerPublish, TypeOK, SomeSession
<1>6. CASE WorkerFails
  BY <1>6 DEF WorkerFails, Fails, TypeOK, SomeSession
<1>7. ASSUME NEW k \in Publishers, CronFind(k) PROVE TypeOK'
  BY <1>7 DEF CronFind, Sees, TypeOK, Waits
<1>8. ASSUME NEW k \in Publishers, CronFirsts(k) PROVE TypeOK'
  <2>1. PICK first \in [cron[k].seen -> SomeStory] :
          cron' = [cron EXCEPT ![k] = [Waits EXCEPT !.left = {<<n, first[n]>> : n \in cron[k].seen}]]
    BY <1>8 DEF CronFirsts
  <2>2. {<<n, first[n]>> : n \in cron[k].seen} \in SUBSET (Sessions \X SomeStory)
    BY DEF TypeOK
  <2>3. cron' \in [Publishers -> [seen : SUBSET Sessions, left : SUBSET (Sessions \X SomeStory),
                                 tell : SomeStory]]
    BY <2>1, <2>2 DEF TypeOK, Waits, SomeStory
  <2> QED
    BY <1>8, <2>3 DEF CronFirsts, TypeOK
<1>9. ASSUME NEW k \in Publishers, NEW n \in Sessions, NEW s \in SomeStory, CronPublish(k, n, s)
      PROVE  TypeOK'
  <2>1. session' \in [Sessions -> [at : SomeTime, published : BOOLEAN]]
    BY <1>9, PublishTypes DEF CronPublish
  <2>2. cron[k].left \ {<<n, s>>} \in SUBSET (Sessions \X SomeStory)
    BY DEF TypeOK
  <2>3. cron' \in [Publishers -> [seen : SUBSET Sessions, left : SUBSET (Sessions \X SomeStory),
                                 tell : SomeStory]]
    BY <1>9, <2>2 DEF CronPublish, TypeOK, Waits
  <2>4. quiet' \in SUBSET Sessions
    BY <1>9 DEF CronPublish, TypeOK
  <2> QED
    BY <1>9, <2>1, <2>3, <2>4 DEF CronPublish, TypeOK
<1>10. ASSUME NEW k \in Publishers, CronTell(k) PROVE TypeOK'
  <2>1. told' \in [StoryIds -> Nat]
    <3>1. PICK s \in StoryIds : cron[k].tell = s
      BY <1>10 DEF CronTell, TypeOK, SomeStory
    <3>2. told' = [told EXCEPT ![s] = told[s] + 1] /\ told \in [StoryIds -> Nat]
      BY <1>10, <3>1 DEF CronTell, Announce, TypeOK
    <3> QED
      BY <3>2
  <2>2. cron' \in [Publishers -> [seen : SUBSET Sessions, left : SUBSET (Sessions \X SomeStory),
                                 tell : SomeStory]]
    BY <1>10 DEF CronTell, TypeOK, SomeStory
  <2> QED
    BY <1>10, <2>1, <2>2 DEF CronTell, TypeOK
<1>11. ASSUME NEW k \in Publishers, CronFails(k) PROVE TypeOK'
  BY <1>11 DEF CronFails, Fails, TypeOK, Waits, SomeStory
<1>12. CASE UNCHANGED vars
  BY <1>12 DEF vars, TypeOK
<1> QED
  BY <1>1, <1>2, <1>3, <1>4, <1>5, <1>6, <1>7, <1>8, <1>9, <1>10, <1>11, <1>12 DEF Next, CronStep

-------------------------------------------------------------------------------

LEMMA DutiesInit == Init => Duties
BY DEF Init, Idle, Duties, Tellers, Debtors, Telling

\* A request that goes on while others, stories and what they were announced by
\* stay as they are.
LEMMA DutiesStay ==
  ASSUME TypeOK, Duties, row' = row, own' = own, now' = now, NEW r \in Requests,
         \A q \in Requests : q # r => request'[q] = request[q],
         request'[r].step # "tell",
         request'[r].owes => /\ request'[r].session \in Sessions
                             /\ request'[r].at <= now
                             /\ request'[r].step \in {"ensure", "insert", "tell"}
  PROVE  Duties'
<1>1. \A q \in Requests : Telling(q)' => q # r /\ Telling(q) /\ request'[q] = request[q]
  BY DEF Telling
<1>2. Tellers'
  BY <1>1 DEF Duties, Tellers
<1>3. Debtors'
  BY DEF Duties, Debtors
<1> QED
  BY <1>2, <1>3 DEF Duties

LEMMA RequestDuties ==
  ASSUME TypeOK, TypeOK', Duties, Tale, NEW r \in Requests, RequestStep(r)
  PROVE  Duties'
<1>0. now \in Nat /\ request[r].at \in Nat /\ request[r].session \in SomeSession
  BY DEF TypeOK
<1>1. ASSUME NEW n \in SomeSession, CreateStart(r, n) PROVE Duties'
  <2>1. /\ \A q \in Requests : q # r => request'[q] = request[q]
        /\ request'[r].step = "insert" /\ request'[r].session = n /\ request'[r].at = 0
        /\ request'[r].owes = (n # "none")
    BY <1>1 DEF CreateStart, Begins, TypeOK, Idle
  <2>2. row' = row /\ own' = own /\ now' = now
    BY <1>1 DEF CreateStart
  <2>3. request'[r].at <= now
    BY <1>0, <2>1
  <2>4. request'[r].owes => request'[r].session \in Sessions
    BY <2>1 DEF SomeSession
  <2> QED
    BY <2>1, <2>2, <2>3, <2>4, DutiesStay
<1>2. ASSUME NEW n \in SomeSession, NEW t \in now .. MaxTime + 1 \union {Never}, BatchStart(r, n, t)
      PROVE  Duties'
  <2> DEFINE publishes == t = Never \/ Past(t)
  <2>1. /\ \A q \in Requests : q # r => request'[q] = request[q]
        /\ request'[r].step = "ensure" /\ request'[r].session = n
        /\ request'[r].at = IF publishes THEN 0 ELSE t
        /\ request'[r].owes => publishes /\ n # "none"
    <3> HIDE DEF publishes
    <3>1. request' = [request EXCEPT ![r] =
            [Idle EXCEPT !.step = "ensure", !.batch = TRUE, !.session = n,
                         !.at = IF publishes THEN 0 ELSE t, !.owes = publishes /\ n # "none"]]
      BY <1>2 DEF BatchStart, Begins, publishes
    <3>2. request'[r] = [step |-> "ensure", batch |-> TRUE, session |-> n,
                         at |-> IF publishes THEN 0 ELSE t, story |-> "none",
                         owes |-> publishes /\ n # "none"]
      BY <3>1 DEF TypeOK, Idle
    <3>3. \A q \in Requests : q # r => request'[q] = request[q]
      BY <3>1 DEF TypeOK
    <3>4. request'[r].owes = (publishes /\ n # "none")
      BY <3>2
    <3>5. request'[r].owes => publishes /\ n # "none"
      BY <3>4, Zenon
    <3> QED
      BY <3>2, <3>3, <3>5
  <2>2. row' = row /\ own' = own /\ now' = now
    BY <1>2 DEF BatchStart
  <2>3. request'[r].owes => request'[r].session \in Sessions /\ request'[r].at <= now
    BY <1>0, <2>1 DEF SomeSession
  <2> QED
    BY <2>1, <2>2, <2>3, DutiesStay
<1>3. CASE Ensure(r)
  <2> DEFINE publishes == request[r].session # "none" /\ request[r].at <= now
  <2>1. /\ \A q \in Requests : q # r => request'[q] = request[q]
        /\ request'[r].step = "insert" /\ request'[r].session = request[r].session
        /\ request'[r].at = request[r].at
        /\ request'[r].owes => request[r].owes \/ publishes
    <3>1. request' = [request EXCEPT ![r].step = "insert", ![r].owes = @ \/ publishes]
      BY <1>3 DEF Ensure
    <3> HIDE DEF publishes
    <3> QED
      BY <3>1 DEF TypeOK
  <2>2. row' = row /\ own' = own /\ now' = now
    BY <1>3 DEF Ensure
  <2>3. request'[r].owes => request'[r].session \in Sessions /\ request'[r].at <= now
    BY <1>0, <2>1 DEF SomeSession, Duties, Debtors
  <2> QED
    BY <2>1, <2>2, <2>3, DutiesStay
<1>4. ASSUME NEW s \in StoryIds, Insert(r, s) PROVE Duties'
  <2>1. /\ row[s].state = "none" /\ own' = own /\ now' = now
        /\ row' = [row EXCEPT ![s] = [state |-> "row", session |-> request[r].session]]
        /\ \A q \in Requests : q # r => request'[q] = request[q]
        /\ request'[r].story = s /\ request'[r].session = request[r].session
        /\ request'[r].at = request[r].at /\ request'[r].owes = request[r].owes
        /\ request'[r].step = "tell"
    BY <1>4 DEF Insert, TypeOK
  <2>2. s \notin own /\ \A q \in Requests : Telling(q) => request[q].story # s
    BY <2>1 DEF Tale, Unborn, Duties, Tellers
  <2>3. row'[s].state = "row" /\ row'[s].session = request[r].session
        /\ \A t \in StoryIds : t # s => row'[t] = row[t]
    BY <2>1 DEF TypeOK
  <2>4. Tellers'
    <3> SUFFICES ASSUME NEW q \in Requests, Telling(q)'
                 PROVE  /\ request'[q].story \in StoryIds \ own
                        /\ row'[request'[q].story].state # "none"
                        /\ row'[request'[q].story].session = request'[q].session
                        /\ \A p \in Requests :
                             Telling(p)' /\ request'[p].story = request'[q].story => p = q
      BY <2>1 DEF Tellers
    <3>1. CASE q = r
      BY <3>1, <2>1, <2>2, <2>3 DEF Telling
    <3>2. CASE q # r
      <4>1. Telling(q) /\ request'[q] = request[q] /\ request[q].story # s
        BY <3>2, <2>1, <2>2 DEF Telling
      <4>2. /\ request[q].story \in StoryIds \ own
            /\ row'[request[q].story] = row[request[q].story]
        BY <4>1, <2>3 DEF Duties, Tellers
      <4>3. \A p \in Requests : Telling(p)' /\ request'[p].story = request'[q].story => p = q
        BY <4>1, <2>1 DEF Duties, Tellers, Telling
      <4> QED
        BY <4>1, <4>2, <4>3 DEF Duties, Tellers
    <3> QED
      BY <3>1, <3>2
  <2>5. Debtors'
    BY <2>1 DEF Duties, Debtors
  <2> QED
    BY <2>4, <2>5 DEF Duties
<1>5. CASE Tell(r)
  <2> DEFINE tells == request[r].at <= now
  <2>1. /\ Telling(r) /\ row' = row /\ now' = now
        /\ own' = IF tells THEN own \union {request[r].story} ELSE own
        /\ \A q \in Requests : q # r => request'[q] = request[q]
    BY <1>5 DEF Tell, TypeOK, Telling
  <2>2. request'[r].step # "tell" /\ ~request'[r].owes
    <3>1. request[r].owes => tells
      BY DEF Duties, Debtors
    <3>2. request'[r] = IF request[r].batch
                        THEN [request[r] EXCEPT !.step = "more", !.story = "none",
                                                !.owes = request[r].owes /\ ~tells]
                        ELSE Idle
      BY <1>5 DEF Tell, TypeOK
    <3>3. request[r].owes \in BOOLEAN /\ (request[r].owes /\ ~tells) = FALSE
      BY <3>1 DEF TypeOK
    <3>4. request'[r] = IF request[r].batch
                        THEN [request[r] EXCEPT !.step = "more", !.story = "none", !.owes = FALSE]
                        ELSE Idle
      BY <3>2, <3>3
    <3> QED
      BY <3>4 DEF TypeOK, Idle
  <2>3. \A q \in Requests : Telling(q)' =>
          q # r /\ Telling(q) /\ request'[q] = request[q] /\ request[q].story # request[r].story
    BY <2>1, <2>2 DEF Telling, Duties, Tellers
  <2>4. Tellers'
    <3> SUFFICES ASSUME NEW q \in Requests, Telling(q)'
                 PROVE  /\ request'[q].story \in StoryIds \ own'
                        /\ row'[request'[q].story].state # "none"
                        /\ row'[request'[q].story].session = request'[q].session
                        /\ \A p \in Requests :
                             Telling(p)' /\ request'[p].story = request'[q].story => p = q
      BY DEF Tellers
    <3> QED
      BY <2>1, <2>3 DEF Duties, Tellers
  <2>5. Debtors'
    BY <2>1, <2>2 DEF Duties, Debtors
  <2> QED
    BY <2>4, <2>5 DEF Duties
<1>6. CASE BatchEnd(r) \/ RequestFails(r)
  <2>1. /\ row' = row /\ own' = own /\ now' = now /\ request'[r] = Idle
        /\ \A q \in Requests : q # r => request'[q] = request[q]
    BY <1>6 DEF BatchEnd, RequestFails, TypeOK
  <2> QED
    BY <2>1, DutiesStay DEF Idle
<1> QED
  BY <1>1, <1>2, <1>3, <1>4, <1>5, <1>6 DEF RequestStep

LEMMA DutiesNext ==
  ASSUME TypeOK, TypeOK', Duties, Tale, [Next]_vars
  PROVE  Duties'
<1>1. ASSUME NEW r \in Requests, RequestStep(r) PROVE Duties'
  BY <1>1, RequestDuties
<1>2. ASSUME request' = request, own' = own, now' \in {now, now + 1},
             \A s \in StoryIds : /\ row'[s].session = row[s].session
                                 /\ row'[s].state = "none" => row[s].state = "none"
      PROVE  Duties'
  <2>1. Tellers'
    BY <1>2 DEF Duties, Tellers, Telling
  <2>2. \A r \in Requests : request[r].at <= now => request[r].at <= now'
    BY <1>2 DEF TypeOK
  <2>3. Debtors'
    BY <1>2, <2>2 DEF Duties, Debtors
  <2> QED
    BY <2>1, <2>3 DEF Duties
<1>3. CASE Tick
  BY <1>2, <1>3 DEF Tick
<1>4. ASSUME NEW s \in StoryIds, Remove(s) PROVE Duties'
  <2>1. \A t \in StoryIds : row'[t].session = row[t].session /\ (row'[t].state = "none" => row[t].state = "none")
    BY <1>4 DEF Remove, TypeOK
  <2> QED
    BY <1>2, <1>4, <2>1 DEF Remove
<1>5. ASSUME NEW n \in Sessions, WorkerRead(n) PROVE Duties'
  BY <1>2, <1>5 DEF WorkerRead
<1>6. CASE WorkerPublish \/ WorkerFails \/ UNCHANGED vars
  BY <1>2, <1>6 DEF WorkerPublish, WorkerFails, vars
<1>7. ASSUME NEW k \in Publishers, CronStep(k) \/ CronFails(k) PROVE Duties'
  <2>1. request' = request /\ own' = own /\ now' = now /\ row' = row
    BY <1>7 DEF CronStep, CronFind, Sees, CronFirsts, CronPublish, CronTell, CronFails
  <2> QED
    BY <1>2, <2>1
<1> QED
  BY <1>1, <1>3, <1>4, <1>5, <1>6, <1>7 DEF Next

-------------------------------------------------------------------------------

LEMMA TaleInit == Init => Tale /\ SilenceIsExplained
<1> SUFFICES ASSUME Init PROVE Tale /\ SilenceIsExplained
  OBVIOUS
<1>1. \A s \in StoryIds : Pending(s) = {}
  BY Constants DEF Init, Waits, Pending
<1>2. Unborn /\ Faithful /\ ToldIsPublished /\ SilenceIsExplained
  BY <1>1, Constants DEF Init, Waits, Unborn, Faithful, ToldIsPublished, SilenceIsExplained, Own
<1>3. TellersCounted
  BY <1>1, FS_EmptySet, PublishersCount DEF Init, TellersCounted, Own
<1> QED
  BY <1>2, <1>3 DEF Tale

\* A request unpublishes nothing.
LEMMA RequestPublishes ==
  ASSUME TypeOK, NEW r \in Requests, RequestStep(r)
  PROVE  \A m \in Sessions : session[m].published => session'[m].published
<1>1. ASSUME NEW n \in Sessions, Publish(n)
      PROVE  \A m \in Sessions : session[m].published => session'[m].published
  BY <1>1 DEF Publish, TypeOK
<1>2. request[r].session \in SomeSession
  BY DEF TypeOK
<1>3. ASSUME NEW n \in SomeSession, CreateStart(r, n)
      PROVE  \A m \in Sessions : session[m].published => session'[m].published
  BY <1>1, <1>3 DEF CreateStart, SomeSession
<1>4. ASSUME NEW n \in SomeSession, NEW t \in now .. MaxTime + 1 \union {Never}, BatchStart(r, n, t)
      PROVE  \A m \in Sessions : session[m].published => session'[m].published
  BY <1>4 DEF BatchStart, TypeOK
<1>5. CASE Ensure(r)
  BY <1>1, <1>2, <1>5 DEF Ensure, SomeSession
<1>6. ASSUME Tell(r) \/ BatchEnd(r) \/ RequestFails(r) \/ \E s \in StoryIds : Insert(r, s)
      PROVE  session' = session
  BY <1>6 DEF Tell, BatchEnd, RequestFails, Insert
<1> QED
  BY <1>3, <1>4, <1>5, <1>6 DEF RequestStep

\* Runs that drop what they were to announce leave the count as it is.
LEMMA FewerTellers ==
  ASSUME TypeOK, NEW s \in StoryIds, Pending(s)' \subseteq Pending(s), told'[s] = told[s],
         Own(s)' = Own(s),
         told[s] + Cardinality(Pending(s)) <= Cardinality(Publishers) + Own(s)
  PROVE  told'[s] + Cardinality(Pending(s)') <= Cardinality(Publishers) + Own(s)'
<1>1. Cardinality(Pending(s)') \in Nat /\ Cardinality(Pending(s)') <= Cardinality(Pending(s))
  BY PublishersCount, PendingCount
<1>2. told[s] \in Nat /\ Cardinality(Pending(s)) \in Nat /\ Cardinality(Publishers) \in Nat /\ Own(s) \in Nat
  BY PublishersCount, PendingCount DEF TypeOK, Own
<1> QED
  BY <1>1, <1>2

\* A step that leaves stories, announcements and the cron alone, and unpublishes nothing.
LEMMA SameTale ==
  ASSUME TypeOK, Tale, told' = told, own' = own, cron' = cron,
         \A s \in StoryIds : /\ row'[s].session = row[s].session
                             /\ row'[s].state = "none" => row[s].state = "none",
         \A n \in Sessions : session[n].published => session'[n].published
  PROVE  Tale'
<1>1. \A s \in StoryIds : Pending(s)' = Pending(s) /\ Own(s)' = Own(s)
  BY DEF Pending, Own, In
<1>2. Unborn' /\ Faithful' /\ ToldIsPublished'
  BY <1>1 DEF Tale, Unborn, Faithful, ToldIsPublished, In
<1>3. TellersCounted'
  BY <1>1 DEF Tale, TellersCounted
<1> QED
  BY <1>2, <1>3 DEF Tale

\* A new story: runs that saw its session before may find it.
LEMMA InsertTale ==
  ASSUME TypeOK, TypeOK', Tale, NEW r \in Requests, NEW s \in StoryIds, Insert(r, s)
  PROVE  Tale'
<1>1. /\ told[s] = 0 /\ s \notin own /\ Pending(s) = {} /\ row[s].session = "none"
      /\ row'[s].state = "row"
      /\ told' = told /\ own' = own /\ cron' = cron /\ session' = session
  BY DEF Tale, Unborn, Insert, TypeOK
<1>2. \A t \in StoryIds : t # s => row'[t] = row[t]
  BY DEF Insert, TypeOK
<1>3. \A t \in StoryIds : t # s => Pending(t)' = Pending(t)
  BY <1>1, <1>2 DEF Pending, In
<1>4. \A t \in StoryIds : Own(t)' = Own(t)
  BY <1>1 DEF Own
<1>5. \A k \in Publishers : cron[k].tell # s /\ \A m \in Sessions : <<m, s>> \notin cron[k].left
  BY <1>1 DEF Pending
<1>6. Unborn'
  BY <1>1, <1>2, <1>3 DEF Tale, Unborn
<1>7. Faithful'
  BY <1>1, <1>2, <1>5 DEF Tale, Faithful, In
<1>8. ToldIsPublished'
  <2> SUFFICES ASSUME NEW t \in StoryIds, NEW m \in Sessions, In(t, m)',
                      told[t] > Own(t) \/ \E k \in Publishers : cron[k].tell = t
               PROVE  session[m].published
    BY <1>1, <1>4 DEF ToldIsPublished
  <2>1. t # s
    BY <1>1, <1>5 DEF Own
  <2> QED
    BY <2>1, <1>2 DEF Tale, ToldIsPublished, In
<1>9. TellersCounted'
  <2> SUFFICES ASSUME NEW t \in StoryIds
               PROVE  told'[t] + Cardinality(Pending(t)') <= Cardinality(Publishers) + Own(t)'
    BY DEF TellersCounted
  <2>1. CASE t = s
    <3>1. Pending(s)' \in SUBSET Publishers
      BY DEF Pending
    <3>2. Cardinality(Pending(s)') \in Nat /\ Cardinality(Pending(s)') <= Cardinality(Publishers)
          /\ Cardinality(Publishers) \in Nat
      BY <3>1, PublishersCount
    <3>3. told'[s] = 0 /\ Own(s)' = 0
      BY <1>1 DEF Own
    <3> QED
      BY <2>1, <3>2, <3>3
  <2>2. CASE t # s
    BY <2>2, <1>1, <1>3, <1>4 DEF Tale, TellersCounted
  <2> QED
    BY <2>1, <2>2
<1> QED
  BY <1>6, <1>7, <1>8, <1>9 DEF Tale

\* A story announced by the request that created it.
LEMMA OwnTale ==
  ASSUME TypeOK, TypeOK', Tale, Duties, NEW r \in Requests, Tell(r)
  PROVE  Tale'
<1>0. PICK s \in StoryIds : request[r].story = s
  BY DEF Tell, Duties, Tellers, Telling
<1>1. /\ s \notin own /\ row[s].state # "none"
      /\ row' = row /\ session' = session /\ cron' = cron
  BY <1>0 DEF Tell, Duties, Tellers, Telling
<1>2. CASE ~(request[r].at <= now)
  BY <1>1, <1>2, SameTale DEF Tell
<1>3. CASE request[r].at <= now
  <2>1. told' = [told EXCEPT ![s] = told[s] + 1] /\ own' = own \union {s}
    BY <1>0, <1>3 DEF Tell, Announce
  <2>2. \A t \in StoryIds : Pending(t)' = Pending(t)
    BY <1>1 DEF Pending, In
  <2>3. /\ told'[s] = told[s] + 1 /\ Own(s)' = 1 /\ Own(s) = 0
        /\ \A t \in StoryIds : t # s => told'[t] = told[t] /\ Own(t)' = Own(t)
    BY <1>1, <2>1 DEF Own, TypeOK
  <2>4. \A t \in StoryIds : told'[t] > Own(t)' <=> told[t] > Own(t)
    <3> SUFFICES ASSUME NEW t \in StoryIds PROVE told'[t] > Own(t)' <=> told[t] > Own(t)
      OBVIOUS
    <3>1. told[t] \in Nat
      BY DEF TypeOK
    <3> QED
      BY <3>1, <2>3
  <2>5. Unborn'
    BY <1>1, <2>1, <2>2, <2>3 DEF Tale, Unborn
  <2>6. Faithful'
    BY <1>1 DEF Tale, Faithful, In
  <2>7. ToldIsPublished'
    BY <1>1, <2>4 DEF Tale, ToldIsPublished, In
  <2>8. TellersCounted'
    <3> SUFFICES ASSUME NEW t \in StoryIds
                 PROVE  told'[t] + Cardinality(Pending(t)') <= Cardinality(Publishers) + Own(t)'
      BY DEF TellersCounted
    <3>1. /\ told[t] \in Nat /\ Cardinality(Pending(t)) \in Nat /\ Cardinality(Publishers) \in Nat
          /\ told[t] + Cardinality(Pending(t)) <= Cardinality(Publishers) + Own(t)
      BY PendingCount, PublishersCount DEF TypeOK, Tale, TellersCounted
    <3>2. Pending(t)' = Pending(t)
      BY <2>2
    <3>3. CASE t = s
      BY <3>1, <3>2, <3>3, <2>3
    <3>4. CASE t # s
      BY <3>1, <3>2, <3>4, <2>3
    <3> QED
      BY <3>3, <3>4
  <2> QED
    BY <2>5, <2>6, <2>7, <2>8 DEF Tale
<1> QED
  BY <1>2, <1>3

-------------------------------------------------------------------------------

\* A run of the cron sees sessions that nobody published yet, so none of their
\* stories was announced by a cron.
LEMMA FindTale ==
  ASSUME TypeOK, TypeOK', Tale, NEW k \in Publishers, CronFind(k)
  PROVE  Tale'
<1>1. /\ row' = row /\ session' = session /\ told' = told /\ own' = own /\ cron[k] = Waits
      /\ cron' = [cron EXCEPT ![k] = [Waits EXCEPT !.seen = {n \in Sessions : Due(n)}]]
  BY DEF CronFind, Sees
<1>2. \A j \in Publishers \ {k} : cron'[j] = cron[j]
  BY <1>1 DEF TypeOK
<1>3. /\ cron'[k].tell = "none" /\ cron'[k].left = {}
      /\ \A n \in cron'[k].seen : n \in Sessions /\ ~session[n].published
  BY <1>1 DEF TypeOK, Waits, Due
<1>4. \A s \in StoryIds : Own(s)' = Own(s)
  BY <1>1 DEF Own
<1>5. \A s \in StoryIds : \/ Pending(s)' \subseteq Pending(s)
                          \/ \E n \in Sessions : n \in cron'[k].seen /\ In(s, n)
  <2> SUFFICES ASSUME NEW s \in StoryIds, ~\E n \in Sessions : n \in cron'[k].seen /\ In(s, n),
                      NEW j \in Pending(s)'
               PROVE  j \in Pending(s)
    OBVIOUS
  <2>1. j # k
    BY <1>1, <1>3, Constants DEF Pending, In
  <2> QED
    BY <2>1, <1>1, <1>2 DEF Pending, In
<1>6. \A s \in StoryIds : row[s].state = "none" => Pending(s)' = {}
  <2> SUFFICES ASSUME NEW s \in StoryIds, row[s].state = "none" PROVE Pending(s)' = {}
    OBVIOUS
  <2>1. Pending(s) = {} /\ \A n \in Sessions : ~In(s, n)
    BY Constants DEF Tale, Unborn, In
  <2> QED
    BY <2>1, <1>5
<1>7. Unborn'
  BY <1>1, <1>6 DEF Tale, Unborn
<1>8. Faithful'
  <2> SUFFICES ASSUME NEW j \in Publishers
               PROVE  /\ cron'[j].seen # {} => cron'[j].left = {} /\ cron'[j].tell = "none"
                      /\ \A s \in StoryIds :
                           /\ \A n \in Sessions : <<n, s>> \in cron'[j].left => In(s, n)'
                           /\ cron'[j].tell = s => \A n \in Sessions : <<n, s>> \notin cron'[j].left
    BY DEF Faithful
  <2>1. CASE j = k
    BY <2>1, <1>3
  <2>2. CASE j # k
    BY <2>2, <1>1, <1>2 DEF Tale, Faithful, In
  <2> QED
    BY <2>1, <2>2
<1>9. ToldIsPublished'
  BY <1>1, <1>2, <1>3, <1>4, Constants DEF Tale, ToldIsPublished, In
<1>10. TellersCounted'
  <2> SUFFICES ASSUME NEW s \in StoryIds
               PROVE  told'[s] + Cardinality(Pending(s)') <= Cardinality(Publishers) + Own(s)'
    BY DEF TellersCounted
  <2>1. CASE Pending(s)' \subseteq Pending(s)
    BY <2>1, <1>1, <1>4, FewerTellers DEF Tale, TellersCounted
  <2>2. CASE \E n \in Sessions : n \in cron'[k].seen /\ In(s, n)
    <3>1. ~(told[s] > Own(s))
      BY <2>2, <1>3 DEF Tale, ToldIsPublished
    <3>2. Pending(s)' \in SUBSET Publishers
      BY DEF Pending
    <3>3. /\ Cardinality(Pending(s)') \in Nat /\ Cardinality(Pending(s)') <= Cardinality(Publishers)
          /\ Cardinality(Publishers) \in Nat /\ told[s] \in Nat /\ Own(s) \in Nat
      BY <3>2, PublishersCount DEF TypeOK, Own
    <3> QED
      BY <3>1, <3>3, <1>1, <1>4
  <2> QED
    BY <2>1, <2>2, <1>5
<1> QED
  BY <1>7, <1>8, <1>9, <1>10 DEF Tale

\* A step of run k after which it may announce nothing it could not before, and that
\* publishes a session before it takes its story up.
LEMMA FewerTale ==
  ASSUME TypeOK, Tale, row' = row, told' = told, own' = own, NEW k \in Publishers,
         \A j \in Publishers \ {k} : cron'[j] = cron[j],
         \A n \in Sessions : session[n].published => session'[n].published,
         \A s \in StoryIds : k \in Pending(s)' => k \in Pending(s),
         cron'[k].seen = {},
         \A s \in StoryIds :
           /\ \A n \in Sessions : <<n, s>> \in cron'[k].left => In(s, n)
           /\ cron'[k].tell = s => /\ \A n \in Sessions : <<n, s>> \notin cron'[k].left
                                   /\ \A n \in Sessions : In(s, n) => session'[n].published
  PROVE  Tale'
<1>1. \A s \in StoryIds : Own(s)' = Own(s)
  BY DEF Own
<1>2. \A s \in StoryIds : Pending(s)' \subseteq Pending(s)
  <2> SUFFICES ASSUME NEW s \in StoryIds, NEW j \in Pending(s)', j # k PROVE j \in Pending(s)
    OBVIOUS
  <2> QED
    BY DEF Pending, In
<1>3. Unborn'
  BY <1>2 DEF Tale, Unborn
<1>4. Faithful'
  <2> SUFFICES ASSUME NEW j \in Publishers
               PROVE  /\ cron'[j].seen # {} => cron'[j].left = {} /\ cron'[j].tell = "none"
                      /\ \A s \in StoryIds :
                           /\ \A n \in Sessions : <<n, s>> \in cron'[j].left => In(s, n)'
                           /\ cron'[j].tell = s => \A n \in Sessions : <<n, s>> \notin cron'[j].left
    BY DEF Faithful
  <2>1. CASE j = k
    BY <2>1 DEF In
  <2>2. CASE j # k
    BY <2>2 DEF Tale, Faithful, In
  <2> QED
    BY <2>1, <2>2
<1>5. ToldIsPublished'
  <2> SUFFICES ASSUME NEW t \in StoryIds, NEW m \in Sessions, In(t, m),
                      told[t] > Own(t) \/ \E j \in Publishers : cron'[j].tell = t
               PROVE  session'[m].published
    BY <1>1 DEF ToldIsPublished, In
  <2>1. CASE cron'[k].tell = t
    BY <2>1
  <2>2. CASE cron'[k].tell # t
    BY <2>2 DEF Tale, ToldIsPublished
  <2> QED
    BY <2>1, <2>2
<1>6. TellersCounted'
  BY <1>1, <1>2, FewerTellers DEF Tale, TellersCounted
<1> QED
  BY <1>3, <1>4, <1>5, <1>6 DEF Tale

LEMMA FirstsTale ==
  ASSUME TypeOK, TypeOK', Tale, NEW k \in Publishers, CronFirsts(k)
  PROVE  Tale'
<1>1. PICK first \in [cron[k].seen -> SomeStory] :
        /\ \A n \in cron[k].seen : IsFirst(first[n], n)
        /\ cron' = [cron EXCEPT ![k] = [Waits EXCEPT !.left = {<<n, first[n]>> : n \in cron[k].seen}]]
  BY DEF CronFirsts
<1>2. row' = row /\ session' = session /\ told' = told /\ own' = own
  BY DEF CronFirsts
<1>3. \A j \in Publishers \ {k} : cron'[j] = cron[j]
  BY <1>1 DEF TypeOK
<1>4. /\ cron'[k].seen = {} /\ cron'[k].tell = "none"
      /\ cron'[k].left = {<<n, first[n]>> : n \in cron[k].seen}
  BY <1>1 DEF TypeOK, Waits
<1>5. \A n \in Sessions, s \in StoryIds : <<n, s>> \in cron'[k].left => n \in cron[k].seen /\ In(s, n)
  <2> SUFFICES ASSUME NEW n \in Sessions, NEW s \in StoryIds, <<n, s>> \in cron'[k].left
               PROVE  n \in cron[k].seen /\ In(s, n)
    OBVIOUS
  <2>1. n \in cron[k].seen /\ s = first[n]
    BY <1>4
  <2>2. IsFirst(s, n) /\ s # "none"
    BY <1>1, <2>1, Constants
  <2> QED
    BY <2>1, <2>2 DEF IsFirst
<1>6. \A s \in StoryIds : k \in Pending(s)' => k \in Pending(s)
  BY <1>4, <1>5, Constants DEF Pending
<1> QED
  BY <1>2, <1>3, <1>4, <1>5, <1>6, Constants, FewerTale

LEMMA PublishTale ==
  ASSUME TypeOK, TypeOK', Tale, NEW k \in Publishers, NEW n \in Sessions, NEW s \in SomeStory,
         CronPublish(k, n, s)
  PROVE  Tale'
<1>1. /\ row' = row /\ told' = told /\ own' = own
      /\ cron[k].tell = "none" /\ <<n, s>> \in cron[k].left
      /\ cron' = [cron EXCEPT ![k] = [Waits EXCEPT !.left = cron[k].left \ {<<n, s>>}, !.tell = s]]
  BY DEF CronPublish
<1>2. \A j \in Publishers \ {k} : cron'[j] = cron[j]
  BY <1>1 DEF TypeOK
<1>3. cron'[k].seen = {} /\ cron'[k].tell = s /\ cron'[k].left = cron[k].left \ {<<n, s>>}
  BY <1>1 DEF TypeOK, Waits
<1>4. session'[n].published /\ \A m \in Sessions : session[m].published => session'[m].published
  BY DEF CronPublish, Publish, TypeOK
<1>5. \A t \in StoryIds : k \in Pending(t)' => k \in Pending(t)
  BY <1>1, <1>3 DEF Pending
<1>6. \A t \in StoryIds, m \in Sessions : <<m, t>> \in cron[k].left => In(t, m)
  BY DEF Tale, Faithful
<1>7. \A t \in StoryIds, m \in Sessions : In(t, m) /\ In(t, n) => m = n
  BY DEF In
<1>8. \A t \in StoryIds :
        /\ \A m \in Sessions : <<m, t>> \in cron'[k].left => In(t, m)
        /\ cron'[k].tell = t => /\ \A m \in Sessions : <<m, t>> \notin cron'[k].left
                                /\ \A m \in Sessions : In(t, m) => session'[m].published
  BY <1>1, <1>3, <1>4, <1>6, <1>7
<1> QED
  BY <1>1, <1>2, <1>3, <1>4, <1>5, <1>8, FewerTale

LEMMA FailTale ==
  ASSUME TypeOK, TypeOK', Tale, NEW k \in Publishers, CronFails(k)
  PROVE  Tale'
<1>1. row' = row /\ session' = session /\ told' = told /\ own' = own
  BY DEF CronFails
<1>2. \A j \in Publishers \ {k} : cron'[j] = cron[j]
  BY DEF CronFails, TypeOK
<1>3. cron'[k].seen = {} /\ cron'[k].tell = "none" /\ cron'[k].left = {}
  BY DEF CronFails, TypeOK, Waits
<1>4. \A t \in StoryIds : k \notin Pending(t)'
  BY <1>3, Constants DEF Pending
<1> QED
  BY <1>1, <1>2, <1>3, <1>4, Constants, FewerTale

LEMMA TellTale ==
  ASSUME TypeOK, TypeOK', Tale, NEW k \in Publishers, CronTell(k)
  PROVE  Tale'
<1>0. PICK s \in StoryIds : cron[k].tell = s
  BY DEF CronTell, TypeOK, SomeStory
<1>1. row' = row /\ session' = session /\ own' = own
  BY DEF CronTell
<1>2. \A t \in StoryIds : /\ told'[t] = IF t = s THEN told[t] + 1 ELSE told[t]
                          /\ Own(t)' = Own(t) /\ Own(t) \in Nat
  BY <1>0, <1>1 DEF CronTell, Announce, TypeOK, Own
<1>3. \A j \in Publishers \ {k} : cron'[j] = cron[j]
  BY DEF CronTell, TypeOK
<1>4. cron'[k].tell = "none" /\ cron'[k].left = cron[k].left /\ cron'[k].seen = cron[k].seen
  BY DEF CronTell, TypeOK
<1>5. \A t \in StoryIds : Pending(t)' \subseteq Pending(t)
  BY <1>1, <1>3, <1>4, Constants DEF Pending, In
<1>6. k \in Pending(s) /\ Pending(s)' \subseteq Pending(s) \ {k}
  <2>1. k \in Pending(s)
    BY <1>0 DEF Pending
  <2>2. k \notin Pending(s)'
    <3>1. cron[k].seen = {} /\ \A n \in Sessions : <<n, s>> \notin cron[k].left
      BY <1>0, Constants DEF Tale, Faithful
    <3> QED
      BY <3>1, <1>4, Constants DEF Pending
  <2> QED
    BY <2>1, <2>2, <1>5
<1>7. Unborn'
  BY <1>1, <1>2, <1>5, <1>6 DEF Tale, Unborn
<1>8. Faithful'
  <2> SUFFICES ASSUME NEW j \in Publishers
               PROVE  /\ cron'[j].seen # {} => cron'[j].left = {} /\ cron'[j].tell = "none"
                      /\ \A t \in StoryIds :
                           /\ \A n \in Sessions : <<n, t>> \in cron'[j].left => In(t, n)'
                           /\ cron'[j].tell = t => \A n \in Sessions : <<n, t>> \notin cron'[j].left
    BY DEF Faithful
  <2>1. CASE j = k
    BY <2>1, <1>0, <1>1, <1>4, Constants DEF Tale, Faithful, In
  <2>2. CASE j # k
    BY <2>2, <1>1, <1>3 DEF Tale, Faithful, In
  <2> QED
    BY <2>1, <2>2
<1>9. ToldIsPublished'
  <2> SUFFICES ASSUME NEW t \in StoryIds, NEW m \in Sessions, In(t, m),
                      told'[t] > Own(t) \/ \E j \in Publishers : cron'[j].tell = t
               PROVE  session[m].published
    BY <1>1, <1>2 DEF ToldIsPublished, In
  <2>1. told[t] > Own(t) \/ \E j \in Publishers : cron[j].tell = t
    BY <1>0, <1>2, <1>3, <1>4, Constants
  <2> QED
    BY <2>1 DEF Tale, ToldIsPublished
<1>10. TellersCounted'
  <2> SUFFICES ASSUME NEW t \in StoryIds
               PROVE  told'[t] + Cardinality(Pending(t)') <= Cardinality(Publishers) + Own(t)'
    BY DEF TellersCounted
  <2>1. CASE t # s
    BY <2>1, <1>2, <1>5, FewerTellers DEF Tale, TellersCounted
  <2>2. CASE t = s
    <3>1. /\ Cardinality(Pending(s) \ {k}) = Cardinality(Pending(s)) - 1
          /\ Cardinality(Pending(s)') \in Nat /\ Cardinality(Pending(s)') <= Cardinality(Pending(s) \ {k})
          /\ Cardinality(Pending(s)) \in Nat /\ Cardinality(Publishers) \in Nat
      <4>1. Pending(s) \in SUBSET Publishers /\ Pending(s) \ {k} \in SUBSET Publishers
        BY PendingCount
      <4> QED
        BY <4>1, <1>6, PublishersCount
    <3>2. told[s] \in Nat /\ told'[s] = told[s] + 1 /\ Own(s)' = Own(s) /\ Own(s) \in Nat
      BY <1>2 DEF TypeOK
    <3>3. told[s] + Cardinality(Pending(s)) <= Cardinality(Publishers) + Own(s)
      BY DEF Tale, TellersCounted
    <3> QED
      BY <2>2, <3>1, <3>2, <3>3
  <2> QED
    BY <2>1, <2>2
<1> QED
  BY <1>7, <1>8, <1>9, <1>10 DEF Tale

LEMMA TaleNext ==
  ASSUME TypeOK, TypeOK', Tale, Duties, [Next]_vars
  PROVE  Tale'
<1>1. ASSUME NEW r \in Requests, RequestStep(r) PROVE Tale'
  <2>1. CASE Tell(r)
    BY <2>1, OwnTale
  <2>2. CASE \E s \in StoryIds : Insert(r, s)
    BY <2>2, InsertTale
  <2>3. CASE ~Tell(r) /\ ~\E s \in StoryIds : Insert(r, s)
    <3>1. row' = row /\ told' = told /\ own' = own /\ cron' = cron
      BY <1>1, <2>3 DEF RequestStep, CreateStart, BatchStart, Ensure, BatchEnd, RequestFails
    <3> QED
      BY <1>1, <3>1, RequestPublishes, SameTale
  <2> QED
    BY <2>1, <2>2, <2>3
<1>2. ASSUME NEW n \in Sessions, WorkerRead(n) PROVE Tale'
  BY <1>2, SameTale DEF WorkerRead
<1>3. CASE Tick \/ WorkerFails \/ UNCHANGED vars
  BY <1>3, SameTale DEF Tick, WorkerFails, vars
<1>4. CASE WorkerPublish
  <2>1. /\ told' = told /\ own' = own /\ cron' = cron /\ row' = row
        /\ \A m \in Sessions : session[m].published => session'[m].published
    BY <1>4 DEF WorkerPublish, Publish, TypeOK
  <2> QED
    BY <2>1, SameTale
<1>5. ASSUME NEW s \in StoryIds, Remove(s) PROVE Tale'
  <2>1. /\ told' = told /\ own' = own /\ cron' = cron /\ session' = session
        /\ \A t \in StoryIds : row'[t].session = row[t].session /\ (row'[t].state = "none" => row[t].state = "none")
    BY <1>5 DEF Remove, TypeOK
  <2> QED
    BY <2>1, SameTale
<1>6. ASSUME NEW k \in Publishers, CronStep(k) \/ CronFails(k) PROVE Tale'
  BY <1>6, FindTale, FirstsTale, TellTale, PublishTale, FailTale DEF CronStep
<1> QED
  BY <1>1, <1>2, <1>3, <1>4, <1>5, <1>6 DEF Next

-------------------------------------------------------------------------------

\* What explains the silence of session n.
Explained(n) ==
  \/ n \in quiet
  \/ \E s \in StoryIds : In(s, n) /\ told[s] > 0
  \/ \E k \in Publishers, s \in StoryIds : cron[k].tell = s /\ In(s, n)
  \/ \E r \in Requests : request[r].owes /\ request[r].session = n

\* A request that goes on owes as much as before, or what it publishes.
LEMMA OwingExplained ==
  ASSUME SilenceIsExplained, NEW r \in Requests,
         row' = row, told' = told, cron' = cron, quiet' = quiet,
         \A q \in Requests : q # r => request'[q] = request[q],
         request[r].owes => request'[r].owes /\ request'[r].session = request[r].session,
         \A n \in Sessions : session'[n].published =>
           session[n].published \/ (request'[r].owes /\ request'[r].session = n)
  PROVE  SilenceIsExplained'
<1>1. \A n \in Sessions : Explained(n) => Explained(n)'
  BY DEF Explained, In
<1>2. \A n \in Sessions : request'[r].owes /\ request'[r].session = n => Explained(n)'
  BY DEF Explained
<1> QED
  BY <1>1, <1>2 DEF SilenceIsExplained, Explained

LEMMA RequestExplained ==
  ASSUME TypeOK, TypeOK', Tale, Duties, SilenceIsExplained, NEW r \in Requests, RequestStep(r)
  PROVE  SilenceIsExplained'
<1>1. ASSUME NEW n \in SomeSession, CreateStart(r, n) PROVE SilenceIsExplained'
  <2>1. /\ \A q \in Requests : q # r => request'[q] = request[q]
        /\ request'[r].session = n /\ request'[r].owes = (n # "none")
        /\ ~request[r].owes
    BY <1>1 DEF CreateStart, Begins, TypeOK, Idle
  <2>2. row' = row /\ told' = told /\ cron' = cron /\ quiet' = quiet
    BY <1>1 DEF CreateStart
  <2>3. \A m \in Sessions : session'[m].published => session[m].published \/ (m = n /\ n # "none")
    BY <1>1, Constants DEF CreateStart, Publish, TypeOK
  <2> QED
    BY <2>1, <2>2, <2>3, OwingExplained
<1>2. ASSUME NEW n \in SomeSession, NEW t \in now .. MaxTime + 1 \union {Never}, BatchStart(r, n, t)
      PROVE  SilenceIsExplained'
  <2> DEFINE publishes == t = Never \/ Past(t)
             wrote == [at |-> t, published |-> session[n].published \/ publishes]
  <2>1. /\ \A q \in Requests : q # r => request'[q] = request[q]
        /\ request'[r].session = n
        /\ publishes /\ n # "none" => request'[r].owes
        /\ ~request[r].owes
    <3> HIDE DEF publishes
    <3>1. /\ request' = [request EXCEPT ![r] =
               [Idle EXCEPT !.step = "ensure", !.batch = TRUE, !.session = n,
                            !.at = IF publishes THEN 0 ELSE t, !.owes = publishes /\ n # "none"]]
          /\ request[r] = Idle
      BY <1>2 DEF BatchStart, Begins, publishes
    <3>2. request'[r] = [step |-> "ensure", batch |-> TRUE, session |-> n,
                         at |-> IF publishes THEN 0 ELSE t, story |-> "none",
                         owes |-> publishes /\ n # "none"]
      BY <3>1 DEF TypeOK, Idle
    <3>3. request'[r].owes = (publishes /\ n # "none")
      BY <3>2
    <3>4. publishes /\ n # "none" => request'[r].owes
      BY <3>3, Zenon
    <3>5. \A q \in Requests : q # r => request'[q] = request[q]
      BY <3>1 DEF TypeOK
    <3> QED
      BY <3>1, <3>2, <3>4, <3>5 DEF Idle
  <2>2. row' = row /\ told' = told /\ cron' = cron /\ quiet' = quiet
    BY <1>2 DEF BatchStart
  <2>3. \A m \in Sessions : session'[m].published => session[m].published \/ (m = n /\ publishes)
    <3>1. session' = IF n = "none" THEN session ELSE [session EXCEPT ![n] = wrote]
      BY <1>2 DEF BatchStart
    <3>2. wrote.published => session[n].published \/ publishes
      BY Zenon
    <3>3. \A m \in Sessions : session'[m] = session[m] \/ (m = n /\ session'[m] = wrote)
      <4> HIDE DEF wrote
      <4> QED
        BY <3>1 DEF TypeOK
    <3> HIDE DEF wrote, publishes
    <3> QED
      BY <3>2, <3>3
  <2>4. \A m \in Sessions : session'[m].published =>
          session[m].published \/ (request'[r].owes /\ request'[r].session = m)
    <3> HIDE DEF publishes
    <3> QED
      BY <2>1, <2>3, Constants
  <2> QED
    BY <2>1, <2>2, <2>4, OwingExplained
<1>3. CASE Ensure(r)
  <2> DEFINE publishes == request[r].session # "none" /\ request[r].at <= now
  <2>1. /\ \A q \in Requests : q # r => request'[q] = request[q]
        /\ request'[r].session = request[r].session
        /\ request[r].owes \/ publishes => request'[r].owes
    <3>1. request' = [request EXCEPT ![r].step = "insert", ![r].owes = @ \/ publishes]
      BY <1>3 DEF Ensure
    <3> HIDE DEF publishes
    <3> QED
      BY <3>1 DEF TypeOK
  <2>2. row' = row /\ told' = told /\ cron' = cron /\ quiet' = quiet
    BY <1>3 DEF Ensure
  <2>3. \A m \in Sessions : session'[m].published =>
          session[m].published \/ (m = request[r].session /\ publishes)
    BY <1>3 DEF Ensure, Publish, TypeOK
  <2>4. \A m \in Sessions : session'[m].published =>
          session[m].published \/ (request'[r].owes /\ request'[r].session = m)
    <3> HIDE DEF publishes
    <3> QED
      BY <2>1, <2>3
  <2> QED
    BY <2>1, <2>2, <2>4, OwingExplained
<1>4. ASSUME NEW s \in StoryIds, Insert(r, s) PROVE SilenceIsExplained'
  <2>1. /\ told[s] = 0 /\ \A k \in Publishers : cron[k].tell # s
        /\ told' = told /\ cron' = cron /\ quiet' = quiet /\ session' = session
        /\ \A q \in Requests : request'[q].owes = request[q].owes /\ request'[q].session = request[q].session
        /\ \A t \in StoryIds : t # s => row'[t] = row[t]
    BY <1>4 DEF Insert, TypeOK, Tale, Unborn, Pending
  <2>2. \A n \in Sessions : Explained(n) => Explained(n)'
    BY <2>1 DEF Explained, In
  <2> QED
    BY <2>1, <2>2 DEF SilenceIsExplained, Explained
<1>5. CASE Tell(r)
  <2>0. PICK s \in StoryIds : request[r].story = s /\ row[s].session = request[r].session
    BY <1>5 DEF Tell, Duties, Tellers, Telling
  <2>1. /\ row' = row /\ session' = session /\ cron' = cron /\ quiet' = quiet
        /\ \A q \in Requests : q # r => request'[q] = request[q]
    BY <1>5 DEF Tell, TypeOK
  <2>2. /\ request[r].owes => told'[s] > 0
        /\ \A t \in StoryIds : told[t] > 0 => told'[t] > 0
    <3>1. CASE request[r].at <= now
      <4>1. told' = [told EXCEPT ![s] = told[s] + 1]
        BY <1>5, <2>0, <3>1 DEF Tell, Announce
      <4> QED
        BY <4>1 DEF TypeOK
    <3>2. CASE ~(request[r].at <= now)
      BY <1>5, <3>2 DEF Tell, Duties, Debtors
    <3> QED
      BY <3>1, <3>2
  <2>3. \A n \in Sessions : Explained(n) => Explained(n)'
    <3> SUFFICES ASSUME NEW n \in Sessions, Explained(n) PROVE Explained(n)'
      OBVIOUS
    <3>1. CASE request[r].owes /\ request[r].session = n
      BY <3>1, <2>0, <2>1, <2>2 DEF Explained, In
    <3>2. CASE ~(request[r].owes /\ request[r].session = n)
      BY <3>2, <2>1, <2>2 DEF Explained, In
    <3> QED
      BY <3>1, <3>2
  <2> QED
    BY <2>1, <2>3 DEF SilenceIsExplained, Explained
<1>6. CASE BatchEnd(r)
  <2>1. /\ row' = row /\ told' = told /\ cron' = cron /\ quiet' = quiet /\ session' = session
        /\ \A q \in Requests : q # r => request'[q] = request[q]
        /\ ~request[r].owes
    BY <1>6 DEF BatchEnd, TypeOK, Duties, Debtors
  <2> QED
    BY <2>1, OwingExplained
<1>7. CASE RequestFails(r)
  <2>1. /\ row' = row /\ told' = told /\ cron' = cron /\ session' = session
        /\ \A q \in Requests : q # r => request'[q] = request[q]
        /\ quiet \subseteq quiet' /\ (request[r].owes => request[r].session \in quiet')
    BY <1>7 DEF RequestFails, TypeOK
  <2>2. \A n \in Sessions : Explained(n) => Explained(n)'
    BY <2>1 DEF Explained, In
  <2> QED
    BY <2>1, <2>2 DEF SilenceIsExplained, Explained
<1> QED
  BY <1>1, <1>2, <1>3, <1>4, <1>5, <1>6, <1>7 DEF RequestStep

LEMMA ExplainedNext ==
  ASSUME TypeOK, TypeOK', Tale, Duties, SilenceIsExplained, [Next]_vars
  PROVE  SilenceIsExplained'
<1>1. ASSUME NEW r \in Requests, RequestStep(r) PROVE SilenceIsExplained'
  BY <1>1, RequestExplained
<1>2. ASSUME told' = told, cron' = cron, request' = request, session' = session, quiet' = quiet,
             \A s \in StoryIds : row'[s].session = row[s].session
      PROVE  SilenceIsExplained'
  BY <1>2 DEF SilenceIsExplained, In
<1>3. ASSUME NEW n \in Sessions, WorkerRead(n) PROVE SilenceIsExplained'
  BY <1>2, <1>3 DEF WorkerRead
<1>4. CASE Tick \/ WorkerFails \/ UNCHANGED vars
  BY <1>2, <1>4 DEF Tick, WorkerFails, vars
<1>5. ASSUME NEW s \in StoryIds, Remove(s) PROVE SilenceIsExplained'
  <2>1. \A t \in StoryIds : row'[t].session = row[t].session
    BY <1>5 DEF Remove, TypeOK
  <2> QED
    BY <1>2, <1>5, <2>1 DEF Remove
<1>6. CASE WorkerPublish
  <2>1. /\ row' = row /\ told' = told /\ cron' = cron /\ request' = request
        /\ quiet' = quiet \union {worker}
        /\ \A m \in Sessions : m # worker => session'[m] = session[m]
    BY <1>6 DEF WorkerPublish, Publish, TypeOK
  <2> QED
    BY <2>1 DEF SilenceIsExplained, In
<1>7. ASSUME NEW k \in Publishers, CronFind(k) \/ CronFirsts(k) PROVE SilenceIsExplained'
  <2>1. /\ row' = row /\ told' = told /\ session' = session /\ quiet' = quiet /\ request' = request
        /\ \A j \in Publishers : cron'[j].tell = cron[j].tell
    <3>1. CASE CronFind(k)
      BY <3>1 DEF CronFind, Sees, TypeOK, Waits
    <3>2. CASE CronFirsts(k)
      <4>1. PICK left : cron' = [cron EXCEPT ![k] = [Waits EXCEPT !.left = left]]
        BY <3>2 DEF CronFirsts
      <4>2. cron[k].tell = "none"
        BY <3>2 DEF CronFirsts, Tale, Faithful
      <4> QED
        BY <3>2, <4>1, <4>2 DEF CronFirsts, TypeOK, Waits
    <3> QED
      BY <1>7, <3>1, <3>2
  <2> QED
    BY <2>1 DEF SilenceIsExplained, In
<1>8. ASSUME NEW k \in Publishers, NEW n \in Sessions, NEW s \in SomeStory, CronPublish(k, n, s)
      PROVE  SilenceIsExplained'
  <2>1. /\ row' = row /\ told' = told /\ quiet \subseteq quiet' /\ request' = request
        /\ cron[k].tell = "none" /\ <<n, s>> \in cron[k].left
        /\ s = "none" => n \in quiet'
    BY <1>8 DEF CronPublish
  <2>2. /\ \A m \in Sessions : m # n => session'[m] = session[m]
        /\ \A j \in Publishers : j # k => cron'[j] = cron[j]
        /\ cron'[k].tell = s
    BY <1>8 DEF CronPublish, Publish, TypeOK, Waits
  <2>3. s # "none" => s \in StoryIds /\ In(s, n)'
    BY <2>1 DEF Tale, Faithful, SomeStory, In
  <2>4. \A m \in Sessions : Explained(m) => Explained(m)'
    BY <2>1, <2>2, Constants DEF Explained, In
  <2>5. Explained(n)'
    BY <2>1, <2>2, <2>3 DEF Explained
  <2> QED
    BY <2>2, <2>4, <2>5 DEF SilenceIsExplained, Explained
<1>9. ASSUME NEW k \in Publishers, CronTell(k) PROVE SilenceIsExplained'
  <2>0. PICK s \in StoryIds : cron[k].tell = s
    BY <1>9 DEF CronTell, TypeOK, SomeStory
  <2>1. row' = row /\ session' = session /\ quiet' = quiet /\ request' = request
    BY <1>9 DEF CronTell
  <2>2. told' = [told EXCEPT ![s] = told[s] + 1]
    BY <1>9, <2>0 DEF CronTell, Announce
  <2>3. /\ told'[s] > 0 /\ \A t \in StoryIds : told[t] > 0 => told'[t] > 0
    BY <2>2 DEF TypeOK
  <2>4. \A j \in Publishers : j # k => cron'[j] = cron[j]
    BY <1>9 DEF CronTell, TypeOK
  <2>5. \A m \in Sessions : Explained(m) => Explained(m)'
    BY <2>0, <2>1, <2>3, <2>4 DEF Explained, In
  <2> QED
    BY <2>1, <2>5 DEF SilenceIsExplained, Explained
<1>10. ASSUME NEW k \in Publishers, CronFails(k) PROVE SilenceIsExplained'
  <2>1. /\ row' = row /\ told' = told /\ session' = session /\ request' = request
        /\ quiet' = quiet \union {n \in Sessions : \E s \in StoryIds : cron[k].tell = s /\ In(s, n)}
        /\ \A j \in Publishers : j # k => cron'[j] = cron[j]
    BY <1>10 DEF CronFails, TypeOK
  <2>2. \A m \in Sessions : Explained(m) => Explained(m)'
    BY <2>1 DEF Explained, In
  <2> QED
    BY <2>1, <2>2 DEF SilenceIsExplained, Explained
<1> QED
  BY <1>1, <1>3, <1>4, <1>5, <1>6, <1>7, <1>8, <1>9, <1>10 DEF Next, CronStep

LEMMA ScheduleInvariant == Spec => [](TypeOK /\ Tale /\ Duties /\ SilenceIsExplained)
<1>1. Init => TypeOK /\ Tale /\ Duties /\ SilenceIsExplained
  BY TypeInit, TaleInit, DutiesInit
<1>2. /\ TypeOK /\ Tale /\ Duties /\ SilenceIsExplained /\ [Next]_vars
      => (TypeOK /\ Tale /\ Duties /\ SilenceIsExplained)'
  BY TypeNext, TaleNext, DutiesNext, ExplainedNext
<1> QED
  BY <1>1, <1>2, PTL DEF Spec

\* However the publishers and the requests interleave, the state keeps its type.
THEOREM ScheduleTypeCorrect == Spec => []TypeOK
BY ScheduleInvariant, PTL

\* A story is announced at most once by each run of the cron that overlaps its
\* publication and once by the request that created it, whoever else publishes,
\* creates or removes stories meanwhile.
THEOREM AnnouncedFew == Spec => []AnnouncedBounded
<1>1. TypeOK /\ Tale => AnnouncedBounded
  <2> SUFFICES ASSUME TypeOK, Tale, NEW s \in StoryIds
               PROVE  told[s] <= Cardinality(Publishers) + Own(s)
    BY DEF AnnouncedBounded, Own
  <2>1. /\ told[s] \in Nat /\ Cardinality(Pending(s)) \in Nat /\ Cardinality(Publishers) \in Nat
        /\ Own(s) \in Nat
        /\ told[s] + Cardinality(Pending(s)) <= Cardinality(Publishers) + Own(s)
    BY PendingCount, PublishersCount DEF TypeOK, Tale, TellersCounted, Own
  <2> QED
    BY <2>1
<1> QED
  BY <1>1, ScheduleInvariant, PTL

\* A session is published in silence only by the media worker, by a cron that found
\* no story in it or ended early, or by a request that failed before it announced.
THEOREM SilenceExplained == Spec => []SilenceIsExplained
BY ScheduleInvariant, PTL
================================================================================

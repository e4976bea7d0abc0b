----------------------------- MODULE StorySchedule -----------------------------
(***************************************************************************)
(* Stories that are published on a schedule.                               *)
(*                                                                         *)
(* A batch of stories may be scheduled: its session is published when its  *)
(* time comes by whoever is first, a delayed job, taken by the media       *)
(* worker, or a cron of the API that runs every minute.  Only the cron     *)
(* announces it to the followers.  Stories that need not wait announce     *)
(* themselves when they are created.                                       *)
(***************************************************************************)
EXTENDS Naturals, FiniteSets

CONSTANTS
  StoryIds,     \* stories of one owner
  Sessions,     \* rows of StoryPublishSession
  Requests,     \* requests of the owner that may be in progress at once
  Publishers,   \* runs of publishScheduledStories that may overlap
  Never,        \* the time that is not set
  MaxTime,      \* bound of the model: the clock
  MaxBegun,     \* bound of the model: requests
  MaxFailures   \* bound of the model: requests, jobs and processes that fail

ASSUME ConstantsAssumption ==
  /\ IsFiniteSet(Publishers) /\ Publishers # {}
  /\ "none" \notin StoryIds \union Sessions
  /\ Never \notin Nat
  /\ {MaxTime, MaxBegun, MaxFailures} \subseteq Nat

VARIABLES
  now,       \* the time
  row,       \* row[s]: the story's row, with the session it was created in
  session,   \* session[n]: its row, "at" being its scheduledAt
  request,   \* request[r]: a create or createBatch in progress
  timer,     \* timer[n]: when the delayed job of n is due
  worker,    \* the session the media worker found unpublished
  cron,      \* cron[k]: sessions a run found, their first stories, the one to announce
  told,      \* told[s]: announcements of s
  own,       \* stories announced by the request that created them
  quiet,     \* sessions somebody published and then announced nothing
  begun,     \* requests begun so far
  failures   \* failures so far

vars == <<now, row, session, request, timer, worker, cron, told, own, quiet, begun, failures>>

SomeStory   == StoryIds \union {"none"}
SomeSession == Sessions \union {"none"}
SomeTime    == Nat \union {Never}

\* "at" is the request's publishAt, 0 if that is the time it began; it owes an
\* announcement once it has published its session.
Idle  == [step |-> "idle", batch |-> FALSE, session |-> "none", at |-> 0, story |-> "none", owes |-> FALSE]
Waits == [seen |-> {}, left |-> {}, tell |-> "none"]

TypeOK ==
  /\ now \in Nat
  /\ row \in [StoryIds -> [state : {"none", "row", "removed"}, session : SomeSession]]
  /\ session \in [Sessions -> [at : SomeTime, published : BOOLEAN]]
  /\ request \in [Requests -> [step : {"idle", "ensure", "insert", "tell", "more"}, batch : BOOLEAN,
                               session : SomeSession, at : Nat, story : SomeStory, owes : BOOLEAN]]
  /\ timer \in [Sessions -> SomeTime]
  /\ worker \in SomeSession
  /\ cron \in [Publishers -> [seen : SUBSET Sessions, left : SUBSET (Sessions \X SomeStory),
                              tell : SomeStory]]
  /\ told \in [StoryIds -> Nat]
  /\ own \in SUBSET StoryIds
  /\ quiet \in SUBSET Sessions
  /\ {begun, failures} \subseteq Nat

Init ==
  /\ now = 0
  /\ row = [s \in StoryIds |-> [state |-> "none", session |-> "none"]]
  /\ session = [n \in Sessions |-> [at |-> Never, published |-> FALSE]]
  /\ request = [r \in Requests |-> Idle]
  /\ timer = [n \in Sessions |-> Never]
  /\ worker = "none"
  /\ cron = [k \in Publishers |-> Waits]
  /\ told = [s \in StoryIds |-> 0]
  /\ own = {} /\ quiet = {}
  /\ begun = 0 /\ failures = 0

Past(t)       == t # Never /\ t <= now
Due(n)        == Past(session[n].at) /\ ~session[n].published
In(s, n)      == row[s].session = n
Publish(n)    == session' = [session EXCEPT ![n].published = TRUE]
Announce(s)   == told' = [told EXCEPT ![s] = @ + 1]

Fails ==
  /\ failures < MaxFailures               \* bound of the model
  /\ failures' = failures + 1

\* Slots that are not in use are alike too.
Begins(r, to) ==
  /\ request[r] = Idle
  /\ r = CHOOSE q \in Requests : request[q] = Idle
  /\ begun < MaxBegun                     \* bound of the model
  /\ begun' = begun + 1
  /\ request' = [request EXCEPT ![r] = to]

Tick ==
  /\ now < MaxTime                        \* bound of the model
  /\ now' = now + 1
  /\ UNCHANGED <<row, session, request, timer, worker, cron, told, own, quiet, begun, failures>>

(***************************************************************************)
(* create and createBatch.  The session's row is written before those of   *)
(* its stories, and the clock is read again at every step.                 *)
(***************************************************************************)
\* A story on its own, or in a session, which it publishes even if that session was
\* scheduled for later: publishAt is the time of the request.
CreateStart(r, n) ==
  /\ Begins(r, [Idle EXCEPT !.step = "insert", !.session = n, !.owes = n # "none"])
  /\ IF n = "none" THEN UNCHANGED session ELSE Publish(n)
  /\ UNCHANGED <<now, row, timer, worker, cron, told, own, quiet, failures>>

\* createBatch begins: the session gets its time, or none, and is published at once
\* if there is none or it has passed.  publishedAt, once set, stays.
BatchStart(r, n, t) ==
  LET publishes == t = Never \/ Past(t)
  IN /\ Begins(r, [Idle EXCEPT !.step = "ensure", !.batch = TRUE, !.session = n,
                               !.at = IF publishes THEN 0 ELSE t,
                               !.owes = publishes /\ n # "none"])
     /\ session' = IF n = "none" THEN session
                   ELSE [session EXCEPT ![n] = [at |-> t, published |-> @.published \/ publishes]]
     /\ UNCHANGED <<now, row, timer, worker, cron, told, own, quiet, failures>>

\* ensurePublishSession again, in the create of each story of the batch: it publishes
\* the session if the batch's own time has come.
Ensure(r) ==
  LET n == request[r].session
      publishes == n # "none" /\ request[r].at <= now
  IN /\ request[r].step \in {"ensure", "more"}
     /\ request' = [request EXCEPT ![r].step = "insert", ![r].owes = @ \/ publishes]
     /\ IF publishes THEN Publish(n) ELSE UNCHANGED session
     /\ UNCHANGED <<now, row, timer, worker, cron, told, own, quiet, begun, failures>>

\* Ids that are not in use are all alike: one stands for the others.
Insert(r, s) ==
  /\ request[r].step = "insert"
  /\ row[s].state = "none"
  /\ s = CHOOSE t \in StoryIds : row[t].state = "none"
  /\ row' = [row EXCEPT ![s] = [state |-> "row", session |-> request[r].session]]
  /\ request' = [request EXCEPT ![r].step = "tell", ![r].story = s]
  /\ UNCHANGED <<now, session, timer, worker, cron, told, own, quiet, begun, failures>>

\* What is left after the stickers: the story is announced if its time has come,
\* which it may have since Ensure looked.
Tell(r) ==
  LET s == request[r].story
      tells == request[r].at <= now
  IN /\ request[r].step = "tell"
     /\ request' = [request EXCEPT ![r] =
          IF @.batch THEN [@ EXCEPT !.step = "more", !.story = "none", !.owes = request[r].owes /\ ~tells]
          ELSE Idle]
     /\ IF tells THEN Announce(s) /\ own' = own \union {s} ELSE UNCHANGED <<told, own>>
     /\ UNCHANGED <<now, row, session, timer, worker, cron, quiet, begun, failures>>

\* The job's id is that of the session: a second one is not added while there is one.
BatchEnd(r) ==
  LET n == request[r].session
      t == request[r].at
  IN /\ request[r].step = "more"
     /\ request' = [request EXCEPT ![r] = Idle]
     /\ timer' = IF n # "none" /\ t > now /\ worker # n /\ timer[n] = Never
                 THEN [timer EXCEPT ![n] = t] ELSE timer
     /\ UNCHANGED <<now, row, session, worker, cron, told, own, quiet, begun, failures>>

\* A statement throws, the process dies, or the queue refuses the job.
RequestFails(r) ==
  /\ request[r] # Idle
  /\ Fails
  /\ request' = [request EXCEPT ![r] = Idle]
  /\ quiet' = IF request[r].owes THEN quiet \union {request[r].session} ELSE quiet
  /\ UNCHANGED <<now, row, session, timer, worker, cron, told, own, begun>>

\* The owner, the admin or the hourly cleaning takes a story away.
Remove(s) ==
  /\ row[s].state = "row"
  /\ row' = [row EXCEPT ![s].state = "removed"]
  /\ UNCHANGED <<now, session, request, timer, worker, cron, told, own, quiet, begun, failures>>

(***************************************************************************)
(* The two publishers.                                                     *)
(***************************************************************************)
\* The job finds its session as it is by now: perhaps put off since.
WorkerRead(n) ==
  /\ Past(timer[n])
  /\ worker = "none"
  /\ timer' = [timer EXCEPT ![n] = Never]
  /\ worker' = IF ~session[n].published /\ (session[n].at = Never \/ Past(session[n].at))
               THEN n ELSE "none"
  /\ UNCHANGED <<now, row, session, request, cron, told, own, quiet, begun, failures>>

\* The job tells nobody.
WorkerPublish ==
  /\ worker # "none"
  /\ worker' = "none"
  /\ Publish(worker)
  /\ quiet' = quiet \union {worker}
  /\ UNCHANGED <<now, row, request, timer, cron, told, own, begun, failures>>

\* Errors are logged: the job is done either way.
WorkerFails ==
  /\ worker # "none"
  /\ Fails
  /\ worker' = "none"
  /\ UNCHANGED <<now, row, session, request, timer, cron, told, own, quiet, begun>>

Sees(k, sessions) ==
  /\ cron[k] = Waits
  /\ sessions # {}
  /\ cron' = [cron EXCEPT ![k] = [Waits EXCEPT !.seen = sessions]]
  /\ UNCHANGED <<now, row, session, request, timer, worker, told, own, quiet, begun, failures>>

\* Mutant: publishedAt is not looked at.
CronFind_Again(k) == Sees(k, {n \in Sessions : Past(session[n].at)})

\* The query reads the sessions (twenty at a time in the code) ...
CronFind(k) == Sees(k, {n \in Sessions : Due(n)})

\* The first story of a session, in an order clients choose.
IsFirst(s, n) ==
  LET there == {t \in StoryIds : row[t].state = "row" /\ In(t, n)}
  IN IF there = {} THEN s = "none" ELSE s \in there

\* ... and then, with a statement of its own, the first story of each.
CronFirsts(k) ==
  /\ cron[k].seen # {}
  /\ \E first \in [cron[k].seen -> SomeStory] :
       /\ \A n \in cron[k].seen : IsFirst(first[n], n)
       /\ cron' = [cron EXCEPT ![k] = [Waits EXCEPT !.left = {<<n, first[n]>> : n \in cron[k].seen}]]
  /\ UNCHANGED <<now, row, session, request, timer, worker, told, own, quiet, begun, failures>>

\* Mutant: a session that has no story is passed over.
CronPublish_NeedsStory(k, n, s) ==
  /\ cron[k].tell = "none"
  /\ <<n, s>> \in cron[k].left
  /\ cron' = [cron EXCEPT ![k] = [Waits EXCEPT !.left = cron[k].left \ {<<n, s>>}, !.tell = s]]
  /\ IF s = "none" THEN UNCHANGED session ELSE Publish(n)
  /\ UNCHANGED <<now, row, request, timer, worker, told, own, quiet, begun, failures>>

CronPublish(k, n, s) ==
  /\ cron[k].tell = "none"
  /\ <<n, s>> \in cron[k].left
  /\ cron' = [cron EXCEPT ![k] = [Waits EXCEPT !.left = cron[k].left \ {<<n, s>>}, !.tell = s]]
  /\ Publish(n)
  /\ quiet' = IF s = "none" THEN quiet \union {n} ELSE quiet
  /\ UNCHANGED <<now, row, request, timer, worker, told, own, begun, failures>>

\* Mutant: a story that has gone in the meantime is not announced.
CronTell_IfThere(k) ==
  /\ cron[k].tell # "none"
  /\ cron' = [cron EXCEPT ![k].tell = "none"]
  /\ IF row[cron[k].tell].state = "row" THEN Announce(cron[k].tell) ELSE UNCHANGED told
  /\ UNCHANGED <<now, row, session, request, timer, worker, own, quiet, begun, failures>>

CronTell(k) ==
  /\ cron[k].tell # "none"
  /\ cron' = [cron EXCEPT ![k].tell = "none"]
  /\ Announce(cron[k].tell)
  /\ UNCHANGED <<now, row, session, request, timer, worker, own, quiet, begun, failures>>

\* The process dies, or an update throws: the run ends where it is.
CronFails(k) ==
  /\ cron[k] # Waits
  /\ Fails
  /\ cron' = [cron EXCEPT ![k] = Waits]
  /\ quiet' = quiet \union {n \in Sessions : \E s \in StoryIds : cron[k].tell = s /\ In(s, n)}
  /\ UNCHANGED <<now, row, session, request, timer, worker, told, own, begun>>

-------------------------------------------------------------------------------

CronStep(k) ==
  \/ CronFind(k) \/ CronFirsts(k) \/ CronTell(k)
  \/ \E n \in Sessions, s \in SomeStory : CronPublish(k, n, s)

RequestStep(r) ==
  \/ \E n \in SomeSession :
       CreateStart(r, n) \/ \E t \in now .. MaxTime + 1 \union {Never} : BatchStart(r, n, t)
  \/ Ensure(r) \/ Tell(r) \/ BatchEnd(r) \/ RequestFails(r)
  \/ \E s \in StoryIds : Insert(r, s)

Next ==
  \/ Tick
  \/ \E r \in Requests : RequestStep(r)
  \/ \E s \in StoryIds : Remove(s)
  \/ \E n \in Sessions : WorkerRead(n)
  \/ WorkerPublish
  \/ WorkerFails
  \/ \E k \in Publishers : CronStep(k) \/ CronFails(k)

Spec == Init /\ [][Next]_vars

\* The cron runs for ever.  The job is not relied on, nor is anybody's request.
Fairness == \A k \in Publishers : WF_vars(CronStep(k))

FairSpec == Spec /\ Fairness

\* A session whose time has come does not stay unpublished, even if its delayed
\* job was never queued, came before the session was put off or failed: the cron is
\* enough.
DueIsPublished == \A n \in Sessions : []<>~Due(n)

\* A session that is published, but none of whose stories was announced, is about to
\* be announced by the cron or by the request that published it, or was published
\* by somebody who announced nothing: the media worker, a cron that found no story
\* or ended early, or a request that failed between the session and the announcement.
SilenceIsExplained ==
  \A n \in Sessions :
    session[n].published
      => \/ n \in quiet
         \/ \E s \in StoryIds : In(s, n) /\ told[s] > 0
         \/ \E k \in Publishers, s \in StoryIds : cron[k].tell = s /\ In(s, n)
         \/ \E r \in Requests : request[r].owes /\ request[r].session = n

\* However publishers and requests interleave, a story is announced at most once by
\* each run of the cron that overlaps its session's publication, and once more by
\* the request that created it, if its time had come by the end of that.
AnnouncedBounded ==
  \A s \in StoryIds : told[s] <= Cardinality(Publishers) + (IF s \in own THEN 1 ELSE 0)
================================================================================

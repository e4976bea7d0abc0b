------------------------------- MODULE PostIndex -------------------------------
(***************************************************************************)
(* Posts, their moderation, and what the search knows of them.             *)
(*                                                                         *)
(* A request writes the Post row first and tells the search afterwards:    *)
(* an edit or an approval by a job of the queue "search-index", a          *)
(* withdrawal by deleting the document itself.  One worker takes the jobs; *)
(* it reads the row, and writes the document later.  An approved post then *)
(* goes to a second queue, whose worker matches it with saved alerts.      *)
(*                                                                         *)
(* No handler looks at the status it overwrites, so rejected, sold,        *)
(* expired and deleted are one status here, "withdrawn".  The posts are    *)
(* those of one owner, who may hide the account.                           *)
(***************************************************************************)
EXTENDS Naturals, FiniteSets

CONSTANTS
  Posts,        \* posts of the owner
  Handlers,     \* requests that may be in progress at once
  Alerts,       \* rows of SearchAlert
  ReindexMax,   \* posts a change of privacy reindexes (500 in the code)
  MaxChanges,   \* bound of the model: requests that write rows or reindex
  MaxFailures   \* bound of the model: calls, jobs and processes that fail

ASSUME ConstantsAssumption ==
  /\ IsFiniteSet(Posts) /\ "nothing" \notin Posts
  /\ ReindexMax \in Nat
  /\ MaxChanges \in Nat
  /\ MaxFailures \in Nat

VARIABLES
  post,      \* post[p]: the row's status
  private,   \* the owner's isPrivate
  index,     \* index[p]: the document the search engine holds
  jobs,      \* jobs[p]: waiting jobs that index p
  indexer,   \* the worker of those jobs: the post and the copy it read
  slot,      \* slot[h]: what request h still has to tell the search
  alert,     \* alert[a]: the row of a saved search
  matches,   \* posts with a waiting job that matches alerts
  matcher,   \* the worker of those jobs
  marked,    \* rows of SearchAlertNotification, as <<alert, post>>
  told,      \* told[a, p]: notifications a's owner got about p
  lost,      \* posts an index call or job of which failed and was not repeated
  raced,     \* posts whose document was deleted next to an index run or a new approval
  skipped,   \* posts beyond ReindexMax when the account's privacy changed
  changes,   \* such requests so far
  failures   \* failures so far

indexVars == <<index, jobs, indexer>>
alertVars == <<alert, matches, matcher, marked, told>>
ghosts    == <<lost, raced, skipped>>
vars == <<post, private, indexVars, slot, alertVars, ghosts, changes, failures>>

Status  == {"pendingReview", "approved", "withdrawn"}
Copies  == [status : Status, private : BOOLEAN]
NoDoc   == [status |-> "absent", private |-> FALSE]
Pairs   == Alerts \X Posts

Idle    == [post |-> "nothing", copy |-> NoDoc]
Rest    == [call |-> "none", left |-> {}]
Asleep  == [post |-> "nothing", todo |-> {}, tell |-> {}]

TypeOK ==
  /\ post \in [Posts -> Status \union {"none"}]
  /\ private \in BOOLEAN
  /\ index \in [Posts -> Copies \union {NoDoc}]
  /\ jobs \in [Posts -> Nat]
  /\ indexer \in [post : Posts, copy : Copies] \union {Idle}
  /\ slot \in [Handlers -> [call : {"queue", "remove"}, left : SUBSET Posts] \union {Rest}]
  /\ alert \in [Alerts -> {"none", "active", "off"}]
  /\ matches \in SUBSET Posts
  /\ matcher \in [post : Posts, todo : SUBSET Alerts, tell : SUBSET Alerts] \union {Asleep}
  /\ marked \in SUBSET Pairs
  /\ told \in [Pairs -> Nat]
  /\ {lost, raced, skipped} \subseteq SUBSET Posts
  /\ {changes, failures} \subseteq Nat

Init ==
  /\ post = [p \in Posts |-> "none"]
  /\ private = FALSE
  /\ index = [p \in Posts |-> NoDoc]
  /\ jobs = [p \in Posts |-> 0]
  /\ indexer = Idle
  /\ slot = [h \in Handlers |-> Rest]
  /\ alert = [a \in Alerts |-> "none"]
  /\ matches = {}
  /\ matcher = Asleep
  /\ marked = {}
  /\ told = [x \in Pairs |-> 0]
  /\ lost = {} /\ raced = {} /\ skipped = {}
  /\ changes = 0 /\ failures = 0

Exists(p) == post[p] # "none"
Copy(p)   == [status |-> post[p], private |-> private]

\* What suggestions and the search engine's filters select.
Findable(doc) == doc.status = "approved" /\ ~doc.private

(***************************************************************************)
(* Requests.  The row is written at once; what is left is told to the      *)
(* search afterwards.                                                      *)
(***************************************************************************)
Starts(h, call, posts) ==
  /\ slot[h] = Rest
  /\ slot' = [slot EXCEPT ![h] = IF posts = {} THEN Rest ELSE [call |-> call, left |-> posts]]

Changes ==
  /\ changes < MaxChanges                 \* bound of the model
  /\ changes' = changes + 1

Writes(p, status) ==
  /\ Changes
  /\ post' = [post EXCEPT ![p] = status]
  /\ UNCHANGED <<private, indexVars, alertVars, ghosts, failures>>

\* A banned word or the setting postsRequireApproval sends a new post to review.
Create(h, p) ==
  /\ ~Exists(p)
  /\ \E status \in {"approved", "pendingReview"} : Writes(p, status)
  /\ Starts(h, "queue", {p})

\* The owner's edit goes to review, whatever the post's status was.
Update(h, p) ==
  /\ Exists(p)
  /\ Writes(p, "pendingReview")
  /\ Starts(h, "queue", {p})

\* Mutant: an approval that leaves the search to the next edit.
Approve_NoJob(h, p) ==
  /\ Exists(p)
  /\ Writes(p, "approved")
  /\ Starts(h, "queue", {})

\* approve, and each element of bulkApprove
Approve(h, p) ==
  /\ Exists(p)
  /\ Writes(p, "approved")
  /\ Starts(h, "queue", {p})

\* updatePost of the admin, who may set any status
AdminUpdate(h, p) ==
  /\ Exists(p)
  /\ \E status \in Status : Writes(p, status)
  /\ Starts(h, "queue", {p})

\* markSold and delete of the owner; reject, deletePost, forceExpire and
\* resolveReport("remove") of the admin
Withdraw(h, p) ==
  /\ Exists(p)
  /\ Writes(p, "withdrawn")
  /\ Starts(h, "remove", {p})

\* updateProfile: the posts that are queued are the first ReindexMax found.
SetPrivate(h) ==
  LET Own == {p \in Posts : Exists(p)}
  IN /\ Changes
     /\ private' = ~private
     /\ \E found \in SUBSET Own :
          /\ \/ found = Own /\ Cardinality(Own) <= ReindexMax
             \/ Cardinality(found) = ReindexMax
          /\ Starts(h, "queue", found)
          /\ skipped' = skipped \union (Own \ found)
     /\ UNCHANGED <<post, indexVars, alertVars, lost, raced, failures>>

\* reindexAll of the admin
ReindexAll(h) ==
  /\ Changes
  /\ Starts(h, "queue", {p \in Posts : post[p] = "approved"})
  /\ UNCHANGED <<post, private, indexVars, alertVars, ghosts, failures>>

Does(h, p) ==
  LET left == slot[h].left \ {p}
  IN slot' = [slot EXCEPT ![h] = IF left = {} THEN Rest ELSE [slot[h] EXCEPT !.left = left]]

QueueIndex(h, p) ==
  /\ slot[h].call = "queue"
  /\ p \in slot[h].left
  /\ jobs' = [jobs EXCEPT ![p] = @ + 1]
  /\ Does(h, p)
  /\ UNCHANGED <<post, private, index, indexer, alertVars, ghosts, changes, failures>>

\* The deletion is asked for once.  It is too late if the post has been
\* approved again, and too early if the worker holds a copy of the row.
DeleteDocument(h, p) ==
  LET overlaps == indexer.post = p \/ Findable(Copy(p))
  IN /\ slot[h].call = "remove"
     /\ p \in slot[h].left
     /\ index' = [index EXCEPT ![p] = NoDoc]
     /\ raced' = IF overlaps THEN raced \union {p} ELSE raced \ {p}
     /\ lost' = IF overlaps THEN lost ELSE lost \ {p}
     /\ skipped' = IF overlaps THEN skipped ELSE skipped \ {p}
     /\ Does(h, p)
     /\ UNCHANGED <<post, private, jobs, indexer, alertVars, changes, failures>>

Fails ==
  /\ failures < MaxFailures               \* bound of the model
  /\ failures' = failures + 1

\* Redis or the search engine refuses the call, or the request's process dies.
TellFails(h) ==
  /\ slot[h] # Rest
  /\ Fails
  /\ lost' = lost \union slot[h].left
  /\ slot' = [slot EXCEPT ![h] = Rest]
  /\ UNCHANGED <<post, private, indexVars, alertVars, raced, skipped, changes>>

(***************************************************************************)
(* The worker of "search-index" (indexPost).                               *)
(***************************************************************************)
IndexRead(p) ==
  /\ indexer = Idle
  /\ jobs[p] > 0
  /\ jobs' = [jobs EXCEPT ![p] = @ - 1]
  /\ indexer' = [post |-> p, copy |-> Copy(p)]
  /\ UNCHANGED <<post, private, index, slot, alertVars, ghosts, changes, failures>>

\* Mutant: a post that is not public is put off instead of written.
IndexWrite_PutsOff(p) ==
  /\ indexer.post = p
  /\ IF Findable(indexer.copy)
     THEN index' = [index EXCEPT ![p] = indexer.copy] /\ UNCHANGED jobs
     ELSE jobs' = [jobs EXCEPT ![p] = @ + 1] /\ UNCHANGED index
  /\ indexer' = Idle
  /\ UNCHANGED <<post, private, slot, alertVars, ghosts, changes, failures>>

IndexWrite(p) ==
  LET right  == Findable(indexer.copy) = Findable(Copy(p))
      Heals(S) == IF right THEN S \ {p} ELSE S
  IN /\ indexer.post = p
     /\ index' = [index EXCEPT ![p] = indexer.copy]
     /\ matches' = IF indexer.copy.status = "approved" THEN matches \union {p} ELSE matches
     /\ indexer' = Idle
     /\ lost' = Heals(lost)
     /\ raced' = Heals(raced)
     /\ skipped' = Heals(skipped)
     /\ UNCHANGED <<post, private, jobs, slot, alert, matcher, marked, told, changes, failures>>

\* Jobs have one attempt: one that throws is gone.  One whose process died is
\* delivered again.
IndexFails(p) ==
  /\ indexer.post = p
  /\ Fails
  /\ indexer' = Idle
  /\ \/ lost' = lost \union {p} /\ UNCHANGED jobs
     \/ jobs' = [jobs EXCEPT ![p] = @ + 1] /\ UNCHANGED lost
  /\ UNCHANGED <<post, private, index, slot, alertVars, raced, skipped, changes>>

(***************************************************************************)
(* Saved searches.  Which posts an alert selects is left open.             *)
(***************************************************************************)
CreateAlert(a) ==
  /\ alert[a] = "none"
  /\ alert' = [alert EXCEPT ![a] = "active"]
  /\ UNCHANGED <<post, private, indexVars, slot, matches, matcher, marked, told, ghosts, changes, failures>>

DeactivateAlert(a) ==
  /\ alert[a] = "active"
  /\ alert' = [alert EXCEPT ![a] = "off"]
  /\ UNCHANGED <<post, private, indexVars, slot, matches, matcher, marked, told, ghosts, changes, failures>>

\* processAlertMatches looks at the row again, and reads the active alerts.
MatchRead(p) ==
  /\ matcher = Asleep
  /\ p \in matches
  /\ matches' = matches \ {p}
  /\ \E found \in SUBSET {a \in Alerts : alert[a] = "active"} :
       matcher' = IF post[p] = "approved" /\ found # {}
                  THEN [post |-> p, todo |-> found, tell |-> {}] ELSE Asleep
  /\ UNCHANGED <<post, private, indexVars, slot, alert, marked, told, ghosts, changes, failures>>

\* Mutant: the row of SearchAlertNotification is written after the notification.
MatchMark_Late(a) ==
  /\ a \in matcher.todo
  /\ matcher.tell = {}
  /\ matcher' = [matcher EXCEPT !.tell = IF <<a, matcher.post>> \in marked THEN {} ELSE {a},
                                !.todo = IF <<a, matcher.post>> \in marked THEN @ \ {a} ELSE @]
  /\ UNCHANGED <<post, private, indexVars, slot, alert, matches, marked, told, ghosts, changes, failures>>

MatchMark(a) ==
  LET pair == <<a, matcher.post>>
      left == matcher.todo \ {a}
  IN /\ a \in matcher.todo
     /\ matcher.tell = {}
     /\ marked' = marked \union {pair}
     /\ matcher' = IF pair \notin marked THEN [matcher EXCEPT !.todo = left, !.tell = {a}]
                   ELSE IF left = {} THEN Asleep ELSE [matcher EXCEPT !.todo = left]
     /\ UNCHANGED <<post, private, indexVars, slot, alert, matches, told, ghosts, changes, failures>>

MatchTell(a) ==
  /\ a \in matcher.tell
  /\ told' = [told EXCEPT ![<<a, matcher.post>>] = @ + 1]
  /\ matcher' = IF matcher.todo = {} THEN Asleep ELSE [matcher EXCEPT !.tell = {}]
  /\ UNCHANGED <<post, private, indexVars, slot, alert, matches, marked, ghosts, changes, failures>>

\* The worker dies or throws: the job is delivered again, or gone.
MatchFails ==
  /\ matcher # Asleep
  /\ Fails
  /\ matcher' = Asleep
  /\ matches' \in {matches, matches \union {matcher.post}}
  /\ UNCHANGED <<post, private, indexVars, slot, alert, marked, told, ghosts, changes>>

-------------------------------------------------------------------------------

RequestStep(h) ==
  \/ \E p \in Posts : \/ Create(h, p) \/ Update(h, p) \/ Approve(h, p) \/ AdminUpdate(h, p)
                      \/ Withdraw(h, p) \/ QueueIndex(h, p) \/ DeleteDocument(h, p)
  \/ SetPrivate(h)
  \/ ReindexAll(h)
  \/ TellFails(h)

IndexerStep(p) == IndexRead(p) \/ IndexWrite(p) \/ IndexFails(p)

MatcherStep ==
  \/ \E p \in Posts : MatchRead(p)
  \/ \E a \in Alerts : MatchMark(a) \/ MatchTell(a)
  \/ MatchFails

Next ==
  \/ \E h \in Handlers : RequestStep(h)
  \/ \E p \in Posts : IndexerStep(p)
  \/ \E a \in Alerts : CreateAlert(a) \/ DeactivateAlert(a)
  \/ MatcherStep

Spec == Init /\ [][Next]_vars

\* Requests go on to their end and the worker takes its jobs, unless something
\* fails.  Nothing obliges anybody to make a request.
Fairness ==
  /\ \A h \in Handlers, p \in Posts : WF_vars(QueueIndex(h, p)) /\ WF_vars(DeleteDocument(h, p))
  /\ \A p \in Posts : SF_vars(IndexRead(p)) /\ WF_vars(IndexWrite(p))

FairSpec == Spec /\ Fairness

(***************************************************************************)
(* The index.                                                              *)
(***************************************************************************)
Agrees(p) == Findable(index[p]) = Findable(Copy(p))

\* Somebody will still tell the search about p.
Coming(p) == jobs[p] > 0 \/ \E h \in Handlers : p \in slot[h].left

\* Nobody will: a call failed, two calls overlapped, or p was one post too many.
Forgotten(p) == p \in lost \union raced \union skipped

Holds(p) == indexer.post = p

\* Whatever interleaving of edits, approvals, withdrawals and index runs, the
\* search finds a post that is not public, or misses one that is, only while a
\* job or a call for it is on its way, or for one of the three reasons above.
\* A copy the worker read too early is always followed by another run.
StaleIsExplained ==
  \A p \in Posts :
    /\ ~Agrees(p) /\ ~Holds(p) => Coming(p) \/ Forgotten(p)
    /\ Holds(p) /\ Findable(indexer.copy) # Findable(Copy(p)) => Coming(p) \/ Forgotten(p)

\* Once people leave a post alone, the search comes to agree with it by itself,
\* with the same three exceptions.
IndexSettles == \A p \in Posts : []<>(Agrees(p) \/ Forgotten(p))

\* However often a post is approved again and jobs are repeated, an alert tells
\* its owner of a post at most once, and never without having recorded it.
AlertedOnce == \A x \in Pairs : told[x] <= 1 /\ (told[x] = 1 => x \in marked)
================================================================================

----------------------------- MODULE MediaObjects -----------------------------
(***************************************************************************)
(* The objects of the bucket, and the rows that name them by their keys:   *)
(* the media of a post, stories, and the archive of stories.               *)
(*                                                                         *)
(* A key is an upload and a generation.  The media worker reads a medium's *)
(* row, stores a smaller object under a key of the next generation, points *)
(* the row to it, and deletes the object it read.  Meanwhile a story may   *)
(* repost the medium, an edit may name the upload again, and the archive   *)
(* copies the keys of stories before their rows go.                        *)
(*                                                                         *)
(* The post has one medium, and everything here is one owner's.            *)
(***************************************************************************)
EXTENDS Naturals, FiniteSets

CONSTANTS
  Uploads,      \* files the owner uploads
  Media,        \* rows of PostMedia that the post gets over time
  StoryIds,     \* stories
  Workers,      \* jobs the media worker takes at a time
  Cleaners,     \* runs of the hourly cron that may overlap
  Requests,     \* requests of the owner and the admin that may be in progress at once
  MaxUses,      \* bound of the model: rows that are given a key of one upload
  MaxFailures   \* bound of the model: requests and processes that fail

ASSUME ConstantsAssumption ==
  /\ IsFiniteSet(Cleaners) /\ IsFiniteSet(Requests) /\ Cleaners \cap Requests = {}
  /\ MaxUses \in Nat /\ MaxFailures \in Nat

VARIABLES
  objects,    \* keys the bucket has an object under
  dropped,    \* <<m, key>>: the job of medium m has deleted the object under key
  uses,       \* uses[u]: rows that were given a key of u when they were created
  medium,     \* medium[m]: the row's state and key
  jobs,       \* media with a waiting job
  worker,     \* worker[w]: the medium and key it works on
  story,      \* story[s]: the row's state and key
  archive,    \* archive[s]: rows of StoryArchive made from s
  declined,   \* stories a cleaner deleted for an owner who keeps no archive
  actor,      \* actor[a]: how far cleaner or request a has got
  failures    \* failures so far

bucketVars == <<objects, dropped, uses>>
postVars   == <<medium, jobs, worker>>
storyVars  == <<story, archive, declined>>
vars == <<bucketVars, postVars, storyVars, actor, failures>>

Actors == Cleaners \union Requests
Keys   == Uploads \X Nat
NoKey  == <<"none", 0>>
Named  == Keys \union {NoKey}

Free   == [at |-> "idle", medium |-> "none", key |-> NoKey]
Idle   == [at |-> "idle", key |-> NoKey, story |-> "none", deletes |-> FALSE, left |-> {}]

TypeOK ==
  /\ objects \subseteq Keys
  /\ dropped \subseteq Media \X Keys
  /\ uses \in [Uploads -> Nat]
  /\ medium \in [Media -> [state : {"none", "row", "deleted"}, key : Named]]
  /\ jobs \subseteq Media
  /\ worker \in [Workers -> [at : {"idle", "store", "point", "drop"},
                             medium : Media \union {"none"}, key : Named]]
  /\ story \in [StoryIds -> [state : {"none", "live", "expired", "removed"}, key : Named]]
  /\ archive \in [StoryIds -> Nat]
  /\ declined \subseteq StoryIds
  /\ actor \in [Actors -> [at : {"idle", "page", "create", "repost", "next",
                                 "check", "copy", "delete", "count"},
                           key : Named, story : StoryIds \union {"none"},
                           deletes : BOOLEAN, left : SUBSET StoryIds]]
  /\ failures \in Nat

Init ==
  /\ objects = {}
  /\ dropped = {}
  /\ uses = [u \in Uploads |-> 0]
  /\ medium = [m \in Media |-> [state |-> "none", key |-> NoKey]]
  /\ jobs = {}
  /\ worker = [w \in Workers |-> Free]
  /\ story = [s \in StoryIds |-> [state |-> "none", key |-> NoKey]]
  /\ archive = [s \in StoryIds |-> 0]
  /\ declined = {}
  /\ actor = [a \in Actors |-> Idle]
  /\ failures = 0

Exists(s)    == story[s].state \in {"live", "expired"}
Shown        == {m \in Media : medium[m].state = "row"}
Raw(u)       == <<u, 0>>

\* The upload was confirmed; its record "upload:<key>" is kept for a day.
Uploaded(u)  == uses[u] > 0 \/ Raw(u) \in objects

Uses(key) ==
  /\ uses[key[1]] < MaxUses                  \* bound of the model
  /\ uses' = [uses EXCEPT ![key[1]] = @ + 1]

Fails ==
  /\ failures < MaxFailures                  \* bound of the model
  /\ failures' = failures + 1

(***************************************************************************)
(* Uploads, and the media of the post.                                     *)
(***************************************************************************)
\* presign, store and confirm
Upload(u) ==
  /\ Raw(u) \notin objects /\ uses[u] = 0
  /\ objects' = objects \union {Raw(u)}
  /\ UNCHANGED <<dropped, uses, postVars, storyVars, actor, failures>>

\* A row, and the job that optimises it.
AddMedium(m, key) ==
  /\ medium[m].state = "none"
  /\ m = CHOOSE n \in Media : medium[n].state = "none"
  /\ Uses(key)
  /\ medium' = [medium EXCEPT ![m] = [state |-> "row", key |-> key]]
  /\ jobs' = jobs \union {m}
  /\ UNCHANGED <<objects, dropped, worker, storyVars, failures>>

CreatePost(m, u) ==
  /\ \A n \in Media : medium[n].state = "none"
  /\ Uploaded(u)
  /\ AddMedium(m, Raw(u))
  /\ UNCHANGED actor

\* The edit page takes the keys to send from the media it shows, or from a new upload.
OpenEditor(r, key) ==
  /\ actor[r] = Idle
  /\ Shown # {}
  /\ key \in {medium[m].key : m \in Shown} \union {Raw(u) : u \in {v \in Uploads : Uploaded(v)}}
  /\ actor' = [actor EXCEPT ![r] = [Idle EXCEPT !.at = "page", !.key = key]]
  /\ UNCHANGED <<bucketVars, postVars, storyVars, failures>>

\* update refuses a key without a record: one of the worker's making, or one whose
\* record has expired.  It deletes the old rows first ...
SaveEditor(r, kept) ==
  /\ actor[r].at = "page"
  /\ IF kept /\ \E u \in Uploads : actor[r].key = Raw(u)
     THEN /\ medium' = [m \in Media |-> IF m \in Shown THEN [medium[m] EXCEPT !.state = "deleted"]
                                        ELSE medium[m]]
          /\ actor' = [actor EXCEPT ![r].at = "create"]
     ELSE /\ actor' = [actor EXCEPT ![r] = Idle]
          /\ UNCHANGED medium
  /\ UNCHANGED <<bucketVars, jobs, worker, storyVars, failures>>

\* ... and creates the new one after.
RecreateMedium(r, m) ==
  /\ actor[r].at = "create"
  /\ AddMedium(m, actor[r].key)
  /\ actor' = [actor EXCEPT ![r] = Idle]

(***************************************************************************)
(* The media worker.  Errors are logged and end the job; a job whose       *)
(* process died is delivered again.                                        *)
(***************************************************************************)
Works(w, to) == worker' = [worker EXCEPT ![w] = to]

WorkerRead(w, m) ==
  /\ worker[w] = Free
  /\ m \in jobs
  /\ jobs' = jobs \ {m}
  /\ Works(w, IF medium[m].state = "row" /\ medium[m].key \in objects
              THEN [at |-> "store", medium |-> m, key |-> medium[m].key] ELSE Free)
  /\ UNCHANGED <<bucketVars, medium, storyVars, actor, failures>>

\* The name of the new object is that of the old with a suffix.
Smaller(key) == <<key[1], key[2] + 1>>

\* Mutant: the upload goes as soon as the smaller object is there.
WorkerStore_Drops(w) ==
  /\ worker[w].at = "store"
  /\ objects' = (objects \ {worker[w].key}) \union {Smaller(worker[w].key)}
  /\ dropped' = dropped \union {<<worker[w].medium, worker[w].key>>}
  /\ Works(w, [worker[w] EXCEPT !.at = "point"])
  /\ UNCHANGED <<uses, medium, jobs, storyVars, actor, failures>>

WorkerStore(w) ==
  /\ worker[w].at = "store"
  /\ objects' = objects \union {Smaller(worker[w].key)}
  /\ Works(w, [worker[w] EXCEPT !.at = "point"])
  /\ UNCHANGED <<dropped, uses, medium, jobs, storyVars, actor, failures>>

\* Updating a row that an edit has deleted throws, and the original is kept.
WorkerPoint(w) ==
  LET m == worker[w].medium
  IN /\ worker[w].at = "point"
     /\ IF medium[m].state = "row"
        THEN /\ medium' = [medium EXCEPT ![m].key = Smaller(worker[w].key)]
             /\ Works(w, [worker[w] EXCEPT !.at = "drop"])
        ELSE Works(w, Free) /\ UNCHANGED medium
     /\ UNCHANGED <<bucketVars, jobs, storyVars, actor, failures>>

WorkerDrop(w) ==
  /\ worker[w].at = "drop"
  /\ objects' = objects \ {worker[w].key}
  /\ dropped' = dropped \union {<<worker[w].medium, worker[w].key>>}
  /\ Works(w, Free)
  /\ UNCHANGED <<uses, medium, jobs, storyVars, actor, failures>>

WorkerFails(w) ==
  /\ worker[w] # Free
  /\ Fails
  /\ Works(w, Free)
  /\ jobs' \in {jobs, jobs \union {worker[w].medium}}
  /\ UNCHANGED <<bucketVars, medium, storyVars, actor>>

(***************************************************************************)
(* Stories.                                                                *)
(***************************************************************************)
AddStory(s, key) ==
  /\ story[s].state = "none"
  /\ Uses(key)
  /\ story' = [story EXCEPT ![s] = [state |-> "live", key |-> key]]
  /\ UNCHANGED <<objects, dropped, postVars, archive, declined, failures>>

CreateStory(s, u) ==
  /\ Uploaded(u)
  /\ AddStory(s, Raw(u))
  /\ UNCHANGED actor

\* resolveRepostSource reads the key that the post or a story shows ...
RepostRead(r, key) ==
  /\ actor[r] = Idle
  /\ \/ \E m \in Shown : key = medium[m].key
     \/ \E s \in StoryIds : story[s].state = "live" /\ key = story[s].key
  /\ actor' = [actor EXCEPT ![r] = [Idle EXCEPT !.at = "repost", !.key = key]]
  /\ UNCHANGED <<bucketVars, postVars, storyVars, failures>>

\* ... and create writes the row.
RepostCreate(r, s) ==
  /\ actor[r].at = "repost"
  /\ AddStory(s, actor[r].key)
  /\ actor' = [actor EXCEPT ![r] = Idle]

Expire(s) ==
  /\ story[s].state = "live"
  /\ story' = [story EXCEPT ![s].state = "expired"]
  /\ UNCHANGED <<bucketVars, postVars, archive, declined, actor, failures>>

Begins(r, s, deletes) ==
  /\ actor[r] = Idle
  /\ Exists(s)
  /\ actor' = [actor EXCEPT ![r] = [Idle EXCEPT !.at = "check", !.story = s, !.deletes = deletes]]
  /\ UNCHANGED <<bucketVars, postVars, storyVars, failures>>

\* Mutant: a removal goes straight to the deletion.
RequestRemove_NoCopy(r, s) ==
  /\ actor[r] = Idle
  /\ Exists(s)
  /\ actor' = [actor EXCEPT ![r] = [Idle EXCEPT !.at = "delete", !.story = s, !.deletes = TRUE]]
  /\ UNCHANGED <<bucketVars, postVars, storyVars, failures>>

\* delete of the owner and adminForceDelete, which archive in any case
RequestRemove(r, s) == Begins(r, s, TRUE)

\* resolveArchiveIds, for a highlight made of stories that still exist
RequestHighlight(r, s) == Begins(r, s, FALSE)

\* Mutant: what has a copy is taken for cleaned.
CleanFind_Uncopied(c) ==
  LET found == {s \in StoryIds : story[s].state = "expired" /\ archive[s] = 0}
  IN /\ actor[c] = Idle
     /\ found # {}
     /\ actor' = [actor EXCEPT ![c] = [Idle EXCEPT !.at = "next", !.left = found]]
     /\ UNCHANGED <<bucketVars, postVars, storyVars, failures>>

CleanFind(c) ==
  LET found == {s \in StoryIds : story[s].state = "expired"}
  IN /\ actor[c] = Idle
     /\ found # {}
     /\ actor' = [actor EXCEPT ![c] = [Idle EXCEPT !.at = "next", !.left = found]]
     /\ UNCHANGED <<bucketVars, postVars, storyVars, failures>>

\* The owner's storyArchiveEnabled is read for each story, and may change.
CleanNext(c, s, keeps) ==
  /\ actor[c].at = "next"
  /\ s \in actor[c].left
  /\ actor' = [actor EXCEPT ![c] = [Idle EXCEPT !.at = IF keeps THEN "check" ELSE "delete", !.story = s,
                                                !.deletes = TRUE, !.left = actor[c].left \ {s}]]
  /\ declined' = IF keeps THEN declined ELSE declined \union {s}
  /\ UNCHANGED <<bucketVars, postVars, story, archive, failures>>

Rest(a) == IF actor[a].left = {} THEN Idle
           ELSE [Idle EXCEPT !.at = "next", !.left = actor[a].left]

\* After the copy comes the deletion, or nothing.
Copied(a) == IF actor[a].deletes THEN [actor[a] EXCEPT !.at = "delete"] ELSE Rest(a)

\* Mutant: the copy is made whether or not there is one.
Check_Blind(a) ==
  /\ actor[a].at = "check"
  /\ actor' = [actor EXCEPT ![a] = [actor[a] EXCEPT !.at = "copy"]]
  /\ UNCHANGED <<bucketVars, postVars, storyVars, failures>>

\* archiveFromStory looks for a copy ...
Check(a) ==
  /\ actor[a].at = "check"
  /\ actor' = [actor EXCEPT ![a] = IF archive[actor[a].story] > 0 THEN Copied(a)
                                   ELSE [actor[a] EXCEPT !.at = "copy"]]
  /\ UNCHANGED <<bucketVars, postVars, storyVars, failures>>

\* ... and makes one.
Copy(a) ==
  /\ actor[a].at = "copy"
  /\ archive' = [archive EXCEPT ![actor[a].story] = @ + 1]
  /\ actor' = [actor EXCEPT ![a] = Copied(a)]
  /\ UNCHANGED <<bucketVars, postVars, story, declined, failures>>

\* Deleting a row that is gone throws, and ends the cleaner's whole run.
Delete(a) ==
  LET s == actor[a].story
  IN /\ actor[a].at = "delete"
     /\ IF Exists(s)
        THEN /\ story' = [story EXCEPT ![s].state = "removed"]
             /\ actor' = [actor EXCEPT ![a] = IF a \in Requests THEN [actor[a] EXCEPT !.at = "count"]
                                              ELSE Rest(a)]
        ELSE actor' = [actor EXCEPT ![a] = Idle] /\ UNCHANGED story
     /\ UNCHANGED <<bucketVars, postVars, archive, declined, failures>>

\* safeDeleteMediaIfOrphaned looks at stories and their archive, not at posts.
Count(r) ==
  LET key   == story[actor[r].story].key
      named == \E s \in StoryIds : story[s].key = key /\ (Exists(s) \/ archive[s] > 0)
  IN /\ actor[r].at = "count"
     /\ objects' = IF named THEN objects ELSE objects \ {key}
     /\ actor' = [actor EXCEPT ![r] = Idle]
     /\ UNCHANGED <<dropped, uses, postVars, storyVars, failures>>

ActorFails(a) ==
  /\ actor[a].at \notin {"idle", "page"}
  /\ Fails
  /\ actor' = [actor EXCEPT ![a] = Idle]
  /\ UNCHANGED <<bucketVars, postVars, storyVars>>

-------------------------------------------------------------------------------

PostStep ==
  \/ \E u \in Uploads : Upload(u)
  \/ \E m \in Media : \/ \E u \in Uploads : CreatePost(m, u)
                      \/ \E r \in Requests : RecreateMedium(r, m)
  \/ \E r \in Requests, kept \in BOOLEAN : SaveEditor(r, kept)
  \/ \E r \in Requests, key \in Uploads \X (0 .. MaxFailures + 1) : OpenEditor(r, key)

WorkerStep(w) ==
  \/ \E m \in Media : WorkerRead(w, m)
  \/ WorkerStore(w) \/ WorkerPoint(w) \/ WorkerDrop(w) \/ WorkerFails(w)

StoryStep(s) ==
  \/ \E u \in Uploads : CreateStory(s, u)
  \/ Expire(s)
  \/ \E r \in Requests : RepostCreate(r, s) \/ RequestRemove(r, s) \/ RequestHighlight(r, s)

CleanerStarts(c) == CleanFind(c) \/ \E s \in StoryIds, keeps \in BOOLEAN : CleanNext(c, s, keeps)

ActorStep(a) == Check(a) \/ Copy(a) \/ Delete(a) \/ ActorFails(a)

Next ==
  \/ PostStep
  \/ \E w \in Workers : WorkerStep(w)
  \/ \E s \in StoryIds : StoryStep(s)
  \/ \E r \in Requests : \/ Count(r)
                         \/ \E key \in Uploads \X (0 .. MaxFailures + 1) : RepostRead(r, key)
  \/ \E c \in Cleaners : CleanerStarts(c)
  \/ \E a \in Actors : ActorStep(a)

Spec == Init /\ [][Next]_vars

\* The cron runs for ever.
Fairness == \A c \in Cleaners : WF_vars(CleanerStarts(c) \/ Check(c) \/ Copy(c) \/ Delete(c))

FairSpec == Spec /\ Fairness

(***************************************************************************)
(* Objects.                                                                *)
(***************************************************************************)
\* The job of some medium has deleted the object under key.
DroppedBy(n, key) == <<n, key>> \in dropped

\* A medium never loses its object to its own job, however often that is repeated,
\* dies or is overtaken by an edit, and neither does a removal, a cleaner or a failure
\* take away what a medium, a story or the archive shows.  What is missing was
\* deleted by the job of another medium: one that a repost or an edit gave the
\* same upload.
MissingIsShared ==
  /\ \A m \in Shown : \/ medium[m].key \in objects
                      \/ \E n \in Media \ {m} : DroppedBy(n, medium[m].key)
  /\ \A s \in StoryIds :
       Exists(s) \/ archive[s] > 0 => \/ story[s].key \in objects
                                      \/ \E n \in Media : DroppedBy(n, story[s].key)

(***************************************************************************)
(* The archive.                                                            *)
(***************************************************************************)
\* No interleaving of cleaners, removals and failures deletes a story that is not
\* archived, except for an owner who had the archive switched off.
RemovedIsArchived ==
  \A s \in StoryIds : story[s].state = "removed" => archive[s] > 0 \/ s \in declined

\* Checks and copies of one story interleave, so there may be several copies, but
\* never more than there are parties at work at the same time.
CopiesBounded == \A s \in StoryIds : archive[s] <= Cardinality(Actors)

\* An expired story does not stay, although a cleaner's run ends early when the
\* owner removes one of the stories it found.
ExpiredGoes == \A s \in StoryIds : []<>(story[s].state # "expired")
================================================================================

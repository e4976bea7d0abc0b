-------------------------- MODULE MediaObjects_proofs --------------------------
(***************************************************************************)
(* No story goes without a copy in the archive, it gets few copies, and    *)
(* only the job of another medium takes the object of a row away.          *)
(***************************************************************************)
EXTENDS MediaObjects, FiniteSetTheorems, TLAPS

Places == {"idle", "page", "create", "repost", "next", "check", "copy", "delete", "count"}

ActorStates ==
  [at : Places,
   key : Named, story : StoryIds \union {"none"}, deletes : BOOLEAN, left : SUBSET StoryIds]

WorkerStates ==
  [at : {"idle", "store", "point", "drop"}, medium : Media \union {"none"}, key : Named]

\* A worker is free or holds a medium and a key.
Holds(x) == x.at # "idle" /\ x.medium \in Media /\ x.key \in Keys

WorkersHold == \A w \in Workers : worker[w] = Free \/ Holds(worker[w])

-------------------------------------------------------------------------------

LEMMA Constants ==
  /\ IsFiniteSet(Actors) /\ Cleaners \cap Requests = {}
  /\ MaxUses \in Nat /\ MaxFailures \in Nat
BY ConstantsAssumption, FS_Union DEF ConstantsAssumption, Actors

LEMMA KeyFacts ==
  /\ \A key \in Keys : /\ key[1] \in Uploads /\ key[2] \in Nat /\ key \in Named
                       /\ Smaller(key) \in Keys /\ Smaller(key)[1] = key[1] /\ Smaller(key)[2] = key[2] + 1
  /\ \A u \in Uploads : Raw(u) \in Keys /\ Raw(u)[1] = u
BY DEF Keys, Named, Smaller, Raw

LEMMA IdleTyped ==
  /\ Idle \in ActorStates /\ Idle.at = "idle" /\ Idle.left = {}
  /\ Free \in WorkerStates /\ Free.at = "idle"
BY DEF Idle, Free, ActorStates, WorkerStates, Named, Places

\* A cleaner between two stories.
LEMMA FromIdleNext ==
  ASSUME NEW left \in SUBSET StoryIds, NEW x, x = [Idle EXCEPT !.at = "next", !.left = left]
  PROVE  x \in ActorStates /\ x.at = "next" /\ x.left = left
BY IdleTyped DEF ActorStates, Places

\* What becomes of the actors when one of them moves.
LEMMA ActorMoved ==
  ASSUME TypeOK, NEW a \in Actors, NEW x \in ActorStates, actor' = [actor EXCEPT ![a] = x]
  PROVE  /\ actor' \in [Actors -> ActorStates] /\ actor'[a] = x
         /\ \A b \in Actors : b # a => actor'[b] = actor[b]
BY DEF TypeOK, ActorStates, Places

LEMMA WorkerMoved ==
  ASSUME TypeOK, NEW w \in Workers, NEW x \in WorkerStates, Works(w, x)
  PROVE  /\ worker' \in [Workers -> WorkerStates] /\ worker'[w] = x
         /\ \A v \in Workers : v # w => worker'[v] = worker[v]
BY DEF TypeOK, WorkerStates, Works

(***************************************************************************)
(* What each action makes of the actor that takes it.                      *)
(***************************************************************************)
LEMMA RestTyped ==
  ASSUME TypeOK, NEW a \in Actors
  PROVE  /\ Rest(a) \in ActorStates /\ Rest(a).at \in {"idle", "next"} /\ Rest(a).left \subseteq actor[a].left
         /\ Copied(a) \in ActorStates
         /\ \/ Copied(a) = Rest(a)
            \/ Copied(a).at = "delete" /\ Copied(a).story = actor[a].story /\ Copied(a).left = actor[a].left
<1>1. actor[a] \in ActorStates
  BY DEF TypeOK, ActorStates, Places
<1>2. Rest(a) \in ActorStates /\ Rest(a).at \in {"idle", "next"} /\ Rest(a).left \subseteq actor[a].left
  <2>1. CASE actor[a].left = {}
    BY <2>1, IdleTyped DEF Rest, Idle
  <2>2. CASE actor[a].left # {}
    <3>1. Rest(a) = [Idle EXCEPT !.at = "next", !.left = actor[a].left]
      BY <2>2 DEF Rest
    <3>2. actor[a].left \in SUBSET StoryIds
      BY <1>1 DEF ActorStates
    <3> QED
      BY <3>1, <3>2, FromIdleNext
  <2> QED
    BY <2>1, <2>2
<1>3. [actor[a] EXCEPT !.at = "delete"] \in ActorStates
  BY <1>1 DEF ActorStates, Places
<1>4. /\ [actor[a] EXCEPT !.at = "delete"].at = "delete"
      /\ [actor[a] EXCEPT !.at = "delete"].story = actor[a].story
      /\ [actor[a] EXCEPT !.at = "delete"].left = actor[a].left
  BY <1>1 DEF ActorStates
<1> QED
  BY <1>2, <1>3, <1>4 DEF Copied

LEMMA EditorMoves ==
  ASSUME TypeOK, NEW r \in Requests, NEW key, OpenEditor(r, key)
  PROVE  \E x \in ActorStates :
           actor' = [actor EXCEPT ![r] = x] /\ x.at = "page" /\ x.key = key /\ x.left = {}
<1>1. key \in Named
  BY KeyFacts DEF OpenEditor, TypeOK, Shown
<1>2. PICK x : x = [Idle EXCEPT !.at = "page", !.key = key]
  OBVIOUS
<1>3. x \in ActorStates /\ x.at = "page" /\ x.key = key /\ x.left = {}
  BY <1>1, <1>2, IdleTyped DEF ActorStates, Places
<1>4. actor' = [actor EXCEPT ![r] = x]
  BY <1>2 DEF OpenEditor
<1> QED
  BY <1>3, <1>4

LEMMA RepostMoves ==
  ASSUME TypeOK, NEW r \in Requests, NEW key, RepostRead(r, key)
  PROVE  \E x \in ActorStates :
           actor' = [actor EXCEPT ![r] = x] /\ x.at = "repost" /\ x.key = key /\ x.left = {}
<1>1. key \in Named
  BY DEF RepostRead, TypeOK, Shown
<1>2. PICK x : x = [Idle EXCEPT !.at = "repost", !.key = key]
  OBVIOUS
<1>3. x \in ActorStates /\ x.at = "repost" /\ x.key = key /\ x.left = {}
  BY <1>1, <1>2, IdleTyped DEF ActorStates, Places
<1>4. actor' = [actor EXCEPT ![r] = x]
  BY <1>2 DEF RepostRead
<1> QED
  BY <1>3, <1>4

LEMMA SaveMoves ==
  ASSUME TypeOK, NEW r \in Requests, NEW kept \in BOOLEAN, SaveEditor(r, kept)
  PROVE  \E x \in ActorStates :
           /\ actor' = [actor EXCEPT ![r] = x]
           /\ x = Idle \/ (x.at = "create" /\ x.key = actor[r].key /\ x.left = actor[r].left /\ actor[r].at = "page")
<1>1. r \in Actors /\ actor[r] \in ActorStates /\ actor[r].at = "page"
  BY DEF SaveEditor, TypeOK, ActorStates, Actors, Places
<1>2. CASE actor' = [actor EXCEPT ![r].at = "create"]
  <2>1. actor' = [actor EXCEPT ![r] = [actor[r] EXCEPT !.at = "create"]]
    BY <1>2
  <2>2. [actor[r] EXCEPT !.at = "create"] \in ActorStates
    BY <1>1 DEF ActorStates, Places
  <2>3. /\ [actor[r] EXCEPT !.at = "create"].at = "create" /\ [actor[r] EXCEPT !.at = "create"].key = actor[r].key
        /\ [actor[r] EXCEPT !.at = "create"].left = actor[r].left
    BY <1>1 DEF ActorStates
  <2> QED
    BY <1>1, <2>1, <2>2, <2>3
<1>3. CASE actor' = [actor EXCEPT ![r] = Idle]
  BY <1>3, IdleTyped
<1> QED
  BY <1>2, <1>3 DEF SaveEditor

LEMMA BeginMoves ==
  ASSUME TypeOK, NEW r \in Requests, NEW s \in StoryIds, NEW deletes, deletes \in BOOLEAN, Begins(r, s, deletes)
  PROVE  \E x \in ActorStates :
           actor' = [actor EXCEPT ![r] = x] /\ x.at = "check" /\ x.story = s /\ x.left = {}
<1>1. PICK x : x = [Idle EXCEPT !.at = "check", !.story = s, !.deletes = deletes]
  OBVIOUS
<1>2. x \in ActorStates /\ x.at = "check" /\ x.story = s /\ x.left = {}
  BY <1>1, IdleTyped DEF ActorStates, Places
<1>3. actor' = [actor EXCEPT ![r] = x]
  BY <1>1 DEF Begins
<1> QED
  BY <1>2, <1>3

LEMMA FindMoves ==
  ASSUME TypeOK, NEW c \in Cleaners, CleanFind(c)
  PROVE  \E x \in ActorStates :
           /\ actor' = [actor EXCEPT ![c] = x] /\ x.at = "next"
           /\ \A s \in x.left : story[s].state = "expired"
<1> DEFINE found == {s \in StoryIds : story[s].state = "expired"}
<1>1. PICK x : x = [Idle EXCEPT !.at = "next", !.left = found]
  OBVIOUS
<1>2. x \in ActorStates /\ x.at = "next" /\ x.left = found
  BY <1>1, FromIdleNext
<1>3. actor' = [actor EXCEPT ![c] = x]
  BY <1>1 DEF CleanFind
<1> QED
  BY <1>2, <1>3

LEMMA NextMoves ==
  ASSUME TypeOK, NEW c \in Cleaners, NEW s \in StoryIds, NEW keeps, CleanNext(c, s, keeps)
  PROVE  \E x \in ActorStates :
           /\ actor' = [actor EXCEPT ![c] = x] /\ x.story = s /\ s \in actor[c].left /\ x.left \subseteq actor[c].left
           /\ x.at = IF keeps THEN "check" ELSE "delete"
<1>1. PICK to : to = IF keeps THEN "check" ELSE "delete"
  OBVIOUS
<1>2. PICK left : left = actor[c].left \ {s}
  OBVIOUS
<1>3. PICK x : x = [Idle EXCEPT !.at = to, !.story = s, !.deletes = TRUE, !.left = left]
  OBVIOUS
<1>4. to \in Places /\ left \in SUBSET StoryIds
  BY <1>1, <1>2 DEF TypeOK, Actors, Places
<1>5. x \in ActorStates /\ x.at = to /\ x.story = s /\ x.left = left
  BY <1>3, <1>4, IdleTyped DEF ActorStates
<1>6. actor' = [actor EXCEPT ![c] = x] /\ s \in actor[c].left
  BY <1>1, <1>2, <1>3 DEF CleanNext
<1> QED
  BY <1>1, <1>2, <1>5, <1>6

LEMMA CheckMoves ==
  ASSUME TypeOK, NEW a \in Actors, Check(a)
  PROVE  \E x \in ActorStates :
           /\ actor' = [actor EXCEPT ![a] = x]
           /\ \/ archive[actor[a].story] > 0 /\ x = Copied(a)
              \/ /\ ~(archive[actor[a].story] > 0)
                 /\ x.at = "copy" /\ x.story = actor[a].story /\ x.left = actor[a].left
<1>1. CASE archive[actor[a].story] > 0
  BY <1>1, RestTyped DEF Check
<1>2. CASE ~(archive[actor[a].story] > 0)
  <2>1. PICK x : x = [actor[a] EXCEPT !.at = "copy"]
    OBVIOUS
  <2>2. actor[a] \in ActorStates
    BY DEF TypeOK, ActorStates, Places
  <2>3. x \in ActorStates /\ x.at = "copy" /\ x.story = actor[a].story /\ x.left = actor[a].left
    BY <2>1, <2>2 DEF ActorStates, Places
  <2>4. actor' = [actor EXCEPT ![a] = x]
    BY <1>2, <2>1 DEF Check
  <2> QED
    BY <1>2, <2>3, <2>4
<1> QED
  BY <1>1, <1>2

LEMMA DeleteMoves ==
  ASSUME TypeOK, NEW a \in Actors, Delete(a)
  PROVE  \E x \in ActorStates :
           /\ actor' = [actor EXCEPT ![a] = x]
           /\ \/ x = Idle
              \/ x = Rest(a)
              \/ a \in Requests /\ x.at = "count" /\ x.story = actor[a].story /\ x.left = actor[a].left
<1>1. PICK x : x = [actor[a] EXCEPT !.at = "count"]
  OBVIOUS
<1>2. actor[a] \in ActorStates
  BY DEF TypeOK, ActorStates, Places
<1>3. x \in ActorStates /\ x.at = "count" /\ x.story = actor[a].story /\ x.left = actor[a].left
  BY <1>1, <1>2 DEF ActorStates, Places
<1>4. \/ actor' = [actor EXCEPT ![a] = Idle]
      \/ actor' = [actor EXCEPT ![a] = Rest(a)]
      \/ a \in Requests /\ actor' = [actor EXCEPT ![a] = x]
  BY <1>1 DEF Delete
<1> QED
  BY <1>3, <1>4, IdleTyped, RestTyped

-------------------------------------------------------------------------------
(***************************************************************************)
(* Type correctness.                                                       *)
(***************************************************************************)
LEMMA TypeParts ==
  TypeOK <=> /\ objects \subseteq Keys /\ dropped \subseteq Media \X Keys /\ uses \in [Uploads -> Nat]
             /\ medium \in [Media -> [state : {"none", "row", "deleted"}, key : Named]]
             /\ jobs \subseteq Media /\ worker \in [Workers -> WorkerStates]
             /\ story \in [StoryIds -> [state : {"none", "live", "expired", "removed"}, key : Named]]
             /\ archive \in [StoryIds -> Nat] /\ declined \subseteq StoryIds
             /\ actor \in [Actors -> ActorStates] /\ failures \in Nat
BY DEF TypeOK, WorkerStates, ActorStates, Places

LEMMA TypePartsNext ==
  TypeOK' <=> /\ objects' \subseteq Keys /\ dropped' \subseteq Media \X Keys /\ uses' \in [Uploads -> Nat]
              /\ medium' \in [Media -> [state : {"none", "row", "deleted"}, key : Named]]
              /\ jobs' \subseteq Media /\ worker' \in [Workers -> WorkerStates]
              /\ story' \in [StoryIds -> [state : {"none", "live", "expired", "removed"}, key : Named]]
              /\ archive' \in [StoryIds -> Nat] /\ declined' \subseteq StoryIds
              /\ actor' \in [Actors -> ActorStates] /\ failures' \in Nat
BY DEF TypeOK, WorkerStates, ActorStates, Places

LEMMA TypeInit == Init => TypeOK /\ WorkersHold
<1> SUFFICES ASSUME Init PROVE TypeOK /\ WorkersHold
  OBVIOUS
<1>1. worker \in [Workers -> WorkerStates] /\ actor \in [Actors -> ActorStates]
  BY IdleTyped DEF Init
<1>2. TypeOK
  BY <1>1, TypeParts DEF Init, Named
<1>3. WorkersHold
  BY DEF Init, WorkersHold
<1> QED
  BY <1>2, <1>3

\* A step of an actor that leaves objects, media and stories typed.
LEMMA ActorTyped ==
  ASSUME TypeOK, NEW a \in Actors, NEW x \in ActorStates, actor' = [actor EXCEPT ![a] = x]
  PROVE  actor' \in [Actors -> ActorStates]
BY ActorMoved

LEMMA UseTyped ==
  ASSUME TypeOK, NEW u, uses' = [uses EXCEPT ![u] = @ + 1]
  PROVE  uses' \in [Uploads -> Nat] /\ \A v \in Uploads : uses'[v] = IF v = u THEN uses[v] + 1 ELSE uses[v]
<1>1. uses \in [Uploads -> Nat]
  BY DEF TypeOK
<1>2. CASE u \in Uploads
  BY <1>1, <1>2
<1>3. CASE u \notin Uploads
  BY <1>1, <1>3
<1> QED
  BY <1>2, <1>3

LEMMA MediumAdded ==
  ASSUME TypeOK, NEW m \in Media, NEW key \in Named, AddMedium(m, key)
  PROVE  /\ objects' = objects /\ dropped' = dropped /\ worker' = worker /\ story' = story /\ archive' = archive
         /\ declined' = declined /\ failures' = failures
         /\ medium[m].state = "none" /\ medium'[m].state = "row" /\ medium'[m].key = key
         /\ \A n \in Media : n # m => medium'[n] = medium[n]
         /\ medium' \in [Media -> [state : {"none", "row", "deleted"}, key : Named]]
         /\ uses' = [uses EXCEPT ![key[1]] = @ + 1] /\ uses' \in [Uploads -> Nat]
         /\ jobs' = jobs \union {m}
<1>1. /\ objects' = objects /\ dropped' = dropped /\ worker' = worker /\ story' = story /\ archive' = archive
      /\ declined' = declined /\ failures' = failures /\ jobs' = jobs \union {m} /\ medium[m].state = "none"
  BY DEF AddMedium, storyVars
<1>2. medium' = [medium EXCEPT ![m] = [state |-> "row", key |-> key]]
  BY DEF AddMedium
<1>3. /\ medium'[m].state = "row" /\ medium'[m].key = key
      /\ \A n \in Media : n # m => medium'[n] = medium[n]
  BY <1>2 DEF TypeOK
<1>4. medium' \in [Media -> [state : {"none", "row", "deleted"}, key : Named]]
  BY <1>2 DEF TypeOK
<1>5. uses' = [uses EXCEPT ![key[1]] = @ + 1]
  BY DEF AddMedium, Uses
<1>6. uses' \in [Uploads -> Nat]
  BY <1>5, UseTyped
<1> QED
  BY <1>1, <1>3, <1>4, <1>5, <1>6

LEMMA StoryAdded ==
  ASSUME TypeOK, NEW s \in StoryIds, NEW key \in Named, AddStory(s, key)
  PROVE  /\ objects' = objects /\ dropped' = dropped /\ medium' = medium /\ jobs' = jobs /\ worker' = worker
         /\ archive' = archive /\ declined' = declined /\ failures' = failures
         /\ story[s].state = "none" /\ story'[s].state = "live" /\ story'[s].key = key
         /\ \A t \in StoryIds : t # s => story'[t] = story[t]
         /\ story' \in [StoryIds -> [state : {"none", "live", "expired", "removed"}, key : Named]]
         /\ uses' = [uses EXCEPT ![key[1]] = @ + 1] /\ uses' \in [Uploads -> Nat]
<1>1. /\ objects' = objects /\ dropped' = dropped /\ medium' = medium /\ jobs' = jobs /\ worker' = worker
      /\ archive' = archive /\ declined' = declined /\ failures' = failures /\ story[s].state = "none"
  BY DEF AddStory, postVars
<1>2. story' = [story EXCEPT ![s] = [state |-> "live", key |-> key]]
  BY DEF AddStory
<1>3. /\ story'[s].state = "live" /\ story'[s].key = key
      /\ \A t \in StoryIds : t # s => story'[t] = story[t]
  BY <1>2 DEF TypeOK
<1>4. story' \in [StoryIds -> [state : {"none", "live", "expired", "removed"}, key : Named]]
  BY <1>2 DEF TypeOK
<1>5. uses' = [uses EXCEPT ![key[1]] = @ + 1]
  BY DEF AddStory, Uses
<1>6. uses' \in [Uploads -> Nat]
  BY <1>5, UseTyped
<1> QED
  BY <1>1, <1>3, <1>4, <1>5, <1>6

\* The worker's steps.
LEMMA WorkerStepTyped ==
  ASSUME TypeOK, WorkersHold, NEW w \in Workers, WorkerStep(w)
  PROVE  /\ TypeOK' /\ WorkersHold'
         /\ uses' = uses /\ storyVars' = storyVars /\ actor' = actor
<1>0. /\ objects \subseteq Keys /\ dropped \subseteq Media \X Keys /\ uses \in [Uploads -> Nat]
      /\ medium \in [Media -> [state : {"none", "row", "deleted"}, key : Named]]
      /\ jobs \subseteq Media /\ worker \in [Workers -> WorkerStates]
      /\ story \in [StoryIds -> [state : {"none", "live", "expired", "removed"}, key : Named]]
      /\ archive \in [StoryIds -> Nat] /\ declined \subseteq StoryIds
      /\ actor \in [Actors -> ActorStates] /\ failures \in Nat
  BY TypeParts
<1>1. ASSUME NEW x \in WorkerStates, Works(w, x), x = Free \/ Holds(x),
             objects' \subseteq Keys, dropped' \subseteq Media \X Keys,
             medium' \in [Media -> [state : {"none", "row", "deleted"}, key : Named]],
             jobs' \subseteq Media, uses' = uses, storyVars' = storyVars, actor' = actor, failures' \in Nat
      PROVE  TypeOK' /\ WorkersHold' /\ uses' = uses /\ storyVars' = storyVars /\ actor' = actor
  <2>1. story' = story /\ archive' = archive /\ declined' = declined
    BY <1>1 DEF storyVars
  <2>2. /\ worker' \in [Workers -> WorkerStates] /\ worker'[w] = x
        /\ \A v \in Workers : v # w => worker'[v] = worker[v]
    BY <1>1, WorkerMoved
  <2>3. WorkersHold'
    BY <1>1, <2>2 DEF WorkersHold
  <2> QED
    BY <1>0, <1>1, <2>1, <2>2, <2>3, TypePartsNext
<1>7. ASSUME Works(w, Free), objects' \subseteq Keys, dropped' \subseteq Media \X Keys,
             medium' \in [Media -> [state : {"none", "row", "deleted"}, key : Named]],
             jobs' \subseteq Media, uses' = uses, storyVars' = storyVars, actor' = actor, failures' \in Nat
      PROVE  TypeOK' /\ WorkersHold' /\ uses' = uses /\ storyVars' = storyVars /\ actor' = actor
  <2>1. PICK x : x = Free
    OBVIOUS
  <2>2. x \in WorkerStates /\ Works(w, x)
    BY <1>7, <2>1, IdleTyped
  <2> QED
    BY <1>1, <1>7, <2>1, <2>2
<1>2. ASSUME NEW m \in Media, WorkerRead(w, m)
      PROVE  TypeOK' /\ WorkersHold' /\ uses' = uses /\ storyVars' = storyVars /\ actor' = actor
  <2>1. uses' = uses /\ storyVars' = storyVars /\ actor' = actor /\ failures' = failures
        /\ objects' = objects /\ dropped' = dropped /\ medium' = medium /\ jobs' \subseteq Media
    BY <1>0, <1>2 DEF WorkerRead, bucketVars
  <2>2. CASE medium[m].state = "row" /\ medium[m].key \in objects
    <3>1. Works(w, [at |-> "store", medium |-> m, key |-> medium[m].key])
      BY <1>2, <2>2 DEF WorkerRead
    <3>2. medium[m].key \in Keys
      BY <1>0, <2>2
    <3>3. /\ [at |-> "store", medium |-> m, key |-> medium[m].key] \in WorkerStates
          /\ Holds([at |-> "store", medium |-> m, key |-> medium[m].key])
      BY <3>2, KeyFacts DEF WorkerStates, Holds
    <3> QED
      BY <1>0, <1>1, <2>1, <3>1, <3>2, <3>3
  <2>3. CASE ~(medium[m].state = "row" /\ medium[m].key \in objects)
    <3>1. Works(w, Free)
      BY <1>2, <2>3 DEF WorkerRead
    <3> QED
      BY <1>0, <1>7, <2>1, <3>1
  <2> QED
    BY <2>2, <2>3
<1>3. CASE WorkerStore(w)
  <2>1. worker[w] \in WorkerStates /\ worker[w].medium \in Media /\ worker[w].key \in Keys
    BY <1>0, <1>3, IdleTyped DEF WorkerStore, WorkersHold, Holds
  <2>2. PICK x : x = [worker[w] EXCEPT !.at = "point"]
    OBVIOUS
  <2>3. x \in WorkerStates /\ Holds(x)
    BY <2>1, <2>2 DEF WorkerStates, Holds
  <2>4. objects' \subseteq Keys
    BY <1>0, <1>3, <2>1, KeyFacts DEF WorkerStore
  <2>5. Works(w, x) /\ uses' = uses /\ storyVars' = storyVars /\ actor' = actor /\ failures' = failures
        /\ medium' = medium /\ jobs' = jobs /\ dropped' = dropped
    BY <1>3, <2>2 DEF WorkerStore
  <2> QED
    BY <1>0, <1>1, <2>1, <2>3, <2>4, <2>5
<1>4. CASE WorkerPoint(w)
  <2>1. worker[w] \in WorkerStates /\ worker[w].medium \in Media /\ worker[w].key \in Keys
    BY <1>0, <1>4, IdleTyped DEF WorkerPoint, WorkersHold, Holds
  <2>2. uses' = uses /\ storyVars' = storyVars /\ actor' = actor /\ failures' = failures
        /\ objects' = objects /\ dropped' = dropped /\ jobs' = jobs
    BY <1>4 DEF WorkerPoint, bucketVars
  <2>3. CASE medium[worker[w].medium].state = "row"
    <3>1. PICK x : x = [worker[w] EXCEPT !.at = "drop"]
      OBVIOUS
    <3>2. x \in WorkerStates /\ Holds(x)
      BY <2>1, <3>1 DEF WorkerStates, Holds
    <3>3. Works(w, x) /\ medium' = [medium EXCEPT ![worker[w].medium].key = Smaller(worker[w].key)]
      BY <1>4, <2>3, <3>1 DEF WorkerPoint
    <3>4. Smaller(worker[w].key) \in Named
      BY <2>1, KeyFacts
    <3>5. medium' \in [Media -> [state : {"none", "row", "deleted"}, key : Named]]
      BY <1>0, <2>1, <3>3, <3>4
    <3> QED
      BY <1>0, <1>1, <2>1, <2>2, <3>2, <3>3, <3>5
  <2>4. CASE medium[worker[w].medium].state # "row"
    <3>1. Works(w, Free) /\ medium' = medium
      BY <1>4, <2>4 DEF WorkerPoint
    <3> QED
      BY <1>0, <1>7, <2>2, <3>1
  <2> QED
    BY <2>3, <2>4
<1>5. CASE WorkerDrop(w)
  <2>0. worker[w].medium \in Media /\ worker[w].key \in Keys
    BY <1>0, <1>5, IdleTyped DEF WorkerDrop, WorkersHold, Holds
  <2>2. dropped' \subseteq Media \X Keys
    BY <1>0, <1>5, <2>0 DEF WorkerDrop
  <2>1. objects' \subseteq Keys /\ Works(w, Free) /\ uses' = uses /\ storyVars' = storyVars
        /\ actor' = actor /\ failures' = failures /\ medium' = medium /\ jobs' = jobs
    BY <1>0, <1>5 DEF WorkerDrop
  <2> QED
    BY <1>0, <1>7, <2>1, <2>2
<1>6. CASE WorkerFails(w)
  <2>1. /\ Works(w, Free) /\ uses' = uses /\ storyVars' = storyVars /\ actor' = actor
        /\ medium' = medium /\ objects' = objects /\ dropped' = dropped
    BY <1>6 DEF WorkerFails, bucketVars
  <2>2. failures' \in Nat
    BY <1>0, <1>6 DEF WorkerFails, Fails
  <2>3. jobs' \subseteq Media
    BY <1>0, <1>6 DEF WorkerFails, WorkersHold, Holds
  <2> QED
    BY <1>0, <1>7, <2>1, <2>2, <2>3
<1> QED
  BY <1>2, <1>3, <1>4, <1>5, <1>6 DEF WorkerStep

LEMMA TypeNext == TypeOK /\ WorkersHold /\ [Next]_vars => TypeOK' /\ WorkersHold'
<1> SUFFICES ASSUME TypeOK, WorkersHold, [Next]_vars PROVE TypeOK' /\ WorkersHold'
  OBVIOUS
<1>0. /\ objects \subseteq Keys /\ dropped \subseteq Media \X Keys /\ uses \in [Uploads -> Nat]
      /\ medium \in [Media -> [state : {"none", "row", "deleted"}, key : Named]]
      /\ jobs \subseteq Media /\ worker \in [Workers -> WorkerStates]
      /\ story \in [StoryIds -> [state : {"none", "live", "expired", "removed"}, key : Named]]
      /\ archive \in [StoryIds -> Nat] /\ declined \subseteq StoryIds
      /\ actor \in [Actors -> ActorStates] /\ failures \in Nat
  BY TypeParts
\* The worker does nothing: its slots stay as they are.
<1> DEFINE Rested == worker' = worker
<1>1. Rested => WorkersHold'
  BY DEF WorkersHold
<1>2. ASSUME NEW u \in Uploads, Upload(u) PROVE TypeOK' /\ Rested
  <2>1. objects' \subseteq Keys
    BY <1>0, <1>2, KeyFacts DEF Upload
  <2> QED
    BY <1>0, <1>2, <2>1, TypePartsNext DEF Upload, postVars, storyVars
<1>3. ASSUME NEW m \in Media, NEW u \in Uploads, CreatePost(m, u) PROVE TypeOK' /\ Rested
  <2>1. AddMedium(m, Raw(u)) /\ actor' = actor /\ Raw(u) \in Named
    BY <1>3, KeyFacts DEF CreatePost
  <2> QED
    BY <1>0, <2>1, MediumAdded, TypePartsNext
<1>4. ASSUME NEW m \in Media, NEW r \in Requests, RecreateMedium(r, m) PROVE TypeOK' /\ Rested
  <2>1. /\ AddMedium(m, actor[r].key) /\ actor' = [actor EXCEPT ![r] = Idle]
        /\ r \in Actors /\ actor[r].key \in Named
    BY <1>0, <1>4 DEF RecreateMedium, Actors, ActorStates
  <2>2. actor' \in [Actors -> ActorStates]
    BY <1>0, <2>1, IdleTyped
  <2> QED
    BY <1>0, <2>1, <2>2, MediumAdded, TypePartsNext
<1>5. ASSUME NEW r \in Requests, NEW kept \in BOOLEAN, SaveEditor(r, kept) PROVE TypeOK' /\ Rested
  <2>1. actor' \in [Actors -> ActorStates]
    BY <1>5, SaveMoves, ActorMoved DEF Actors
  <2>2. medium' \in [Media -> [state : {"none", "row", "deleted"}, key : Named]]
    BY <1>0, <1>5 DEF SaveEditor
  <2> QED
    BY <1>0, <1>5, <2>1, <2>2, TypePartsNext DEF SaveEditor, bucketVars, storyVars
<1>6. ASSUME NEW r \in Requests, NEW key, OpenEditor(r, key) PROVE TypeOK' /\ Rested
  <2>1. actor' \in [Actors -> ActorStates]
    BY <1>6, EditorMoves, ActorMoved DEF Actors
  <2> QED
    BY <1>0, <1>6, <2>1, TypePartsNext DEF OpenEditor, bucketVars, postVars, storyVars
<1>7. ASSUME NEW s \in StoryIds, NEW u \in Uploads, CreateStory(s, u) PROVE TypeOK' /\ Rested
  <2>1. AddStory(s, Raw(u)) /\ actor' = actor /\ Raw(u) \in Named
    BY <1>7, KeyFacts DEF CreateStory
  <2> QED
    BY <1>0, <2>1, StoryAdded, TypePartsNext
<1>8. ASSUME NEW s \in StoryIds, NEW r \in Requests, RepostCreate(r, s) PROVE TypeOK' /\ Rested
  <2>1. /\ AddStory(s, actor[r].key) /\ actor' = [actor EXCEPT ![r] = Idle]
        /\ r \in Actors /\ actor[r].key \in Named
    BY <1>0, <1>8 DEF RepostCreate, Actors, ActorStates
  <2>2. actor' \in [Actors -> ActorStates]
    BY <1>0, <2>1, IdleTyped
  <2> QED
    BY <1>0, <2>1, <2>2, StoryAdded, TypePartsNext
<1>9. ASSUME NEW s \in StoryIds, Expire(s) PROVE TypeOK' /\ Rested
  <2>1. story' \in [StoryIds -> [state : {"none", "live", "expired", "removed"}, key : Named]]
    BY <1>0, <1>9 DEF Expire
  <2> QED
    BY <1>0, <1>9, <2>1, TypePartsNext DEF Expire, bucketVars, postVars
<1>10. ASSUME NEW r \in Requests, NEW key, RepostRead(r, key) PROVE TypeOK' /\ Rested
  <2>1. actor' \in [Actors -> ActorStates]
    BY <1>10, RepostMoves, ActorMoved DEF Actors
  <2> QED
    BY <1>0, <1>10, <2>1, TypePartsNext DEF RepostRead, bucketVars, postVars, storyVars
<1>11. ASSUME NEW s \in StoryIds, NEW r \in Requests, NEW deletes, deletes \in BOOLEAN, Begins(r, s, deletes)
       PROVE  TypeOK' /\ Rested
  <2>1. PICK x \in ActorStates :
          actor' = [actor EXCEPT ![r] = x] /\ x.at = "check" /\ x.story = s /\ x.left = {}
    BY <1>11, BeginMoves
  <2>2. actor' \in [Actors -> ActorStates]
    BY <2>1, ActorMoved DEF Actors
  <2> QED
    BY <1>0, <1>11, <2>2, TypePartsNext DEF Begins, bucketVars, postVars, storyVars
<1>12. ASSUME NEW c \in Cleaners, CleanFind(c) PROVE TypeOK' /\ Rested
  <2>1. actor' \in [Actors -> ActorStates]
    BY <1>12, FindMoves, ActorMoved DEF Actors
  <2> QED
    BY <1>0, <1>12, <2>1, TypePartsNext DEF CleanFind, bucketVars, postVars, storyVars
<1>13. ASSUME NEW c \in Cleaners, NEW s \in StoryIds, NEW keeps, CleanNext(c, s, keeps)
       PROVE  TypeOK' /\ Rested
  <2>1. PICK x \in ActorStates :
          /\ actor' = [actor EXCEPT ![c] = x] /\ x.story = s /\ s \in actor[c].left /\ x.left \subseteq actor[c].left
          /\ x.at = IF keeps THEN "check" ELSE "delete"
    BY <1>13, NextMoves
  <2>2. actor' \in [Actors -> ActorStates]
    BY <2>1, ActorMoved DEF Actors
  <2> QED
    BY <1>0, <1>13, <2>2, TypePartsNext DEF CleanNext, bucketVars, postVars
<1>14. ASSUME NEW a \in Actors, Check(a) PROVE TypeOK' /\ Rested
  <2>1. actor' \in [Actors -> ActorStates]
    BY <1>14, CheckMoves, ActorMoved
  <2> QED
    BY <1>0, <1>14, <2>1, TypePartsNext DEF Check, bucketVars, postVars, storyVars
<1>15. ASSUME NEW a \in Actors, Copy(a) PROVE TypeOK' /\ Rested
  <2>1. actor' \in [Actors -> ActorStates]
    BY <1>15, RestTyped, ActorMoved DEF Copy
  <2>2. archive' \in [StoryIds -> Nat]
    <3>1. PICK s : s = actor[a].story
      OBVIOUS
    <3>2. archive' = [archive EXCEPT ![s] = archive[s] + 1]
      BY <1>15, <3>1 DEF Copy
    <3>3. CASE s \in StoryIds
      BY <1>0, <3>2, <3>3
    <3>4. CASE s \notin StoryIds
      BY <1>0, <3>2, <3>4
    <3> QED
      BY <3>3, <3>4
  <2> QED
    BY <1>0, <1>15, <2>1, <2>2, TypePartsNext DEF Copy, bucketVars, postVars
<1>16. ASSUME NEW a \in Actors, Delete(a) PROVE TypeOK' /\ Rested
  <2>1. actor' \in [Actors -> ActorStates]
    BY <1>16, DeleteMoves, ActorMoved
  <2>2. story' \in [StoryIds -> [state : {"none", "live", "expired", "removed"}, key : Named]]
    <3>1. PICK s : s = actor[a].story
      OBVIOUS
    <3>2. story' = story \/ story' = [story EXCEPT ![s] = [story[s] EXCEPT !.state = "removed"]]
      BY <1>16, <3>1 DEF Delete
    <3>3. CASE s \in StoryIds
      <4>1. [story[s] EXCEPT !.state = "removed"] \in [state : {"none", "live", "expired", "removed"}, key : Named]
        BY <1>0, <3>3
      <4> QED
        BY <1>0, <3>2, <3>3, <4>1
    <3>4. CASE s \notin StoryIds
      BY <1>0, <3>2, <3>4
    <3> QED
      BY <3>3, <3>4
  <2> QED
    BY <1>0, <1>16, <2>1, <2>2, TypePartsNext DEF Delete, bucketVars, postVars
<1>17. ASSUME NEW r \in Requests, Count(r) PROVE TypeOK' /\ Rested
  <2>1. actor' = [actor EXCEPT ![r] = Idle]
    BY <1>17 DEF Count
  <2>2. actor' \in [Actors -> ActorStates]
    BY <1>0, <2>1, IdleTyped
  <2>3. objects' \subseteq Keys
    BY <1>0, <1>17 DEF Count
  <2> QED
    BY <1>0, <1>17, <2>2, <2>3, TypePartsNext DEF Count, postVars, storyVars
<1>18. ASSUME NEW a \in Actors, ActorFails(a) PROVE TypeOK' /\ Rested
  <2>1. actor' = [actor EXCEPT ![a] = Idle] /\ failures' \in Nat
    BY <1>0, <1>18 DEF ActorFails, Fails
  <2>2. actor' \in [Actors -> ActorStates]
    BY <1>0, <2>1, IdleTyped
  <2> QED
    BY <1>0, <1>18, <2>1, <2>2, TypePartsNext DEF ActorFails, bucketVars, postVars, storyVars
<1>19. CASE UNCHANGED vars
  BY <1>0, <1>19, TypePartsNext DEF vars, bucketVars, postVars, storyVars, WorkersHold
<1>20. CASE PostStep
  BY <1>20, <1>1, <1>2, <1>3, <1>4, <1>5, <1>6 DEF PostStep
<1>21. CASE \E s \in StoryIds : StoryStep(s)
  BY <1>21, <1>1, <1>7, <1>8, <1>9, <1>11 DEF StoryStep, RequestRemove, RequestHighlight
<1>22. CASE \E a \in Actors : ActorStep(a)
  BY <1>22, <1>1, <1>14, <1>15, <1>16, <1>18 DEF ActorStep
<1> QED
  BY <1>1, <1>10, <1>12, <1>13, <1>17, <1>19, <1>20, <1>21, <1>22, WorkerStepTyped DEF Next, CleanerStarts

-------------------------------------------------------------------------------
(***************************************************************************)
(* The archive.                                                            *)
(***************************************************************************)
\* Who has looked for a copy of s, found none, and has not made one yet.
Copying(s) == {a \in Actors : actor[a].at = "copy" /\ actor[a].story = s}

Known(s) == story[s].state # "none"

\* An actor works on a story that exists or has existed, and deletes it only when
\* it is archived or, for a cleaner, declined.
ActorsArchive ==
  \A a \in Actors :
    /\ actor[a].at \in {"check", "copy", "delete", "count"} => actor[a].story \in StoryIds /\ Known(actor[a].story)
    /\ \A s \in actor[a].left : Known(s)
    /\ actor[a].at = "delete"
         => archive[actor[a].story] > 0 \/ (a \in Cleaners /\ actor[a].story \in declined)
    /\ actor[a].at = "count" => archive[actor[a].story] > 0

ArchivedIsKnown == \A s \in StoryIds : archive[s] > 0 => Known(s)

CopiesCounted == \A s \in StoryIds : archive[s] + Cardinality(Copying(s)) <= Cardinality(Actors)

ArchiveInv == ActorsArchive /\ ArchivedIsKnown /\ RemovedIsArchived /\ CopiesCounted

LEMMA ActorsCount ==
  ASSUME NEW S \in SUBSET Actors
  PROVE  /\ IsFiniteSet(S) /\ Cardinality(S) \in Nat /\ Cardinality(Actors) \in Nat
         /\ Cardinality(S) <= Cardinality(Actors)
         /\ \A T \in SUBSET S : Cardinality(T) \in Nat /\ Cardinality(T) <= Cardinality(S)
         /\ \A a \in S : Cardinality(S \ {a}) = Cardinality(S) - 1
<1>1. /\ IsFiniteSet(S) /\ Cardinality(S) \in Nat /\ Cardinality(Actors) \in Nat
      /\ Cardinality(S) <= Cardinality(Actors)
  BY Constants, FS_Subset, FS_CardinalityType
<1>2. \A T \in SUBSET S : Cardinality(T) \in Nat /\ Cardinality(T) <= Cardinality(S)
  BY <1>1, FS_Subset, FS_CardinalityType
<1>3. \A a \in S : Cardinality(S \ {a}) = Cardinality(S) - 1
  BY <1>1, FS_RemoveElement
<1> QED
  BY <1>1, <1>2, <1>3

LEMMA CopyingCount ==
  ASSUME NEW s
  PROVE  Copying(s) \in SUBSET Actors /\ Cardinality(Copying(s)) \in Nat
BY ActorsCount DEF Copying

LEMMA ArchiveInit == Init => ArchiveInv
<1> SUFFICES ASSUME Init PROVE ArchiveInv
  OBVIOUS
<1>1. \A s \in StoryIds : Copying(s) = {}
  BY IdleTyped DEF Init, Copying
<1>2. CopiesCounted
  BY <1>1, FS_EmptySet, CopyingCount, ActorsCount DEF Init, CopiesCounted
<1>3. ActorsArchive /\ ArchivedIsKnown /\ RemovedIsArchived
  BY IdleTyped DEF Init, ActorsArchive, ArchivedIsKnown, RemovedIsArchived
<1> QED
  BY <1>2, <1>3 DEF ArchiveInv

\* Stories are never forgotten, and only those archived or declined removed.
StoriesKept ==
  \A s \in StoryIds :
    /\ Known(s) => Known(s)'
    /\ story'[s].state = "removed" => story[s].state = "removed" \/ archive[s] > 0 \/ s \in declined

LEMMA ArchiveSame ==
  ASSUME TypeOK, TypeOK', ArchiveInv, actor' = actor, archive' = archive, declined' = declined, StoriesKept
  PROVE  ArchiveInv'
<1>1. ActorsArchive' /\ ArchivedIsKnown' /\ RemovedIsArchived'
  BY TypeParts DEF ArchiveInv, ActorsArchive, ArchivedIsKnown, RemovedIsArchived, StoriesKept, ActorStates
<1>2. \A s \in StoryIds : Copying(s)' = Copying(s)
  BY DEF Copying
<1>3. CopiesCounted'
  BY <1>2 DEF ArchiveInv, CopiesCounted
<1> QED
  BY <1>1, <1>3 DEF ArchiveInv

\* An actor's step, but for the copy itself.
LEMMA ArchiveMoves ==
  ASSUME TypeOK, TypeOK', ArchiveInv, archive' = archive, declined \subseteq declined', StoriesKept,
         NEW a \in Actors, NEW x \in ActorStates, actor' = [actor EXCEPT ![a] = x],
         x.at \in {"check", "copy", "delete", "count"} => x.story \in StoryIds /\ story[x.story].state # "none",
         \A s \in x.left : story[s].state # "none",
         x.at = "delete" => archive[x.story] > 0 \/ (a \in Cleaners /\ x.story \in declined'),
         x.at = "count" => archive[x.story] > 0,
         x.at = "copy" => ~(archive[x.story] > 0)
  PROVE  ArchiveInv'
<1>1. actor'[a] = x /\ \A b \in Actors : b # a => actor'[b] = actor[b]
  BY ActorMoved
<1>2. x.left \subseteq StoryIds /\ \A b \in Actors : actor[b].left \subseteq StoryIds
  BY TypeParts DEF ActorStates
<1>3. ActorsArchive'
  <2> SUFFICES ASSUME NEW b \in Actors
               PROVE  /\ actor'[b].at \in {"check", "copy", "delete", "count"}
                           => actor'[b].story \in StoryIds /\ story'[actor'[b].story].state # "none"
                      /\ \A s \in actor'[b].left : story'[s].state # "none"
                      /\ actor'[b].at = "delete" => \/ archive'[actor'[b].story] > 0
                                                    \/ b \in Cleaners /\ actor'[b].story \in declined'
                      /\ actor'[b].at = "count" => archive'[actor'[b].story] > 0
    BY DEF ActorsArchive, Known
  <2>1. CASE b = a
    BY <2>1, <1>1, <1>2 DEF StoriesKept, Known
  <2>2. CASE b # a
    BY <2>2, <1>1, <1>2 DEF ArchiveInv, ActorsArchive, StoriesKept, Known
  <2> QED
    BY <2>1, <2>2
<1>4. ArchivedIsKnown' /\ RemovedIsArchived'
  BY DEF ArchiveInv, ArchivedIsKnown, RemovedIsArchived, StoriesKept
<1>5. CopiesCounted'
  <2> SUFFICES ASSUME NEW s \in StoryIds
               PROVE  archive[s] + Cardinality(Copying(s)') <= Cardinality(Actors)
    BY DEF CopiesCounted
  <2>0. archive[s] \in Nat
    BY DEF TypeOK
  <2>1. CASE x.at = "copy" /\ x.story = s
    <3>1. archive[s] = 0
      BY <2>0, <2>1
    <3> QED
      BY <3>1, CopyingCount, ActorsCount DEF Copying
  <2>2. CASE ~(x.at = "copy" /\ x.story = s)
    <3>1. Copying(s)' \subseteq Copying(s)
      BY <2>2, <1>1 DEF Copying
    <3>2. /\ Cardinality(Copying(s)') \in Nat /\ Cardinality(Copying(s)') <= Cardinality(Copying(s))
          /\ Cardinality(Copying(s)) \in Nat /\ Cardinality(Actors) \in Nat
      BY <3>1, CopyingCount, ActorsCount
    <3> QED
      BY <2>0, <3>2 DEF ArchiveInv, CopiesCounted
  <2> QED
    BY <2>1, <2>2
<1> QED
  BY <1>3, <1>4, <1>5 DEF ArchiveInv

LEMMA CopyArchives ==
  ASSUME TypeOK, TypeOK', ArchiveInv, NEW a \in Actors, Copy(a)
  PROVE  ArchiveInv'
<1>1. PICK s \in StoryIds : actor[a].story = s /\ Known(s)
  BY DEF Copy, ArchiveInv, ActorsArchive
<1>2. PICK x \in ActorStates : x = Copied(a) /\ actor' = [actor EXCEPT ![a] = x]
  BY RestTyped DEF Copy
<1>3. /\ \/ x.at \in {"idle", "next"} /\ x.left \subseteq actor[a].left
         \/ x.at = "delete" /\ x.story = s /\ x.left = actor[a].left
      /\ actor'[a] = x /\ \A b \in Actors : b # a => actor'[b] = actor[b]
  BY <1>1, <1>2, RestTyped, ActorMoved
<1>4. story' = story /\ declined' = declined /\ actor[a].at = "copy"
  BY DEF Copy
<1>5. \A t \in StoryIds : /\ archive[t] \in Nat
                          /\ archive'[t] = IF t = s THEN archive[t] + 1 ELSE archive[t]
  BY <1>1 DEF Copy, TypeOK
<1>6. \A b \in Actors : actor[b].left \subseteq StoryIds
  BY TypeParts DEF ActorStates
<1>7. ActorsArchive'
  <2> SUFFICES ASSUME NEW b \in Actors
               PROVE  /\ actor'[b].at \in {"check", "copy", "delete", "count"}
                           => actor'[b].story \in StoryIds /\ story[actor'[b].story].state # "none"
                      /\ \A t \in actor'[b].left : story[t].state # "none"
                      /\ actor'[b].at = "delete" => \/ archive'[actor'[b].story] > 0
                                                    \/ b \in Cleaners /\ actor'[b].story \in declined
                      /\ actor'[b].at = "count" => archive'[actor'[b].story] > 0
    BY <1>4 DEF ActorsArchive, Known
  <2>1. CASE b = a
    BY <2>1, <1>1, <1>3, <1>5 DEF ArchiveInv, ActorsArchive, Known
  <2>2. CASE b # a
    BY <2>2, <1>3, <1>5 DEF ArchiveInv, ActorsArchive, Known
  <2> QED
    BY <2>1, <2>2
<1>8. ArchivedIsKnown' /\ RemovedIsArchived'
  BY <1>1, <1>4, <1>5 DEF ArchiveInv, ArchivedIsKnown, RemovedIsArchived, Known
<1>9. CopiesCounted'
  <2> SUFFICES ASSUME NEW t \in StoryIds
               PROVE  archive'[t] + Cardinality(Copying(t)') <= Cardinality(Actors)
    BY DEF CopiesCounted
  <2>1. archive[t] + Cardinality(Copying(t)) <= Cardinality(Actors)
    BY DEF ArchiveInv, CopiesCounted
  <2>2. CASE t = s
    <3>1. a \in Copying(s) /\ Copying(s)' \subseteq Copying(s) \ {a}
      BY <1>1, <1>3, <1>4 DEF Copying
    <3>2. Copying(s) \in SUBSET Actors /\ Copying(s) \ {a} \in SUBSET Actors
      BY CopyingCount
    <3>3. /\ Cardinality(Copying(s)') \in Nat /\ Cardinality(Copying(s)') <= Cardinality(Copying(s) \ {a})
          /\ Cardinality(Copying(s) \ {a}) = Cardinality(Copying(s)) - 1
          /\ Cardinality(Copying(s)) \in Nat /\ Cardinality(Actors) \in Nat
      BY <3>1, <3>2, ActorsCount
    <3>4. archive[s] \in Nat /\ archive'[s] = archive[s] + 1
      BY <1>5
    <3> QED
      BY <2>1, <2>2, <3>3, <3>4
  <2>3. CASE t # s
    <3>1. Copying(t)' \subseteq Copying(t)
      BY <1>3 DEF Copying
    <3>2. /\ Cardinality(Copying(t)') \in Nat /\ Cardinality(Copying(t)') <= Cardinality(Copying(t))
          /\ Cardinality(Copying(t)) \in Nat /\ Cardinality(Actors) \in Nat
      BY <3>1, CopyingCount, ActorsCount
    <3>3. archive[t] \in Nat /\ archive'[t] = archive[t]
      BY <2>3, <1>5
    <3> QED
      BY <2>1, <3>2, <3>3
  <2> QED
    BY <2>2, <2>3
<1> QED
  BY <1>7, <1>8, <1>9 DEF ArchiveInv

LEMMA ArchiveNext ==
  ASSUME TypeOK, TypeOK', WorkersHold, ArchiveInv, [Next]_vars
  PROVE  ArchiveInv'
<1>0. /\ Requests \subseteq Actors /\ Cleaners \subseteq Actors /\ Cleaners \cap Requests = {}
      /\ story' = story /\ archive' = archive /\ declined' = declined => StoriesKept
      /\ \A a \in Actors, s \in StoryIds : s \in actor[a].left => story[s].state # "none"
      /\ \A a \in Actors : actor[a].left \subseteq StoryIds
  BY Constants, TypeParts DEF Actors, StoriesKept, Known, ArchiveInv, ActorsArchive, ActorStates
\* A move to a place where no story is worked on.
<1>1. ASSUME NEW a \in Actors, NEW x \in ActorStates, actor' = [actor EXCEPT ![a] = x],
             x.at \in {"idle", "page", "create", "repost", "next"}, x.left \subseteq actor[a].left,
             archive' = archive, declined' = declined, StoriesKept
      PROVE  ArchiveInv'
  <2>1. \A s \in x.left : story[s].state # "none"
    BY <1>0, <1>1
  <2> QED
    BY <1>1, <2>1, ArchiveMoves
<1>2. ASSUME NEW a \in Actors, actor' = [actor EXCEPT ![a] = Idle],
             archive' = archive, declined' = declined, StoriesKept
      PROVE  ArchiveInv'
  <2>1. PICK x \in ActorStates : x = Idle
    BY IdleTyped
  <2>2. x.at = "idle" /\ x.left = {}
    BY <2>1, IdleTyped
  <2> QED
    BY <1>1, <1>2, <2>1, <2>2
<1>3. ASSUME actor' = actor, archive' = archive, declined' = declined, story' = story PROVE ArchiveInv'
  BY <1>0, <1>3, ArchiveSame
<1>4. ASSUME NEW u \in Uploads, Upload(u) PROVE ArchiveInv'
  BY <1>3, <1>4 DEF Upload, storyVars
<1>5. ASSUME NEW m \in Media, NEW u \in Uploads, CreatePost(m, u) PROVE ArchiveInv'
  BY <1>3, <1>5 DEF CreatePost, AddMedium, storyVars
<1>6. ASSUME NEW m \in Media, NEW r \in Requests, RecreateMedium(r, m) PROVE ArchiveInv'
  BY <1>0, <1>2, <1>6 DEF RecreateMedium, AddMedium, storyVars
<1>7. ASSUME NEW r \in Requests, NEW kept \in BOOLEAN, SaveEditor(r, kept) PROVE ArchiveInv'
  <2>1. PICK x \in ActorStates :
          /\ actor' = [actor EXCEPT ![r] = x]
          /\ x = Idle \/ (x.at = "create" /\ x.key = actor[r].key /\ x.left = actor[r].left /\ actor[r].at = "page")
    BY <1>7, SaveMoves
  <2>2. story' = story /\ archive' = archive /\ declined' = declined
    BY <1>7 DEF SaveEditor, storyVars
  <2> QED
    BY <1>0, <1>1, <1>2, <2>1, <2>2
<1>8. ASSUME NEW r \in Requests, NEW key, OpenEditor(r, key) \/ RepostRead(r, key) PROVE ArchiveInv'
  <2>1. PICK x \in ActorStates : actor' = [actor EXCEPT ![r] = x] /\ x.at \in {"page", "repost"} /\ x.left = {}
    BY <1>8, EditorMoves, RepostMoves
  <2>2. story' = story /\ archive' = archive /\ declined' = declined
    BY <1>8 DEF OpenEditor, RepostRead, storyVars
  <2> QED
    BY <1>0, <1>1, <2>1, <2>2
<1>9. ASSUME NEW w \in Workers, WorkerStep(w) PROVE ArchiveInv'
  BY <1>3, <1>9, WorkerStepTyped DEF storyVars
<1>10. ASSUME NEW s \in StoryIds, NEW u \in Uploads, CreateStory(s, u) PROVE ArchiveInv'
  <2>1. AddStory(s, Raw(u)) /\ actor' = actor /\ Raw(u) \in Named
    BY <1>10, KeyFacts DEF CreateStory
  <2>2. StoriesKept /\ archive' = archive /\ declined' = declined
    BY <2>1, StoryAdded DEF StoriesKept, Known
  <2> QED
    BY <2>1, <2>2, ArchiveSame
<1>11. ASSUME NEW s \in StoryIds, NEW r \in Requests, RepostCreate(r, s) PROVE ArchiveInv'
  <2>1. AddStory(s, actor[r].key) /\ actor' = [actor EXCEPT ![r] = Idle] /\ actor[r].key \in Named
    BY <1>0, <1>11, TypeParts DEF RepostCreate, ActorStates
  <2>2. StoriesKept /\ archive' = archive /\ declined' = declined
    BY <2>1, StoryAdded DEF StoriesKept, Known
  <2> QED
    BY <1>0, <1>2, <2>1, <2>2
<1>12. ASSUME NEW s \in StoryIds, Expire(s) PROVE ArchiveInv'
  <2>1. StoriesKept
    BY <1>12 DEF Expire, StoriesKept, Known, TypeOK
  <2> QED
    BY <1>12, <2>1, ArchiveSame DEF Expire
<1>13. ASSUME NEW s \in StoryIds, NEW r \in Requests, NEW deletes, deletes \in BOOLEAN, Begins(r, s, deletes)
       PROVE  ArchiveInv'
  <2>1. PICK x \in ActorStates : actor' = [actor EXCEPT ![r] = x] /\ x.at = "check" /\ x.story = s /\ x.left = {}
    BY <1>13, BeginMoves
  <2>2. story' = story /\ archive' = archive /\ declined' = declined /\ story[s].state # "none"
    BY <1>13 DEF Begins, storyVars, Exists
  <2> QED
    BY <1>0, <2>1, <2>2, ArchiveMoves
<1>14. ASSUME NEW c \in Cleaners, CleanFind(c) PROVE ArchiveInv'
  <2>1. PICK x \in ActorStates :
          actor' = [actor EXCEPT ![c] = x] /\ x.at = "next" /\ \A s \in x.left : story[s].state = "expired"
    BY <1>14, FindMoves
  <2>2. story' = story /\ archive' = archive /\ declined' = declined
    BY <1>14 DEF CleanFind, storyVars
  <2> QED
    BY <1>0, <2>1, <2>2, ArchiveMoves
<1>15. ASSUME NEW c \in Cleaners, NEW s \in StoryIds, NEW keeps, CleanNext(c, s, keeps) PROVE ArchiveInv'
  <2>1. PICK x \in ActorStates :
          /\ actor' = [actor EXCEPT ![c] = x] /\ x.story = s /\ s \in actor[c].left /\ x.left \subseteq actor[c].left
          /\ x.at = IF keeps THEN "check" ELSE "delete"
    BY <1>15, NextMoves
  <2>2. /\ story' = story /\ archive' = archive
        /\ declined' = IF keeps THEN declined ELSE declined \union {s}
    BY <1>15 DEF CleanNext
  <2>3. StoriesKept /\ declined \subseteq declined' /\ (x.at = "delete" => s \in declined')
    BY <2>1, <2>2 DEF StoriesKept, Known
  <2>4. x.at \in {"check", "delete"}
    BY <2>1
  <2>5. story[s].state # "none" /\ \A t \in x.left : story[t].state # "none"
    BY <1>0, <2>1
  <2> QED
    BY <1>0, <2>1, <2>2, <2>3, <2>4, <2>5, ArchiveMoves
<1>16. ASSUME NEW a \in Actors, Check(a) PROVE ArchiveInv'
  <2>1. PICK x \in ActorStates :
          /\ actor' = [actor EXCEPT ![a] = x]
          /\ \/ archive[actor[a].story] > 0 /\ x = Copied(a)
             \/ /\ ~(archive[actor[a].story] > 0)
                /\ x.at = "copy" /\ x.story = actor[a].story /\ x.left = actor[a].left
    BY <1>16, CheckMoves
  <2>2. story' = story /\ archive' = archive /\ declined' = declined /\ actor[a].at = "check"
    BY <1>16 DEF Check, storyVars
  <2>3. actor[a].story \in StoryIds /\ story[actor[a].story].state # "none"
    BY <2>2 DEF ArchiveInv, ActorsArchive, Known
  <2>4. CASE x = Rest(a)
    BY <1>0, <1>1, <2>1, <2>2, <2>4, RestTyped
  <2>5. CASE /\ archive[actor[a].story] > 0
             /\ x.at = "delete" /\ x.story = actor[a].story /\ x.left = actor[a].left
    BY <1>0, <2>1, <2>2, <2>3, <2>5, ArchiveMoves
  <2>6. CASE /\ ~(archive[actor[a].story] > 0)
             /\ x.at = "copy" /\ x.story = actor[a].story /\ x.left = actor[a].left
    BY <1>0, <2>1, <2>2, <2>3, <2>6, ArchiveMoves
  <2> QED
    BY <2>1, <2>4, <2>5, <2>6, RestTyped
<1>17. ASSUME NEW a \in Actors, Copy(a) PROVE ArchiveInv'
  BY <1>17, CopyArchives
<1>18. ASSUME NEW a \in Actors, Delete(a) PROVE ArchiveInv'
  <2>1. PICK x \in ActorStates :
          /\ actor' = [actor EXCEPT ![a] = x]
          /\ \/ x = Idle
             \/ x = Rest(a)
             \/ a \in Requests /\ x.at = "count" /\ x.story = actor[a].story /\ x.left = actor[a].left
    BY <1>18, DeleteMoves
  <2>2. PICK s \in StoryIds : actor[a].story = s /\ actor[a].at = "delete" /\ Known(s)
    BY <1>18 DEF Delete, ArchiveInv, ActorsArchive
  <2>3. /\ story' = story \/ story' = [story EXCEPT ![s].state = "removed"]
        /\ archive' = archive /\ declined' = declined
    BY <1>18, <2>2 DEF Delete
  <2>4. archive[s] > 0 \/ (a \in Cleaners /\ s \in declined)
    BY <2>2 DEF ArchiveInv, ActorsArchive
  <2>5. StoriesKept
    BY <2>2, <2>3, <2>4 DEF StoriesKept, Known, TypeOK
  <2>6. CASE x = Idle \/ x = Rest(a)
    BY <1>1, <1>2, <2>1, <2>3, <2>5, <2>6, RestTyped
  <2>7. CASE a \in Requests /\ x.at = "count" /\ x.story = actor[a].story /\ x.left = actor[a].left
    <3>1. archive[s] > 0
      BY <1>0, <2>4, <2>7
    <3>2. \A t \in x.left : story[t].state # "none"
      BY <1>0, <2>7
    <3>3. x.at = "count" /\ x.story = s /\ story[s].state # "none"
      BY <2>2, <2>7 DEF Known
    <3> QED
      BY <2>1, <2>3, <2>5, <3>1, <3>2, <3>3, ArchiveMoves
  <2> QED
    BY <2>1, <2>6, <2>7
<1>19. ASSUME NEW r \in Requests, Count(r) PROVE ArchiveInv'
  BY <1>0, <1>2, <1>19 DEF Count, storyVars
<1>20. ASSUME NEW a \in Actors, ActorFails(a) PROVE ArchiveInv'
  BY <1>0, <1>2, <1>20 DEF ActorFails, storyVars
<1>21. CASE UNCHANGED vars
  BY <1>3, <1>21 DEF vars, storyVars
<1>22. CASE PostStep
  BY <1>22, <1>4, <1>5, <1>6, <1>7, <1>8 DEF PostStep
<1>23. CASE \E s \in StoryIds : StoryStep(s)
  BY <1>23, <1>10, <1>11, <1>12, <1>13 DEF StoryStep, RequestRemove, RequestHighlight
<1>24. CASE \E a \in Actors : ActorStep(a)
  BY <1>24, <1>16, <1>17, <1>18, <1>20 DEF ActorStep
<1> QED
  BY <1>8, <1>9, <1>14, <1>15, <1>19, <1>21, <1>22, <1>23, <1>24 DEF Next, CleanerStarts

-------------------------------------------------------------------------------
(***************************************************************************)
(* Objects.                                                                *)
(***************************************************************************)
Row(m) == medium[m].state # "none"

\* The object is there, or some medium's job has deleted it.
Kept(key) == key \in objects \/ \E n \in Media : DroppedBy(n, key)

\* A key that a row may be given.
Backed(key) == key \in Keys /\ Kept(key) /\ Kept(Raw(key[1]))

RowsBacked ==
  /\ \A m \in Media : Row(m) => Backed(medium[m].key)
  /\ \A s \in StoryIds : Known(s) => Backed(story[s].key)
  /\ \A u \in Uploads : uses[u] > 0 => Kept(Raw(u))

\* What the job of a medium deleted is of an earlier generation than what its row names.
DroppedOld ==
  \A n \in Media, k \in Keys :
    DroppedBy(n, k) => Row(n) /\ medium[n].key \in Keys /\ k[2] < medium[n].key[2]

\* Nobody else optimises the medium of a worker, whose row is at the key it read or
\* at the one it stored.
Owned(x) ==
  /\ Row(x.medium)
  /\ medium[x.medium].key = IF x.at = "drop" THEN Smaller(x.key) ELSE x.key
  /\ x.at = "point" => Kept(Smaller(x.key))

WorkersOwn ==
  /\ \A m \in jobs : Row(m)
  /\ \A w \in Workers : worker[w].at # "idle" => Owned(worker[w]) /\ worker[w].medium \notin jobs
  /\ \A v, w \in Workers : v # w /\ worker[v].at # "idle" /\ worker[w].at # "idle"
       => worker[v].medium # worker[w].medium

ObjectsInv == RowsBacked /\ DroppedOld /\ WorkersOwn

\* A request holds a key that a row may be given.
ActorsKeys == \A a \in Actors : actor[a].at \in {"page", "create", "repost"} => Backed(actor[a].key)

LEMMA ObjectsInit == Init => ObjectsInv /\ ActorsKeys
BY IdleTyped DEF Init, ObjectsInv, RowsBacked, DroppedOld, DroppedBy, WorkersOwn, ActorsKeys, Row, Known

\* No object goes but by a medium's job.
KeptStays == \A key \in Keys : Kept(key) => Kept(key)'

LEMMA KeptGrows ==
  ASSUME objects \subseteq objects', dropped' = dropped
  PROVE  KeptStays
BY DEF KeptStays, Kept, DroppedBy

LEMMA BackedStays ==
  ASSUME KeptStays, NEW key, Backed(key)
  PROVE  /\ key \in Keys /\ Smaller(key) \in Keys /\ key[1] \in Uploads /\ Raw(key[1]) \in Keys
         /\ Kept(key)' /\ Kept(Raw(key[1]))'
BY KeyFacts DEF Backed, KeptStays

LEMMA BusyHolds ==
  ASSUME WorkersHold, NEW w \in Workers, worker[w].at # "idle"
  PROVE  worker[w].medium \in Media /\ worker[w].key \in Keys
BY IdleTyped DEF WorkersHold, Holds

\* Rows that keep their keys stay backed.
LEMMA BackedSame ==
  ASSUME KeptStays, RowsBacked, uses' = uses,
         \A m \in Media : medium'[m].key = medium[m].key /\ (Row(m)' <=> Row(m)),
         \A s \in StoryIds : story'[s].key = story[s].key /\ (Known(s)' <=> Known(s))
  PROVE  RowsBacked'
<1>1. ASSUME NEW m \in Media, Row(m)' PROVE Backed(medium[m].key)'
  <2>1. PICK k : k = medium[m].key /\ k = medium'[m].key
    OBVIOUS
  <2>2. Backed(k)
    BY <1>1, <2>1 DEF RowsBacked
  <2>3. k \in Keys /\ Kept(k)' /\ Kept(Raw(k[1]))'
    BY <2>2, BackedStays
  <2> QED
    BY <2>1, <2>3 DEF Backed, Kept, Raw
<1>2. ASSUME NEW s \in StoryIds, Known(s)' PROVE Backed(story[s].key)'
  <2>1. PICK k : k = story[s].key /\ k = story'[s].key
    OBVIOUS
  <2>2. Backed(k)
    BY <1>2, <2>1 DEF RowsBacked
  <2>3. k \in Keys /\ Kept(k)' /\ Kept(Raw(k[1]))'
    BY <2>2, BackedStays
  <2> QED
    BY <2>1, <2>3 DEF Backed, Kept, Raw
<1>3. \A u \in Uploads : uses'[u] > 0 => Kept(Raw(u))'
  BY KeyFacts DEF RowsBacked, KeptStays
<1> QED
  BY <1>1, <1>2, <1>3 DEF RowsBacked

\* A worker that goes on as it was, while its row keeps its key.
LEMMA OwnedStays ==
  ASSUME KeptStays, NEW x, Owned(x), x.key \in Keys,
         medium'[x.medium].key = medium[x.medium].key, Row(x.medium)' <=> Row(x.medium)
  PROVE  Owned(x)'
<1>1. Kept(Smaller(x.key)) => Kept(Smaller(x.key))'
  BY KeyFacts DEF KeptStays
<1> QED
  BY <1>1 DEF Owned

\* Steps that touch neither rows' keys nor the worker.
LEMMA ObjectsSame ==
  ASSUME TypeOK, WorkersHold, ObjectsInv, KeptStays,
         dropped' = dropped, uses' = uses, jobs' = jobs, worker' = worker,
         \A m \in Media : medium'[m].key = medium[m].key /\ (Row(m)' <=> Row(m)),
         \A s \in StoryIds : story'[s].key = story[s].key /\ (Known(s)' <=> Known(s))
  PROVE  ObjectsInv'
<1>1. RowsBacked'
  BY BackedSame DEF ObjectsInv
<1>2. DroppedOld'
  BY DEF ObjectsInv, DroppedOld, DroppedBy
<1>3. \A m \in jobs' : Row(m)'
  BY DEF ObjectsInv, WorkersOwn, TypeOK
<1>4. ASSUME NEW w \in Workers, worker'[w].at # "idle" PROVE Owned(worker[w])' /\ worker'[w].medium \notin jobs'
  <2>1. PICK x : x = worker[w] /\ x = worker'[w]
    OBVIOUS
  <2>2. x.medium \in Media /\ x.key \in Keys /\ Owned(x) /\ x.medium \notin jobs
    BY <1>4, <2>1, BusyHolds DEF ObjectsInv, WorkersOwn
  <2>3. Owned(x)'
    BY <2>2, OwnedStays
  <2> QED
    BY <2>1, <2>2, <2>3 DEF Owned, Row, Kept
<1>5. \A v, w \in Workers : v # w /\ worker'[v].at # "idle" /\ worker'[w].at # "idle"
        => worker'[v].medium # worker'[w].medium
  BY DEF ObjectsInv, WorkersOwn
<1>6. WorkersOwn'
  BY <1>3, <1>4, <1>5 DEF WorkersOwn
<1> QED
  BY <1>1, <1>2, <1>6 DEF ObjectsInv

LEMMA ObjectsMedium ==
  ASSUME TypeOK, WorkersHold, ObjectsInv, NEW m \in Media, NEW key, Backed(key), AddMedium(m, key)
  PROVE  ObjectsInv' /\ KeptStays
<1>0. key \in Named /\ key \in Keys /\ key[1] \in Uploads
  BY KeyFacts DEF Backed
<1>1. /\ objects' = objects /\ dropped' = dropped /\ worker' = worker /\ story' = story
      /\ medium[m].state = "none" /\ medium'[m].state = "row" /\ medium'[m].key = key
      /\ \A n \in Media : n # m => medium'[n] = medium[n]
      /\ uses' = [uses EXCEPT ![key[1]] = @ + 1] /\ jobs' = jobs \union {m}
  BY <1>0, MediumAdded
<1>2. KeptStays
  BY <1>1, KeptGrows
<1>3. \A k : Backed(k)' <=> Backed(k)
  BY <1>1 DEF Backed, Kept, DroppedBy
<1>4. RowsBacked'
  <2>1. ASSUME NEW n \in Media, Row(n)' PROVE Backed(medium[n].key)'
    <3>1. PICK k : k = medium'[n].key
      OBVIOUS
    <3>2. Backed(k)
      BY <1>1, <2>1, <3>1 DEF ObjectsInv, RowsBacked, Row
    <3>3. Backed(k)'
      BY <1>3, <3>2
    <3> QED
      BY <3>1, <3>3 DEF Backed, Kept, Raw
  <2>2. ASSUME NEW s \in StoryIds, Known(s)' PROVE Backed(story[s].key)'
    <3>1. PICK k : k = story[s].key /\ k = story'[s].key
      BY <1>1
    <3>2. Backed(k)
      BY <1>1, <2>2, <3>1 DEF ObjectsInv, RowsBacked, Known
    <3>3. Backed(k)'
      BY <1>3, <3>2
    <3> QED
      BY <3>1, <3>3 DEF Backed, Kept, Raw
  <2>3. ASSUME NEW u \in Uploads, uses'[u] > 0 PROVE Kept(Raw(u))'
    <3>1. CASE u = key[1]
      BY <1>1, <3>1 DEF Backed, Kept, DroppedBy
    <3>2. CASE u # key[1]
      BY <1>1, <2>3, <3>2 DEF ObjectsInv, RowsBacked, Kept, DroppedBy, TypeOK
    <3> QED
      BY <3>1, <3>2
  <2> QED
    BY <2>1, <2>2, <2>3 DEF RowsBacked
<1>5. DroppedOld'
  BY <1>1 DEF ObjectsInv, DroppedOld, DroppedBy, Row
<1>6. \A n \in jobs' : Row(n)'
  BY <1>1 DEF ObjectsInv, WorkersOwn, Row, TypeOK
<1>7. ASSUME NEW w \in Workers, worker'[w].at # "idle" PROVE Owned(worker[w])' /\ worker'[w].medium \notin jobs'
  <2>1. PICK x : x = worker[w] /\ x = worker'[w]
    BY <1>1
  <2>2. x.medium \in Media /\ x.key \in Keys /\ Owned(x) /\ x.medium \notin jobs
    BY <1>1, <1>7, <2>1, BusyHolds DEF ObjectsInv, WorkersOwn
  <2>3. x.medium # m
    BY <1>1, <2>2 DEF Owned, Row
  <2>4. Owned(x)'
    BY <1>1, <1>2, <2>2, <2>3, OwnedStays DEF Row
  <2> QED
    BY <1>1, <2>1, <2>2, <2>3, <2>4 DEF Owned, Row, Kept
<1>8. WorkersOwn'
  <2>1. \A v, w \in Workers : v # w /\ worker'[v].at # "idle" /\ worker'[w].at # "idle"
          => worker'[v].medium # worker'[w].medium
    BY <1>1 DEF ObjectsInv, WorkersOwn
  <2> QED
    BY <1>6, <1>7, <2>1 DEF WorkersOwn
<1> QED
  BY <1>2, <1>4, <1>5, <1>8 DEF ObjectsInv

LEMMA ObjectsStory ==
  ASSUME TypeOK, WorkersHold, ObjectsInv, NEW s \in StoryIds, NEW key, Backed(key), AddStory(s, key)
  PROVE  ObjectsInv' /\ KeptStays
<1>0. key \in Named /\ key \in Keys /\ key[1] \in Uploads
  BY KeyFacts DEF Backed
<1>1. /\ objects' = objects /\ dropped' = dropped /\ medium' = medium /\ jobs' = jobs /\ worker' = worker
      /\ story[s].state = "none" /\ story'[s].state = "live" /\ story'[s].key = key
      /\ \A t \in StoryIds : t # s => story'[t] = story[t]
      /\ uses' = [uses EXCEPT ![key[1]] = @ + 1]
  BY <1>0, StoryAdded
<1>2. KeptStays
  BY <1>1, KeptGrows
<1>3. \A k : Backed(k)' <=> Backed(k)
  BY <1>1 DEF Backed, Kept, DroppedBy
<1>4. RowsBacked'
  <2>1. ASSUME NEW t \in StoryIds, Known(t)' PROVE Backed(story[t].key)'
    <3>1. PICK k : k = story'[t].key
      OBVIOUS
    <3>2. Backed(k)
      BY <1>1, <2>1, <3>1 DEF ObjectsInv, RowsBacked, Known
    <3>3. Backed(k)'
      BY <1>3, <3>2
    <3> QED
      BY <3>1, <3>3 DEF Backed, Kept, Raw
  <2>2. ASSUME NEW n \in Media, Row(n)' PROVE Backed(medium[n].key)'
    <3>1. PICK k : k = medium[n].key /\ k = medium'[n].key
      BY <1>1
    <3>2. Backed(k)
      BY <1>1, <2>2, <3>1 DEF ObjectsInv, RowsBacked, Row
    <3>3. Backed(k)'
      BY <1>3, <3>2
    <3> QED
      BY <3>1, <3>3 DEF Backed, Kept, Raw
  <2>3. ASSUME NEW u \in Uploads, uses'[u] > 0 PROVE Kept(Raw(u))'
    <3>1. CASE u = key[1]
      BY <1>1, <3>1 DEF Backed, Kept, DroppedBy
    <3>2. CASE u # key[1]
      BY <1>1, <2>3, <3>2 DEF ObjectsInv, RowsBacked, Kept, DroppedBy, TypeOK
    <3> QED
      BY <3>1, <3>2
  <2> QED
    BY <2>1, <2>2, <2>3 DEF RowsBacked
<1>5. DroppedOld' /\ WorkersOwn'
  BY <1>1 DEF ObjectsInv, DroppedOld, DroppedBy, WorkersOwn, Owned, Row, Kept
<1> QED
  BY <1>2, <1>4, <1>5 DEF ObjectsInv

\* What becomes of the workers when one of them moves and the others' rows stay.
LEMMA WorkersMove ==
  ASSUME TypeOK, WorkersHold, WorkersOwn, KeptStays, NEW w \in Workers, NEW x \in WorkerStates, Works(w, x),
         x.at # "idle" => /\ Owned(x)' /\ x.medium \notin jobs'
                          /\ \A v \in Workers : v # w /\ worker[v].at # "idle" => worker[v].medium # x.medium,
         \A m \in jobs' : Row(m)',
         \A v \in Workers : v # w /\ worker[v].at # "idle" =>
           /\ worker[v].medium \notin jobs'
           /\ medium'[worker[v].medium].key = medium[worker[v].medium].key
           /\ medium'[worker[v].medium].state # "none" <=> Row(worker[v].medium)
  PROVE  WorkersOwn'
<1>1. worker'[w] = x /\ \A v \in Workers : v # w => worker'[v] = worker[v]
  BY WorkerMoved
<1>2. ASSUME NEW v \in Workers, worker'[v].at # "idle" PROVE Owned(worker[v])' /\ worker'[v].medium \notin jobs'
  <2>1. CASE v = w
    BY <1>1, <1>2, <2>1 DEF Owned, Row, Kept
  <2>2. CASE v # w
    <3>1. PICK y : y = worker[v] /\ y = worker'[v]
      BY <1>1, <2>2
    <3>2. Owned(y) /\ y.key \in Keys /\ y.at # "idle"
      BY <1>2, <3>1, BusyHolds DEF WorkersOwn
    <3>3. /\ medium'[y.medium].key = medium[y.medium].key /\ y.medium \notin jobs'
          /\ Row(y.medium)' <=> Row(y.medium)
      BY <2>2, <3>1, <3>2 DEF Row
    <3>4. Owned(y)'
      BY <3>2, <3>3, OwnedStays
    <3> QED
      BY <3>1, <3>3, <3>4 DEF Owned, Row, Kept
  <2> QED
    BY <2>1, <2>2
<1>3. \A u, v \in Workers : u # v /\ worker'[u].at # "idle" /\ worker'[v].at # "idle"
        => worker'[u].medium # worker'[v].medium
  BY <1>1 DEF WorkersOwn
<1> QED
  BY <1>2, <1>3 DEF WorkersOwn

LEMMA ObjectsRead ==
  ASSUME TypeOK, WorkersHold, ObjectsInv, NEW w \in Workers, NEW m \in Media, WorkerRead(w, m)
  PROVE  ObjectsInv' /\ KeptStays
<1>1. /\ objects' = objects /\ dropped' = dropped /\ uses' = uses /\ medium' = medium /\ story' = story
      /\ m \in jobs /\ jobs' = jobs \ {m}
  BY DEF WorkerRead, bucketVars, storyVars
<1>2. PICK x \in WorkerStates :
        /\ Works(w, x)
        /\ x = Free \/ (x.at = "store" /\ x.medium = m /\ x.key = medium[m].key)
  <2>1. CASE medium[m].state = "row" /\ medium[m].key \in objects
    <3>1. Works(w, [at |-> "store", medium |-> m, key |-> medium[m].key])
      BY <2>1 DEF WorkerRead
    <3>2. [at |-> "store", medium |-> m, key |-> medium[m].key] \in WorkerStates
      BY DEF TypeOK, WorkerStates
    <3> QED
      BY <3>1, <3>2
  <2>2. CASE ~(medium[m].state = "row" /\ medium[m].key \in objects)
    BY <2>2, IdleTyped DEF WorkerRead
  <2> QED
    BY <2>1, <2>2
<1>3. KeptStays
  BY <1>1, KeptGrows
<1>4. RowsBacked' /\ DroppedOld'
  BY <1>1 DEF ObjectsInv, RowsBacked, Backed, Kept, DroppedBy, DroppedOld, Row, Known
<1>5. Row(m) /\ \A v \in Workers : worker[v].at # "idle" => worker[v].medium # m
  BY <1>1 DEF ObjectsInv, WorkersOwn
<1>6. x.at # "idle" => Owned(x)' /\ x.medium = m
  BY <1>1, <1>2, <1>5, IdleTyped DEF Owned, Row
<1>7. \A n \in jobs' : Row(n)'
  BY <1>1 DEF ObjectsInv, WorkersOwn, Row
<1>8. \A v \in Workers : v # w /\ worker[v].at # "idle" =>
        /\ worker[v].medium \notin jobs'
        /\ medium'[worker[v].medium].key = medium[worker[v].medium].key
        /\ medium'[worker[v].medium].state # "none" <=> Row(worker[v].medium)
  BY <1>1 DEF ObjectsInv, WorkersOwn, Row
<1>9. WorkersOwn'
  BY <1>1, <1>2, <1>3, <1>5, <1>6, <1>7, <1>8, WorkersMove DEF ObjectsInv
<1> QED
  BY <1>3, <1>4, <1>9 DEF ObjectsInv

\* Giving up a job.
LEMMA ObjectsFreed ==
  ASSUME TypeOK, WorkersHold, ObjectsInv, NEW w \in Workers, Works(w, Free), worker[w].at # "idle",
         objects' = objects, dropped' = dropped, uses' = uses, medium' = medium, story' = story,
         jobs' \in {jobs, jobs \union {worker[w].medium}}
  PROVE  ObjectsInv' /\ KeptStays
<1>1. PICK x \in WorkerStates : x = Free /\ x.at = "idle"
  BY IdleTyped
<1>2. KeptStays
  BY KeptGrows
<1>3. RowsBacked' /\ DroppedOld'
  BY DEF ObjectsInv, RowsBacked, Backed, Kept, DroppedBy, DroppedOld, Row, Known
<1>4. \A n \in jobs' : Row(n)'
  BY DEF ObjectsInv, WorkersOwn, Owned, Row
<1>5. \A v \in Workers : v # w /\ worker[v].at # "idle" =>
        /\ worker[v].medium \notin jobs'
        /\ medium'[worker[v].medium].key = medium[worker[v].medium].key
        /\ medium'[worker[v].medium].state # "none" <=> Row(worker[v].medium)
  BY DEF ObjectsInv, WorkersOwn, Row
<1>6. WorkersOwn'
  BY <1>1, <1>2, <1>4, <1>5, WorkersMove DEF ObjectsInv
<1> QED
  BY <1>2, <1>3, <1>6 DEF ObjectsInv

LEMMA ObjectsStore ==
  ASSUME TypeOK, WorkersHold, ObjectsInv, NEW w \in Workers, WorkerStore(w)
  PROVE  ObjectsInv' /\ KeptStays
<1>1. PICK m \in Media, k \in Keys : m = worker[w].medium /\ k = worker[w].key
  BY BusyHolds DEF WorkerStore
<1>2. /\ objects' = objects \union {Smaller(k)} /\ dropped' = dropped /\ uses' = uses /\ medium' = medium
      /\ story' = story /\ jobs' = jobs /\ worker[w].at = "store"
  BY <1>1 DEF WorkerStore, storyVars
<1>3. PICK x : x = [worker[w] EXCEPT !.at = "point"]
  OBVIOUS
<1>4. x \in WorkerStates /\ x.at = "point" /\ x.medium = m /\ x.key = k
  BY <1>1, <1>3, TypeParts DEF WorkerStates
<1>5. Works(w, x)
  BY <1>3 DEF WorkerStore
<1>6. KeptStays
  BY <1>2, KeptGrows
<1>7. RowsBacked'
  BY <1>2, <1>6, BackedSame DEF ObjectsInv, Row, Known
<1>8. DroppedOld'
  BY <1>2 DEF ObjectsInv, DroppedOld, DroppedBy, Row
<1>9. /\ Row(m) /\ medium[m].key = k /\ m \notin jobs
      /\ \A v \in Workers : v # w /\ worker[v].at # "idle" => worker[v].medium # m
  BY <1>1, <1>2 DEF ObjectsInv, WorkersOwn, Owned
<1>10. Kept(Smaller(k))'
  BY <1>2 DEF Kept
<1>11. Owned(x)'
  BY <1>2, <1>4, <1>9, <1>10 DEF Owned, Row
<1>12. \A v \in Workers : v # w /\ worker[v].at # "idle" =>
         /\ worker[v].medium \notin jobs'
         /\ medium'[worker[v].medium].key = medium[worker[v].medium].key
         /\ medium'[worker[v].medium].state # "none" <=> Row(worker[v].medium)
  BY <1>2 DEF ObjectsInv, WorkersOwn, Row
<1>13. \A n \in jobs' : Row(n)'
  BY <1>2 DEF ObjectsInv, WorkersOwn, Row
<1>14. WorkersOwn'
  BY <1>2, <1>4, <1>5, <1>6, <1>9, <1>11, <1>12, <1>13, WorkersMove DEF ObjectsInv
<1> QED
  BY <1>6, <1>7, <1>8, <1>14 DEF ObjectsInv

\* The row moves on by a generation, to an object that is there.
LEMMA ObjectsPoint ==
  ASSUME TypeOK, WorkersHold, ObjectsInv, NEW w \in Workers, WorkerPoint(w)
  PROVE  ObjectsInv' /\ KeptStays
<1>1. /\ objects' = objects /\ dropped' = dropped /\ uses' = uses /\ story' = story /\ jobs' = jobs
      /\ worker[w].at = "point"
  BY DEF WorkerPoint, bucketVars, storyVars
<1>2. CASE medium[worker[w].medium].state # "row"
  <2>1. Works(w, Free) /\ medium' = medium
    BY <1>2 DEF WorkerPoint
  <2> QED
    BY <1>1, <2>1, ObjectsFreed
<1>3. CASE medium[worker[w].medium].state = "row"
  <2>1. PICK m \in Media, k \in Keys : m = worker[w].medium /\ k = worker[w].key
    BY <1>1, BusyHolds
  <2>2. PICK x : x = [worker[w] EXCEPT !.at = "drop"]
    OBVIOUS
  <2>3. x \in WorkerStates /\ x.at = "drop" /\ x.medium = m /\ x.key = k
    BY <2>1, <2>2, TypeParts DEF WorkerStates
  <2>4. Works(w, x)
    BY <1>3, <2>2 DEF WorkerPoint
  <2>5. medium' = [medium EXCEPT ![m].key = Smaller(k)]
    BY <1>3, <2>1 DEF WorkerPoint
  <2>6. /\ medium'[m].key = Smaller(k) /\ \A n \in Media : n # m => medium'[n] = medium[n]
        /\ \A n \in Media : medium'[n].state = medium[n].state
    BY <2>5 DEF TypeOK
  <2>7. /\ Row(m) /\ medium[m].key = k /\ m \notin jobs /\ Kept(Smaller(k))
        /\ \A v \in Workers : v # w /\ worker[v].at # "idle" => worker[v].medium # m
    BY <1>1, <2>1 DEF ObjectsInv, WorkersOwn, Owned
  <2>8. /\ Smaller(k) \in Keys /\ Smaller(k)[1] = k[1] /\ Smaller(k)[2] = k[2] + 1
        /\ k[2] \in Nat /\ Kept(Raw(k[1]))
    BY <2>7, KeyFacts DEF ObjectsInv, RowsBacked, Backed
  <2>9. KeptStays /\ \A j : Backed(j)' <=> Backed(j)
    BY <1>1, KeptGrows DEF Backed, Kept, DroppedBy
  <2>10. RowsBacked'
    <3>1. ASSUME NEW n \in Media, Row(n)' PROVE Backed(medium[n].key)'
      <4>1. PICK j : j = medium'[n].key
        OBVIOUS
      <4>2. Backed(j)
        <5>1. CASE n = m
          BY <2>6, <2>7, <2>8, <4>1, <5>1 DEF Backed
        <5>2. CASE n # m
          BY <2>6, <3>1, <4>1, <5>2 DEF ObjectsInv, RowsBacked, Row
        <5> QED
          BY <5>1, <5>2
      <4>3. Backed(j)'
        BY <2>9, <4>2
      <4> QED
        BY <4>1, <4>3 DEF Backed, Kept, Raw
    <3>2. \A s \in StoryIds : Known(s)' => Backed(story[s].key)'
      BY <1>1 DEF ObjectsInv, RowsBacked, Backed, Known, Kept, DroppedBy
    <3>3. \A u \in Uploads : uses'[u] > 0 => Kept(Raw(u))'
      BY <1>1 DEF ObjectsInv, RowsBacked, Kept, DroppedBy
    <3> QED
      BY <3>1, <3>2, <3>3 DEF RowsBacked
  <2>11. DroppedOld'
    <3> SUFFICES ASSUME NEW n \in Media, NEW j \in Keys, DroppedBy(n, j)
                 PROVE  Row(n)' /\ medium'[n].key \in Keys /\ j[2] < medium'[n].key[2]
      BY <1>1 DEF DroppedOld, DroppedBy
    <3>1. Row(n) /\ medium[n].key \in Keys /\ j[2] < medium[n].key[2] /\ j[2] \in Nat
      BY KeyFacts DEF ObjectsInv, DroppedOld
    <3>2. CASE n = m
      BY <2>6, <2>7, <2>8, <3>1, <3>2 DEF Row
    <3>3. CASE n # m
      BY <2>6, <3>1, <3>3 DEF Row
    <3> QED
      BY <3>2, <3>3
  <2>12. Owned(x)'
    BY <2>3, <2>6, <2>7 DEF Owned, Row
  <2>13. \A v \in Workers : v # w /\ worker[v].at # "idle" =>
           /\ worker[v].medium \notin jobs'
           /\ medium'[worker[v].medium].key = medium[worker[v].medium].key
           /\ medium'[worker[v].medium].state # "none" <=> Row(worker[v].medium)
    BY <1>1, <2>6, <2>7, BusyHolds DEF ObjectsInv, WorkersOwn, Row
  <2>14. \A n \in jobs' : Row(n)'
    BY <1>1, <2>6 DEF ObjectsInv, WorkersOwn, Row, TypeOK
  <2>15. WorkersOwn'
    BY <1>1, <2>3, <2>4, <2>7, <2>9, <2>12, <2>13, <2>14, WorkersMove DEF ObjectsInv
  <2> QED
    BY <2>9, <2>10, <2>11, <2>15 DEF ObjectsInv
<1> QED
  BY <1>2, <1>3

\* The object that the worker read goes, in the name of the medium whose row has moved on.
LEMMA ObjectsDrop ==
  ASSUME TypeOK, WorkersHold, ObjectsInv, NEW w \in Workers, WorkerDrop(w)
  PROVE  ObjectsInv' /\ KeptStays
<1>1. PICK m \in Media, k \in Keys : m = worker[w].medium /\ k = worker[w].key
  BY BusyHolds DEF WorkerDrop
<1>2. /\ objects' = objects \ {k} /\ dropped' = dropped \union {<<m, k>>} /\ uses' = uses
      /\ medium' = medium /\ story' = story /\ jobs' = jobs /\ worker[w].at = "drop" /\ Works(w, Free)
  BY <1>1 DEF WorkerDrop, storyVars
<1>3. PICK x \in WorkerStates : x = Free /\ x.at = "idle"
  BY IdleTyped
<1>4. KeptStays
  <2> SUFFICES ASSUME NEW key \in Keys, Kept(key) PROVE Kept(key)'
    BY DEF KeptStays
  <2>1. CASE key = k
    BY <1>2, <2>1 DEF Kept, DroppedBy
  <2>2. CASE key # k
    BY <1>2, <2>2 DEF Kept, DroppedBy
  <2> QED
    BY <2>1, <2>2
<1>5. RowsBacked'
  BY <1>2, <1>4, BackedSame DEF ObjectsInv, Row, Known
<1>6. Row(m) /\ medium[m].key = Smaller(k)
  BY <1>1, <1>2 DEF ObjectsInv, WorkersOwn, Owned
<1>7. Smaller(k) \in Keys /\ Smaller(k)[2] = k[2] + 1 /\ k[2] \in Nat
  BY KeyFacts
<1>8. DroppedOld'
  <2> SUFFICES ASSUME NEW n \in Media, NEW j \in Keys, <<n, j>> \in dropped'
               PROVE  Row(n)' /\ medium'[n].key \in Keys /\ j[2] < medium'[n].key[2]
    BY DEF DroppedOld, DroppedBy
  <2>1. CASE <<n, j>> \in dropped
    BY <1>2, <2>1 DEF ObjectsInv, DroppedOld, DroppedBy, Row
  <2>2. CASE n = m /\ j = k
    BY <1>2, <1>6, <1>7, <2>2 DEF Row
  <2> QED
    BY <1>2, <2>1, <2>2
<1>9. \A v \in Workers : v # w /\ worker[v].at # "idle" =>
        /\ worker[v].medium \notin jobs'
        /\ medium'[worker[v].medium].key = medium[worker[v].medium].key
        /\ medium'[worker[v].medium].state # "none" <=> Row(worker[v].medium)
  BY <1>2 DEF ObjectsInv, WorkersOwn, Row
<1>10. \A n \in jobs' : Row(n)'
  BY <1>2 DEF ObjectsInv, WorkersOwn, Row
<1>11. WorkersOwn'
  BY <1>2, <1>3, <1>4, <1>9, <1>10, WorkersMove DEF ObjectsInv
<1> QED
  BY <1>4, <1>5, <1>8, <1>11 DEF ObjectsInv

LEMMA KeysSame ==
  ASSUME ActorsKeys, KeptStays, actor' = actor
  PROVE  ActorsKeys'
<1> SUFFICES ASSUME NEW a \in Actors, actor[a].at \in {"page", "create", "repost"}
             PROVE  Backed(actor[a].key)'
  BY DEF ActorsKeys
<1>1. PICK k : k = actor[a].key /\ k = actor'[a].key
  OBVIOUS
<1>2. k \in Keys /\ Kept(k)' /\ Kept(Raw(k[1]))'
  BY <1>1, BackedStays DEF ActorsKeys
<1> QED
  BY <1>1, <1>2 DEF Backed, Kept, Raw

LEMMA KeysMove ==
  ASSUME TypeOK, ActorsKeys, KeptStays, NEW a \in Actors, NEW x \in ActorStates, actor' = [actor EXCEPT ![a] = x],
         x.at \in {"page", "create", "repost"} => Backed(x.key)
  PROVE  ActorsKeys'
<1>1. actor'[a] = x /\ \A b \in Actors : b # a => actor'[b] = actor[b]
  BY ActorMoved
<1> SUFFICES ASSUME NEW b \in Actors, actor'[b].at \in {"page", "create", "repost"}
             PROVE  Backed(actor[b].key)'
  BY DEF ActorsKeys
<1>2. PICK k : k = actor'[b].key
  OBVIOUS
<1>3. Backed(k)
  BY <1>1, <1>2 DEF ActorsKeys
<1>4. k \in Keys /\ Kept(k)' /\ Kept(Raw(k[1]))'
  BY <1>3, BackedStays
<1> QED
  BY <1>2, <1>4 DEF Backed, Kept, Raw

LEMMA ObjectsNext ==
  ASSUME TypeOK, TypeOK', WorkersHold, ArchiveInv, ObjectsInv, ActorsKeys, [Next]_vars
  PROVE  ObjectsInv' /\ ActorsKeys'
<1>0. Requests \subseteq Actors /\ Cleaners \subseteq Actors
  BY DEF Actors
<1> DEFINE RowsSame == /\ \A m \in Media : medium'[m].key = medium[m].key /\ (Row(m)' <=> Row(m))
                       /\ \A s \in StoryIds : story'[s].key = story[s].key /\ (Known(s)' <=> Known(s))
           Goal == ObjectsInv' /\ ActorsKeys'
\* An actor moves to a place where it holds no key.
<1>1. ASSUME NEW a \in Actors, NEW x \in ActorStates, actor' = [actor EXCEPT ![a] = x],
             x.at \notin {"page", "create", "repost"},
             objects' = objects, dropped' = dropped, uses' = uses, jobs' = jobs, worker' = worker, RowsSame
      PROVE  Goal
  <2>1. KeptStays /\ ObjectsInv'
    BY <1>1, KeptGrows, ObjectsSame
  <2> QED
    BY <1>1, <2>1, KeysMove
<1>2. ASSUME NEW a \in Actors, actor' = [actor EXCEPT ![a] = Idle],
             objects' = objects, dropped' = dropped, uses' = uses, jobs' = jobs, worker' = worker, RowsSame
      PROVE  Goal
  <2>1. PICK x \in ActorStates : x = Idle /\ x.at = "idle"
    BY IdleTyped
  <2> QED
    BY <1>1, <1>2, <2>1
<1>3. medium' = medium /\ story' = story => RowsSame
  BY DEF Row, Known
<1>4. ASSUME NEW u \in Uploads, Upload(u) PROVE Goal
  <2>1. /\ objects \subseteq objects' /\ dropped' = dropped /\ uses' = uses /\ jobs' = jobs /\ worker' = worker /\ actor' = actor
        /\ medium' = medium /\ story' = story
    BY <1>4 DEF Upload, postVars, storyVars
  <2>2. KeptStays
    BY <2>1, KeptGrows
  <2> QED
    BY <2>1, <2>2, <1>3, ObjectsSame, KeysSame
<1>5. ASSUME NEW u \in Uploads, Uploaded(u) PROVE Backed(Raw(u))
  BY <1>5, KeyFacts DEF Uploaded, ObjectsInv, RowsBacked, Backed, Kept
<1>7. ASSUME NEW m \in Media, NEW u \in Uploads, CreatePost(m, u) PROVE Goal
  BY <1>5, <1>7, ObjectsMedium, KeysSame DEF CreatePost
<1>8. ASSUME NEW m \in Media, NEW r \in Requests, RecreateMedium(r, m) PROVE Goal
  <2>1. /\ Backed(actor[r].key)
        /\ AddMedium(m, actor[r].key) /\ actor' = [actor EXCEPT ![r] = Idle]
    BY <1>0, <1>8 DEF RecreateMedium, ActorsKeys
  <2>2. PICK x \in ActorStates : x = Idle /\ x.at = "idle"
    BY IdleTyped
  <2> QED
    BY <1>0, <2>1, <2>2, ObjectsMedium, KeysMove
<1>9. ASSUME NEW r \in Requests, NEW kept \in BOOLEAN, SaveEditor(r, kept) PROVE Goal
  <2>1. PICK x \in ActorStates :
          /\ actor' = [actor EXCEPT ![r] = x]
          /\ x = Idle \/ (x.at = "create" /\ x.key = actor[r].key /\ x.left = actor[r].left /\ actor[r].at = "page")
    BY <1>9, SaveMoves
  <2>2. /\ objects' = objects /\ dropped' = dropped /\ uses' = uses /\ jobs' = jobs /\ worker' = worker /\ story' = story
        /\ \/ medium' = medium
           \/ medium' = [m \in Media |-> IF m \in Shown THEN [medium[m] EXCEPT !.state = "deleted"] ELSE medium[m]]
    BY <1>9 DEF SaveEditor, bucketVars, storyVars
  <2>3. RowsSame
    BY <2>2 DEF Shown, Row, Known, TypeOK
  <2>4. CASE x = Idle
    BY <1>0, <1>2, <2>1, <2>2, <2>3, <2>4
  <2>5. CASE x.at = "create" /\ x.key = actor[r].key /\ actor[r].at = "page"
    <3>1. Backed(x.key)
      BY <1>0, <2>5 DEF ActorsKeys
    <3>2. ObjectsInv' /\ KeptStays
      BY <2>2, <2>3, KeptGrows, ObjectsSame
    <3> QED
      BY <1>0, <2>1, <2>5, <3>1, <3>2, KeysMove
  <2> QED
    BY <2>1, <2>4, <2>5
<1>10. ASSUME NEW r \in Requests, NEW key, OpenEditor(r, key) PROVE Goal
  <2>1. PICK x \in ActorStates : actor' = [actor EXCEPT ![r] = x] /\ x.at = "page" /\ x.key = key
    BY <1>10, EditorMoves
  <2>2. Backed(key)
    <3>1. \A m \in Shown : m \in Media /\ Row(m)
      BY DEF Shown, Row
    <3> QED
      BY <1>5, <1>10, <3>1 DEF OpenEditor, ObjectsInv, RowsBacked
  <2>3. /\ objects' = objects /\ dropped' = dropped /\ uses' = uses /\ jobs' = jobs /\ worker' = worker
        /\ medium' = medium /\ story' = story
    BY <1>10 DEF OpenEditor, bucketVars, postVars, storyVars
  <2>4. ObjectsInv' /\ KeptStays
    BY <1>3, <2>3, KeptGrows, ObjectsSame
  <2> QED
    BY <1>0, <2>1, <2>2, <2>4, KeysMove
<1>11. ASSUME NEW r \in Requests, NEW key, RepostRead(r, key) PROVE Goal
  <2>1. PICK x \in ActorStates : actor' = [actor EXCEPT ![r] = x] /\ x.at = "repost" /\ x.key = key
    BY <1>11, RepostMoves
  <2>2. Backed(key)
    <3>1. CASE \E m \in Shown : key = medium[m].key
      BY <3>1 DEF Shown, Row, ObjectsInv, RowsBacked
    <3>2. CASE \E s \in StoryIds : story[s].state = "live" /\ key = story[s].key
      BY <3>2 DEF Known, ObjectsInv, RowsBacked
    <3> QED
      BY <1>11, <3>1, <3>2 DEF RepostRead
  <2>3. /\ objects' = objects /\ dropped' = dropped /\ uses' = uses /\ jobs' = jobs /\ worker' = worker
        /\ medium' = medium /\ story' = story
    BY <1>11 DEF RepostRead, bucketVars, postVars, storyVars
  <2>4. ObjectsInv' /\ KeptStays
    BY <1>3, <2>3, KeptGrows, ObjectsSame
  <2> QED
    BY <1>0, <2>1, <2>2, <2>4, KeysMove
<1>12. ASSUME NEW s \in StoryIds, NEW u \in Uploads, CreateStory(s, u) PROVE Goal
  BY <1>5, <1>12, ObjectsStory, KeysSame DEF CreateStory
<1>13. ASSUME NEW s \in StoryIds, NEW r \in Requests, RepostCreate(r, s) PROVE Goal
  <2>1. /\ Backed(actor[r].key)
        /\ AddStory(s, actor[r].key) /\ actor' = [actor EXCEPT ![r] = Idle]
    BY <1>0, <1>13 DEF RepostCreate, ActorsKeys
  <2>2. PICK x \in ActorStates : x = Idle /\ x.at = "idle"
    BY IdleTyped
  <2> QED
    BY <1>0, <2>1, <2>2, ObjectsStory, KeysMove
<1>14. ASSUME NEW s \in StoryIds, Expire(s) PROVE Goal
  <2>1. /\ objects' = objects /\ dropped' = dropped /\ uses' = uses /\ jobs' = jobs /\ worker' = worker /\ actor' = actor
        /\ medium' = medium
    BY <1>14 DEF Expire, bucketVars, postVars
  <2>2. RowsSame
    BY <1>14, <2>1 DEF Expire, Row, Known, TypeOK
  <2> QED
    BY <2>1, <2>2, KeptGrows, ObjectsSame, KeysSame
<1>15. ASSUME NEW s \in StoryIds, NEW r \in Requests, NEW deletes, deletes \in BOOLEAN, Begins(r, s, deletes)
       PROVE  Goal
  <2>1. PICK x \in ActorStates : actor' = [actor EXCEPT ![r] = x] /\ x.at = "check" /\ x.story = s /\ x.left = {}
    BY <1>15, BeginMoves
  <2>2. /\ objects' = objects /\ dropped' = dropped /\ uses' = uses /\ jobs' = jobs /\ worker' = worker
        /\ medium' = medium /\ story' = story
    BY <1>15 DEF Begins, bucketVars, postVars, storyVars
  <2> QED
    BY <1>0, <1>1, <1>3, <2>1, <2>2
<1>16. ASSUME NEW c \in Cleaners, CleanFind(c) PROVE Goal
  <2>1. PICK x \in ActorStates : actor' = [actor EXCEPT ![c] = x] /\ x.at = "next"
    BY <1>16, FindMoves
  <2>2. /\ objects' = objects /\ dropped' = dropped /\ uses' = uses /\ jobs' = jobs /\ worker' = worker
        /\ medium' = medium /\ story' = story
    BY <1>16 DEF CleanFind, bucketVars, postVars, storyVars
  <2> QED
    BY <1>0, <1>1, <1>3, <2>1, <2>2
<1>17. ASSUME NEW c \in Cleaners, NEW s \in StoryIds, NEW keeps, CleanNext(c, s, keeps) PROVE Goal
  <2>1. PICK x \in ActorStates :
          /\ actor' = [actor EXCEPT ![c] = x] /\ x.story = s /\ s \in actor[c].left /\ x.left \subseteq actor[c].left
          /\ x.at = IF keeps THEN "check" ELSE "delete"
    BY <1>17, NextMoves
  <2>2. /\ objects' = objects /\ dropped' = dropped /\ uses' = uses /\ jobs' = jobs /\ worker' = worker
        /\ medium' = medium /\ story' = story
    BY <1>17 DEF CleanNext, bucketVars, postVars
  <2>3. x.at \notin {"page", "create", "repost"}
    BY <2>1
  <2> QED
    BY <1>0, <1>1, <1>3, <2>1, <2>2, <2>3
<1>18. ASSUME NEW a \in Actors, Check(a) PROVE Goal
  <2>1. PICK x \in ActorStates : actor' = [actor EXCEPT ![a] = x] /\ x.at \notin {"page", "create", "repost"}
    BY <1>18, CheckMoves, RestTyped
  <2>2. /\ objects' = objects /\ dropped' = dropped /\ uses' = uses /\ jobs' = jobs /\ worker' = worker
        /\ medium' = medium /\ story' = story
    BY <1>18 DEF Check, bucketVars, postVars, storyVars
  <2> QED
    BY <1>1, <1>3, <2>1, <2>2
<1>19. ASSUME NEW a \in Actors, Copy(a) PROVE Goal
  <2>1. PICK x \in ActorStates : actor' = [actor EXCEPT ![a] = x] /\ x.at \notin {"page", "create", "repost"}
    BY <1>19, RestTyped DEF Copy
  <2>2. /\ objects' = objects /\ dropped' = dropped /\ uses' = uses /\ jobs' = jobs /\ worker' = worker
        /\ medium' = medium /\ story' = story
    BY <1>19 DEF Copy, bucketVars, postVars
  <2> QED
    BY <1>1, <1>3, <2>1, <2>2
<1>20. ASSUME NEW a \in Actors, Delete(a) PROVE Goal
  <2>1. PICK x \in ActorStates : actor' = [actor EXCEPT ![a] = x] /\ x.at \notin {"page", "create", "repost"}
    BY <1>20, DeleteMoves, RestTyped, IdleTyped
  <2>2. /\ objects' = objects /\ dropped' = dropped /\ uses' = uses /\ jobs' = jobs /\ worker' = worker /\ medium' = medium
    BY <1>20 DEF Delete, bucketVars, postVars
  <2>3. PICK s \in StoryIds : actor[a].story = s /\ Known(s)
    BY <1>20 DEF Delete, ArchiveInv, ActorsArchive
  <2>4. story' = story \/ story' = [story EXCEPT ![s].state = "removed"]
    BY <1>20, <2>3 DEF Delete
  <2>5. RowsSame
    BY <2>2, <2>3, <2>4 DEF Row, Known, TypeOK
  <2> QED
    BY <1>1, <2>1, <2>2, <2>5
\* Nothing is deleted: the story has been archived.
<1>21. ASSUME NEW r \in Requests, Count(r) PROVE Goal
  <2>1. PICK s \in StoryIds : actor[r].story = s /\ archive[s] > 0
    BY <1>0, <1>21 DEF Count, ArchiveInv, ActorsArchive
  <2>2. objects' = objects
    BY <1>21, <2>1 DEF Count
  <2>3. /\ actor' = [actor EXCEPT ![r] = Idle] /\ dropped' = dropped /\ uses' = uses /\ jobs' = jobs /\ worker' = worker
        /\ medium' = medium /\ story' = story
    BY <1>21 DEF Count, postVars, storyVars
  <2> QED
    BY <1>0, <1>2, <1>3, <2>2, <2>3
<1>22. ASSUME NEW a \in Actors, ActorFails(a) PROVE Goal
  BY <1>2, <1>3, <1>22 DEF ActorFails, bucketVars, postVars, storyVars
<1>23. CASE UNCHANGED vars
  <2>1. /\ objects' = objects /\ dropped' = dropped /\ uses' = uses /\ jobs' = jobs /\ worker' = worker
        /\ medium' = medium /\ story' = story /\ actor' = actor
    BY <1>23 DEF vars, bucketVars, postVars, storyVars
  <2> QED
    BY <1>3, <2>1, KeptGrows, ObjectsSame, KeysSame
<1>24. ASSUME NEW w \in Workers, WorkerStep(w) PROVE Goal
  <2>1. uses' = uses /\ story' = story /\ actor' = actor
    BY <1>24, WorkerStepTyped DEF storyVars
  <2>2. ObjectsInv' /\ KeptStays
    <3>1. CASE WorkerFails(w)
      <4>1. worker[w].at # "idle"
        BY <3>1 DEF WorkerFails, WorkersHold, Holds
      <4>2. /\ Works(w, Free) /\ objects' = objects /\ dropped' = dropped /\ medium' = medium
            /\ jobs' \in {jobs, jobs \union {worker[w].medium}}
        BY <3>1 DEF WorkerFails, bucketVars
      <4> QED
        BY <2>1, <4>1, <4>2, ObjectsFreed
    <3> QED
      BY <1>24, <3>1, ObjectsRead, ObjectsStore, ObjectsPoint, ObjectsDrop DEF WorkerStep
  <2> QED
    BY <2>1, <2>2, KeysSame
<1>25. CASE PostStep
  BY <1>25, <1>4, <1>7, <1>8, <1>9, <1>10 DEF PostStep
<1>26. CASE \E s \in StoryIds : StoryStep(s)
  BY <1>26, <1>12, <1>13, <1>14, <1>15 DEF StoryStep, RequestRemove, RequestHighlight
<1>27. CASE \E a \in Actors : ActorStep(a)
  BY <1>27, <1>18, <1>19, <1>20, <1>22 DEF ActorStep
<1> QED
  BY <1>11, <1>16, <1>17, <1>21, <1>23, <1>24, <1>25, <1>26, <1>27 DEF Next, CleanerStarts

-------------------------------------------------------------------------------

LEMMA MediaInvariant == Spec => [](TypeOK /\ WorkersHold /\ ArchiveInv /\ ObjectsInv /\ ActorsKeys)
<1>1. Init => TypeOK /\ WorkersHold /\ ArchiveInv /\ ObjectsInv /\ ActorsKeys
  BY TypeInit, ArchiveInit, ObjectsInit
<1>2. TypeOK /\ WorkersHold /\ ArchiveInv /\ ObjectsInv /\ ActorsKeys /\ [Next]_vars
        => (TypeOK /\ WorkersHold /\ ArchiveInv /\ ObjectsInv /\ ActorsKeys)'
  BY TypeNext, ArchiveNext, ObjectsNext
<1> QED
  BY <1>1, <1>2, PTL DEF Spec

\* Workers, edits, reposts, removals and cleaners keep every variable in its set.
THEOREM MediaTypeCorrect == Spec => []TypeOK
BY MediaInvariant, PTL

\* No order of cleaners, removals, highlights and failures takes away a story whose
\* owner archives without a copy in the archive.
THEOREM StoriesArchived == Spec => []RemovedIsArchived
<1>1. ArchiveInv => RemovedIsArchived
  BY DEF ArchiveInv
<1> QED
  BY <1>1, MediaInvariant, PTL

\* A story is copied no more often than there are parties that may copy at once.
THEOREM FewCopies == Spec => []CopiesBounded
<1>1. TypeOK /\ ArchiveInv => CopiesBounded
  <2> SUFFICES ASSUME TypeOK, ArchiveInv, NEW s \in StoryIds PROVE archive[s] <= Cardinality(Actors)
    BY DEF CopiesBounded
  <2>1. /\ archive[s] \in Nat /\ Cardinality(Copying(s)) \in Nat /\ Cardinality(Actors) \in Nat
        /\ archive[s] + Cardinality(Copying(s)) <= Cardinality(Actors)
    BY CopyingCount, ActorsCount DEF TypeOK, ArchiveInv, CopiesCounted
  <2> QED
    BY <2>1
<1> QED
  BY <1>1, MediaInvariant, PTL

\* Whatever the worker, edits, reposts and removals do to each other, no medium
\* loses its object to its own job, and what is missing was deleted by the job of a
\* medium.
THEOREM MissingShared == Spec => []MissingIsShared
<1>1. TypeOK /\ ArchiveInv /\ ObjectsInv => MissingIsShared
  <2> SUFFICES ASSUME TypeOK, ArchiveInv, ObjectsInv PROVE MissingIsShared
    OBVIOUS
  <2>1. ASSUME NEW m \in Shown
        PROVE  medium[m].key \in objects \/ \E n \in Media \ {m} : DroppedBy(n, medium[m].key)
    <3>1. PICK k : k = medium[m].key
      OBVIOUS
    <3>2. m \in Media /\ k \in Keys /\ Kept(k) /\ k[2] \in Nat
      BY <2>1, <3>1, KeyFacts DEF Shown, Row, ObjectsInv, RowsBacked, Backed
    <3>3. ~DroppedBy(m, k)
      BY <3>1, <3>2 DEF ObjectsInv, DroppedOld
    <3> QED
      BY <3>1, <3>2, <3>3 DEF Kept
  <2>2. ASSUME NEW s \in StoryIds, Exists(s) \/ archive[s] > 0
        PROVE  story[s].key \in objects \/ \E n \in Media : DroppedBy(n, story[s].key)
    <3>1. Known(s)
      BY <2>2 DEF Exists, Known, ArchiveInv, ArchivedIsKnown
    <3> QED
      BY <3>1 DEF ObjectsInv, RowsBacked, Backed, Kept
  <2> QED
    BY <2>1, <2>2 DEF MissingIsShared
<1> QED
  BY <1>1, MediaInvariant, PTL
================================================================================

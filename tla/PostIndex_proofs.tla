---------------------------- MODULE PostIndex_proofs ----------------------------
(***************************************************************************)
(* Type correctness of the search index, why it may disagree with the      *)
(* posts, and that an alert tells of a post once.                          *)
(***************************************************************************)
EXTENDS PostIndex, TLAPS

Slots == [call : {"queue", "remove"}, left : SUBSET Posts] \union {Rest}

\* Some request still has to tell the search about p.
Listed(p) == \E h \in Handlers : p \in slot[h].left

\* The search is only told of posts that were created.
ComingExists == \A p \in Posts : Coming(p) \/ Holds(p) => Exists(p)

Explained(p) ==
  /\ ~Agrees(p) /\ ~Holds(p) => Coming(p) \/ Forgotten(p)
  /\ Holds(p) /\ Findable(indexer.copy) # Findable(Copy(p)) => Coming(p) \/ Forgotten(p)

IndexInv == TypeOK /\ ComingExists /\ StaleIsExplained

IndexTyped ==
  /\ post \in [Posts -> Status \union {"none"}]
  /\ private \in BOOLEAN
  /\ index \in [Posts -> Copies \union {NoDoc}]
  /\ jobs \in [Posts -> Nat]
  /\ indexer \in [post : Posts, copy : Copies] \union {Idle}
  /\ slot \in [Handlers -> Slots]

AlertTyped ==
  /\ alert \in [Alerts -> {"none", "active", "off"}]
  /\ matches \in SUBSET Posts
  /\ matcher \in [post : Posts, todo : SUBSET Alerts, tell : SUBSET Alerts] \union {Asleep}
  /\ marked \in SUBSET Pairs
  /\ told \in [Pairs -> Nat]

GhostsTyped ==
  /\ lost \in SUBSET Posts /\ raced \in SUBSET Posts /\ skipped \in SUBSET Posts
  /\ changes \in Nat /\ failures \in Nat

-------------------------------------------------------------------------------

LEMMA TypeParts == TypeOK <=> IndexTyped /\ AlertTyped /\ GhostsTyped
BY DEF TypeOK, IndexTyped, AlertTyped, GhostsTyped, Slots

LEMMA TypePartsNext == IndexTyped' /\ AlertTyped' /\ GhostsTyped' => TypeOK'
BY DEF TypeOK, IndexTyped, AlertTyped, GhostsTyped, Slots

LEMMA Constants ==
  "nothing" \notin Posts /\ ReindexMax \in Nat /\ MaxChanges \in Nat /\ MaxFailures \in Nat
BY ConstantsAssumption DEF ConstantsAssumption

LEMMA StaleIs == StaleIsExplained <=> \A p \in Posts : Explained(p)
BY DEF StaleIsExplained, Explained

LEMMA ComingIs ==
  ASSUME NEW p
  PROVE  Coming(p) <=> jobs[p] > 0 \/ Listed(p)
BY DEF Coming, Listed

LEMMA SlotTypes ==
  ASSUME TypeOK
  PROVE  slot \in [Handlers -> Slots] /\ \A h \in Handlers : slot[h].left \subseteq Posts
BY DEF TypeOK, Slots, Rest

\* A request lists the posts it is about, and the other requests' lists stay.
LEMMA StartsLists ==
  ASSUME TypeOK, NEW h \in Handlers, NEW call \in {"queue", "remove"}, NEW posts \in SUBSET Posts,
         Starts(h, call, posts)
  PROVE  /\ slot' \in [Handlers -> Slots]
         /\ \A p \in Posts : Listed(p)' <=> p \in posts \/ Listed(p)
<1>1. /\ slot[h] = Rest /\ slot[h].left = {}
      /\ slot' = [slot EXCEPT ![h] = IF posts = {} THEN Rest ELSE [call |-> call, left |-> posts]]
  BY DEF Starts, Rest
<1>2. (IF posts = {} THEN Rest ELSE [call |-> call, left |-> posts]) \in Slots
  BY DEF Slots
<1>3. slot' \in [Handlers -> Slots] /\ \A g \in Handlers \ {h} : slot'[g] = slot[g]
  BY <1>1, <1>2, SlotTypes
<1>4. slot'[h].left = posts
  BY <1>1, SlotTypes DEF Rest
<1> QED
  BY <1>1, <1>3, <1>4 DEF Listed

\* A request that has told the search of p may still list it elsewhere; the
\* other posts stay listed.
LEMMA DoesLists ==
  ASSUME TypeOK, NEW h \in Handlers, NEW p \in slot[h].left, Does(h, p)
  PROVE  /\ slot' \in [Handlers -> Slots]
         /\ \A q \in Posts : /\ q # p /\ Listed(q) => Listed(q)'
                             /\ Listed(q)' => Listed(q)
<1> DEFINE left == slot[h].left \ {p}
           new  == IF left = {} THEN Rest ELSE [slot[h] EXCEPT !.left = left]
<1>1. slot[h] \in Slots /\ slot[h] # Rest /\ left \subseteq Posts
  BY SlotTypes DEF Rest
<1>2. new \in Slots /\ new.left = left
  BY <1>1 DEF Slots, Rest
<1>3. slot' = [slot EXCEPT ![h] = new]
  BY DEF Does
<1> HIDE DEF new
<1>4. slot' \in [Handlers -> Slots] /\ slot'[h] = new /\ \A g \in Handlers \ {h} : slot'[g] = slot[g]
  BY <1>2, <1>3, SlotTypes
<1>5. ASSUME NEW q \in Posts, q # p, Listed(q) PROVE Listed(q)'
  <2>1. PICK g \in Handlers : q \in slot[g].left
    BY <1>5 DEF Listed
  <2>2. q \in slot'[g].left
    BY <1>2, <1>4, <1>5, <2>1
  <2> QED
    BY <2>2 DEF Listed
<1>6. ASSUME NEW q \in Posts, Listed(q)' PROVE Listed(q)
  <2>1. PICK g \in Handlers : q \in slot'[g].left
    BY <1>6 DEF Listed
  <2>2. q \in slot[g].left
    BY <1>2, <1>4, <2>1
  <2> QED
    BY <2>2 DEF Listed
<1> QED
  BY <1>4, <1>5, <1>6

-------------------------------------------------------------------------------
(***************************************************************************)
(* Requests.                                                               *)
(***************************************************************************)

\* What is said of a post stays true if nothing about it gets worse.
LEMMA StaysExplained ==
  ASSUME NEW p \in Posts, Explained(p), UNCHANGED indexer,
         Findable(index'[p]) = Findable(index[p]),
         Findable(Copy(p))' = Findable(Copy(p)),
         Coming(p) \/ Forgotten(p) => Coming(p)' \/ Forgotten(p)'
  PROVE  Explained(p)'
BY DEF Explained, Agrees, Holds

LEMMA WritesKeep ==
  ASSUME IndexInv, NEW h \in Handlers, NEW p \in Posts, NEW status \in Status,
         NEW call \in {"queue", "remove"}, Writes(p, status), Starts(h, call, {p})
  PROVE  IndexInv'
<1>1. /\ post' = [post EXCEPT ![p] = status]
      /\ UNCHANGED <<private, index, jobs, indexer, alert, matches, matcher, marked, told,
                     lost, raced, skipped, failures>>
      /\ changes' = changes + 1
  BY DEF Writes, Changes, indexVars, alertVars, ghosts
<1>2. TypeOK /\ ComingExists /\ \A q \in Posts : Explained(q)
  BY StaleIs DEF IndexInv
<1>3. slot' \in [Handlers -> Slots] /\ \A q \in Posts : Listed(q)' <=> q = p \/ Listed(q)
  BY <1>2, StartsLists
<1>4. post'[p] = status /\ \A q \in Posts \ {p} : post'[q] = post[q]
  BY <1>1, <1>2 DEF TypeOK
<1>5. TypeOK'
  <2>1. post' \in [Posts -> Status \union {"none"}]
    BY <1>1, <1>2 DEF TypeOK
  <2>2. IndexTyped'
    BY <1>1, <1>2, <1>3, <2>1, TypeParts DEF IndexTyped, Slots
  <2>3. AlertTyped' /\ GhostsTyped'
    BY <1>1, <1>2, TypeParts DEF AlertTyped, GhostsTyped
  <2> QED
    BY <2>2, <2>3, TypePartsNext
<1>6. ComingExists'
  BY <1>1, <1>2, <1>3, <1>4 DEF ComingExists, Holds, Coming, Listed, Exists, Status
<1>7. ASSUME NEW q \in Posts PROVE Explained(q)'
  <2>1. CASE q = p
    BY <1>3, <2>1 DEF Explained, Coming, Listed
  <2>2. CASE q # p
    <3>1. Coming(q) => Coming(q)'
      BY <1>1, <1>3 DEF Coming, Listed
    <3>2. Findable(Copy(q))' = Findable(Copy(q))
      BY <1>1, <1>4, <2>2 DEF Findable, Copy
    <3> QED
      BY <1>1, <1>2, <3>1, <3>2, StaysExplained DEF Forgotten
  <2> QED
    BY <2>1, <2>2
<1> QED
  BY <1>5, <1>6, <1>7 DEF IndexInv, StaleIsExplained, Explained

LEMMA PrivacyKeeps ==
  ASSUME IndexInv, NEW h \in Handlers, SetPrivate(h)
  PROVE  IndexInv'
<1> DEFINE Own == {p \in Posts : Exists(p)}
<1>1. /\ \E found \in SUBSET Own : /\ Starts(h, "queue", found)
                                   /\ skipped' = skipped \union (Own \ found)
      /\ private' = ~private /\ changes' = changes + 1
      /\ UNCHANGED <<post, index, jobs, indexer, alert, matches, matcher, marked, told,
                     lost, raced, failures>>
  BY DEF SetPrivate, Changes, indexVars, alertVars
<1>2. PICK found \in SUBSET Own : /\ Starts(h, "queue", found)
                                  /\ skipped' = skipped \union (Own \ found)
  BY <1>1
<1>3. TypeOK /\ ComingExists /\ \A q \in Posts : Explained(q)
  BY StaleIs DEF IndexInv
<1>4. slot' \in [Handlers -> Slots] /\ \A q \in Posts : Listed(q)' <=> q \in found \/ Listed(q)
  BY <1>2, <1>3, StartsLists
<1>5. TypeOK'
  <2>1. private' \in BOOLEAN
    BY <1>1
  <2>2. IndexTyped'
    BY <1>1, <1>3, <1>4, <2>1, TypeParts DEF IndexTyped, Slots
  <2>3. skipped' \in SUBSET Posts
    BY <1>2, <1>3 DEF TypeOK
  <2>4. AlertTyped' /\ GhostsTyped'
    BY <1>1, <1>3, <2>3, TypeParts DEF AlertTyped, GhostsTyped
  <2> QED
    BY <2>2, <2>4, TypePartsNext
<1>6. ComingExists'
  BY <1>1, <1>2, <1>3, <1>4 DEF ComingExists, Holds, Coming, Listed, Exists
<1>7. ASSUME NEW q \in Posts PROVE Explained(q)'
  <2>1. Coming(q) \/ Forgotten(q) => Coming(q)' \/ Forgotten(q)'
    BY <1>1, <1>2, <1>4 DEF Coming, Listed, Forgotten
  <2>2. CASE Exists(q)
    <3>1. Coming(q)' \/ Forgotten(q)'
      BY <1>1, <1>2, <1>4, <2>2 DEF Coming, Listed, Forgotten
    <3> QED
      BY <3>1 DEF Explained
  <2>3. CASE ~Exists(q)
    <3>1. Findable(Copy(q))' = Findable(Copy(q))
      BY <1>1, <2>3 DEF Findable, Copy, Exists
    <3> QED
      BY <1>1, <1>3, <2>1, <3>1, StaysExplained
  <2> QED
    BY <2>2, <2>3
<1> QED
  BY <1>5, <1>6, <1>7 DEF IndexInv, StaleIsExplained, Explained

LEMMA ReindexKeeps ==
  ASSUME IndexInv, NEW h \in Handlers, ReindexAll(h)
  PROVE  IndexInv'
<1> DEFINE approved == {p \in Posts : post[p] = "approved"}
<1>1. /\ Starts(h, "queue", approved) /\ changes' = changes + 1
      /\ UNCHANGED <<post, private, index, jobs, indexer, alert, matches, matcher, marked, told,
                     lost, raced, skipped, failures>>
  BY DEF ReindexAll, Changes, indexVars, alertVars, ghosts
<1>2. TypeOK /\ ComingExists /\ \A q \in Posts : Explained(q)
  BY StaleIs DEF IndexInv
<1>3. slot' \in [Handlers -> Slots] /\ \A q \in Posts : Listed(q)' <=> q \in approved \/ Listed(q)
  BY <1>1, <1>2, StartsLists
<1>4. TypeOK'
  <2>1. IndexTyped'
    BY <1>1, <1>2, <1>3, TypeParts DEF IndexTyped, Slots
  <2>2. AlertTyped' /\ GhostsTyped'
    BY <1>1, <1>2, TypeParts DEF AlertTyped, GhostsTyped
  <2> QED
    BY <2>1, <2>2, TypePartsNext
<1>5. ComingExists'
  BY <1>1, <1>2, <1>3 DEF ComingExists, Holds, Coming, Listed, Exists
<1>6. ASSUME NEW q \in Posts PROVE Explained(q)'
  <2>1. Coming(q) \/ Forgotten(q) => Coming(q)' \/ Forgotten(q)'
    BY <1>1, <1>3 DEF Coming, Listed, Forgotten
  <2>2. Findable(Copy(q))' = Findable(Copy(q))
    BY <1>1 DEF Findable, Copy
  <2> QED
    BY <1>1, <1>2, <2>1, <2>2, StaysExplained
<1> QED
  BY <1>4, <1>5, <1>6 DEF IndexInv, StaleIsExplained, Explained

LEMMA QueueKeeps ==
  ASSUME IndexInv, NEW h \in Handlers, NEW p \in Posts, QueueIndex(h, p)
  PROVE  IndexInv'
<1>1. /\ p \in slot[h].left /\ Does(h, p) /\ jobs' = [jobs EXCEPT ![p] = @ + 1]
      /\ UNCHANGED <<post, private, index, indexer, alert, matches, matcher, marked, told,
                     lost, raced, skipped, changes, failures>>
  BY DEF QueueIndex, alertVars, ghosts
<1>2. TypeOK /\ ComingExists /\ \A q \in Posts : Explained(q)
  BY StaleIs DEF IndexInv
<1>3. /\ slot' \in [Handlers -> Slots]
      /\ \A q \in Posts : /\ q # p /\ Listed(q) => Listed(q)'
                          /\ Listed(q)' => Listed(q)
  BY <1>1, <1>2, DoesLists
<1>4. jobs' \in [Posts -> Nat] /\ jobs'[p] > 0 /\ \A q \in Posts \ {p} : jobs'[q] = jobs[q]
  BY <1>1, <1>2 DEF TypeOK
<1>5. TypeOK'
  <2>1. IndexTyped'
    BY <1>1, <1>2, <1>3, <1>4, TypeParts DEF IndexTyped, Slots
  <2>2. AlertTyped' /\ GhostsTyped'
    BY <1>1, <1>2, TypeParts DEF AlertTyped, GhostsTyped
  <2> QED
    BY <2>1, <2>2, TypePartsNext
<1>6. \A q \in Posts : Coming(q) <=> Coming(q)'
  BY <1>1, <1>3, <1>4 DEF Coming, Listed
<1>7. ComingExists'
  BY <1>1, <1>2, <1>6 DEF ComingExists, Holds, Exists
<1>8. ASSUME NEW q \in Posts PROVE Explained(q)'
  <2>1. Coming(q) \/ Forgotten(q) => Coming(q)' \/ Forgotten(q)'
    BY <1>1, <1>6 DEF Forgotten
  <2>2. Findable(Copy(q))' = Findable(Copy(q))
    BY <1>1 DEF Findable, Copy
  <2> QED
    BY <1>1, <1>2, <2>1, <2>2, StaysExplained
<1> QED
  BY <1>5, <1>7, <1>8 DEF IndexInv, StaleIsExplained, Explained

LEMMA DeleteKeeps ==
  ASSUME IndexInv, NEW h \in Handlers, NEW p \in Posts, DeleteDocument(h, p)
  PROVE  IndexInv'
<1> DEFINE overlaps == indexer.post = p \/ Findable(Copy(p))
<1>1. /\ p \in slot[h].left /\ Does(h, p) /\ index' = [index EXCEPT ![p] = NoDoc]
      /\ raced' = IF overlaps THEN raced \union {p} ELSE raced \ {p}
      /\ lost' = IF overlaps THEN lost ELSE lost \ {p}
      /\ skipped' = IF overlaps THEN skipped ELSE skipped \ {p}
      /\ UNCHANGED <<post, private, jobs, indexer, alert, matches, matcher, marked, told,
                     changes, failures>>
  BY DEF DeleteDocument, alertVars
<1>2. TypeOK /\ ComingExists /\ \A q \in Posts : Explained(q)
  BY StaleIs DEF IndexInv
<1>3. /\ slot' \in [Handlers -> Slots]
      /\ \A q \in Posts : /\ q # p /\ Listed(q) => Listed(q)'
                          /\ Listed(q)' => Listed(q)
  BY <1>1, <1>2, DoesLists
<1>4. index'[p] = NoDoc /\ \A q \in Posts \ {p} : index'[q] = index[q]
  BY <1>1, <1>2 DEF TypeOK
<1>5. TypeOK'
  <2>1. index' \in [Posts -> Copies \union {NoDoc}]
    BY <1>1, <1>2 DEF TypeOK
  <2>2. IndexTyped'
    BY <1>1, <1>2, <1>3, <2>1, TypeParts DEF IndexTyped, Slots
  <2>3. lost' \in SUBSET Posts /\ raced' \in SUBSET Posts /\ skipped' \in SUBSET Posts
    BY <1>1, <1>2, TypeParts DEF GhostsTyped
  <2>4. AlertTyped' /\ GhostsTyped'
    BY <1>1, <1>2, <2>3, TypeParts DEF AlertTyped, GhostsTyped
  <2> QED
    BY <2>2, <2>4, TypePartsNext
<1>6. ComingExists'
  BY <1>1, <1>2, <1>3 DEF ComingExists, Holds, Coming, Listed, Exists
<1>7. ASSUME NEW q \in Posts PROVE Explained(q)'
  <2>1. Findable(Copy(q))' = Findable(Copy(q))
    BY <1>1 DEF Findable, Copy
  <2>2. CASE q # p
    <3>1. Coming(q) \/ Forgotten(q) => Coming(q)' \/ Forgotten(q)'
      BY <1>1, <1>3, <2>2 DEF Coming, Listed, Forgotten
    <3> QED
      BY <1>1, <1>2, <1>4, <2>1, <2>2, <3>1, StaysExplained
  <2>3. CASE q = p /\ overlaps
    BY <1>1, <2>3 DEF Explained, Forgotten
  <2>4. CASE q = p /\ ~overlaps
    <3>1. Agrees(q)' /\ ~Holds(q)'
      BY <1>1, <1>4, <2>1, <2>4 DEF Agrees, Holds, Findable, NoDoc
    <3> QED
      BY <3>1 DEF Explained
  <2> QED
    BY <2>2, <2>3, <2>4
<1> QED
  BY <1>5, <1>6, <1>7 DEF IndexInv, StaleIsExplained, Explained

LEMMA TellFailsKeeps ==
  ASSUME IndexInv, NEW h \in Handlers, TellFails(h)
  PROVE  IndexInv'
<1>1. /\ lost' = lost \union slot[h].left /\ slot' = [slot EXCEPT ![h] = Rest]
      /\ failures' = failures + 1
      /\ UNCHANGED <<post, private, index, jobs, indexer, alert, matches, matcher, marked, told,
                     raced, skipped, changes>>
  BY DEF TellFails, Fails, indexVars, alertVars
<1>2. TypeOK /\ ComingExists /\ \A q \in Posts : Explained(q)
  BY StaleIs DEF IndexInv
<1>3. /\ slot' \in [Handlers -> Slots] /\ slot'[h].left = {}
      /\ \A g \in Handlers \ {h} : slot'[g] = slot[g]
  BY <1>1, <1>2, SlotTypes DEF Slots, Rest
<1>4. TypeOK'
  <2>1. IndexTyped'
    BY <1>1, <1>2, <1>3, TypeParts DEF IndexTyped, Slots
  <2>2. AlertTyped' /\ GhostsTyped'
    BY <1>1, <1>2, SlotTypes, TypeParts DEF AlertTyped, GhostsTyped
  <2> QED
    BY <2>1, <2>2, TypePartsNext
<1>5. \A q \in Posts : Coming(q)' => Coming(q)
  BY <1>1, <1>3 DEF Coming
<1>6. ComingExists'
  BY <1>1, <1>2, <1>5 DEF ComingExists, Holds, Exists
<1>7. ASSUME NEW q \in Posts PROVE Explained(q)'
  <2>1. Findable(Copy(q))' = Findable(Copy(q))
    BY <1>1 DEF Findable, Copy
  <2>2. Coming(q) \/ Forgotten(q) => Coming(q)' \/ Forgotten(q)'
    BY <1>1, <1>3 DEF Coming, Forgotten
  <2> QED
    BY <1>1, <1>2, <2>1, <2>2, StaysExplained
<1> QED
  BY <1>4, <1>6, <1>7 DEF IndexInv, StaleIsExplained, Explained

-------------------------------------------------------------------------------
(***************************************************************************)
(* The worker of "search-index".                                           *)
(***************************************************************************)

\* A copy is read from the row as it is: until the row changes it is right.
LEMMA ReadKeeps ==
  ASSUME IndexInv, NEW p \in Posts, IndexRead(p)
  PROVE  IndexInv'
<1>1. /\ indexer = Idle /\ jobs[p] > 0 /\ jobs' = [jobs EXCEPT ![p] = @ - 1]
      /\ indexer' = [post |-> p, copy |-> Copy(p)]
      /\ UNCHANGED <<post, private, index, slot, alert, matches, matcher, marked, told,
                     lost, raced, skipped, changes, failures>>
  BY DEF IndexRead, alertVars, ghosts
<1>2. TypeOK /\ ComingExists /\ \A q \in Posts : Explained(q)
  BY StaleIs DEF IndexInv
<1>3. jobs' \in [Posts -> Nat] /\ \A q \in Posts \ {p} : jobs'[q] = jobs[q]
  BY <1>1, <1>2 DEF TypeOK
<1>4. TypeOK'
  <2>1. Copy(p) \in Copies
    BY <1>1, <1>2 DEF TypeOK, ComingExists, Coming, Exists, Copy, Copies
  <2>2. IndexTyped'
    BY <1>1, <1>2, <1>3, <2>1, TypeParts DEF IndexTyped
  <2>3. AlertTyped' /\ GhostsTyped'
    BY <1>1, <1>2, TypeParts DEF AlertTyped, GhostsTyped
  <2> QED
    BY <2>2, <2>3, TypePartsNext
<1>5. ComingExists'
  BY <1>1, <1>2, <1>3, Constants DEF ComingExists, Holds, Coming, Exists
<1>6. ASSUME NEW q \in Posts PROVE Explained(q)'
  <2>1. Findable(Copy(q))' = Findable(Copy(q))
    BY <1>1 DEF Findable, Copy
  <2>2. CASE q = p
    BY <1>1, <2>1, <2>2 DEF Explained, Holds
  <2>3. CASE q # p
    <3>1. ~Holds(q) /\ ~Holds(q)' /\ (Coming(q) => Coming(q)')
      BY <1>1, <1>3, <2>3, Constants DEF Holds, Idle, Coming
    <3> QED
      BY <1>1, <1>2, <2>1, <3>1 DEF Explained, Agrees, Forgotten
  <2> QED
    BY <2>2, <2>3
<1> QED
  BY <1>4, <1>5, <1>6 DEF IndexInv, StaleIsExplained, Explained

\* A wrong copy that is written was already going to be replaced, or forgotten.
LEMMA WriteKeeps ==
  ASSUME IndexInv, NEW p \in Posts, IndexWrite(p)
  PROVE  IndexInv'
<1> DEFINE right == Findable(indexer.copy) = Findable(Copy(p))
<1>1. /\ indexer.post = p /\ index' = [index EXCEPT ![p] = indexer.copy] /\ indexer' = Idle
      /\ matches' \in {matches, matches \union {p}}
      /\ lost' = IF right THEN lost \ {p} ELSE lost
      /\ raced' = IF right THEN raced \ {p} ELSE raced
      /\ skipped' = IF right THEN skipped \ {p} ELSE skipped
      /\ UNCHANGED <<post, private, jobs, slot, alert, matcher, marked, told, changes, failures>>
  BY DEF IndexWrite
<1>2. TypeOK /\ ComingExists /\ \A q \in Posts : Explained(q)
  BY StaleIs DEF IndexInv
<1>3. indexer.copy \in Copies
  BY <1>1, <1>2, Constants DEF TypeOK, Idle
<1>4. index'[p] = indexer.copy /\ \A q \in Posts \ {p} : index'[q] = index[q]
  BY <1>1, <1>2 DEF TypeOK
<1>5. TypeOK'
  <2>1. index' \in [Posts -> Copies \union {NoDoc}]
    BY <1>1, <1>2, <1>3 DEF TypeOK
  <2>2. IndexTyped'
    BY <1>1, <1>2, <2>1, TypeParts DEF IndexTyped
  <2>3. lost' \in SUBSET Posts /\ raced' \in SUBSET Posts /\ skipped' \in SUBSET Posts
        /\ matches' \in SUBSET Posts
    BY <1>1, <1>2, TypeParts DEF GhostsTyped, AlertTyped
  <2>4. AlertTyped' /\ GhostsTyped'
    BY <1>1, <1>2, <2>3, TypeParts DEF AlertTyped, GhostsTyped
  <2> QED
    BY <2>2, <2>4, TypePartsNext
<1>6. ComingExists'
  BY <1>1, <1>2, Constants DEF ComingExists, Holds, Coming, Exists, Idle
<1>7. ASSUME NEW q \in Posts PROVE Explained(q)'
  <2>1. Findable(Copy(q))' = Findable(Copy(q)) /\ ~Holds(q)'
    BY <1>1, Constants DEF Findable, Copy, Holds, Idle
  <2>2. CASE q # p
    <3>1. ~Holds(q) /\ (Coming(q) \/ Forgotten(q) => Coming(q)' \/ Forgotten(q)')
      BY <1>1, <2>2 DEF Holds, Coming, Forgotten
    <3> QED
      BY <1>2, <1>4, <2>1, <2>2, <3>1 DEF Explained, Agrees
  <2>3. CASE q = p /\ right
    BY <1>4, <2>1, <2>3 DEF Explained, Agrees
  <2>4. CASE q = p /\ ~right
    <3>1. Coming(q) \/ Forgotten(q)
      BY <1>1, <1>2, <2>4 DEF Explained, Holds
    <3>2. Coming(q)' \/ Forgotten(q)'
      BY <1>1, <2>4, <3>1 DEF Coming, Forgotten
    <3> QED
      BY <3>2 DEF Explained
  <2> QED
    BY <2>2, <2>3, <2>4
<1> QED
  BY <1>5, <1>6, <1>7 DEF IndexInv, StaleIsExplained, Explained

LEMMA IndexFailsKeeps ==
  ASSUME IndexInv, NEW p \in Posts, IndexFails(p)
  PROVE  IndexInv'
<1>1. /\ indexer.post = p /\ indexer' = Idle /\ failures' = failures + 1
      /\ \/ lost' = lost \union {p} /\ UNCHANGED jobs
         \/ jobs' = [jobs EXCEPT ![p] = @ + 1] /\ UNCHANGED lost
      /\ UNCHANGED <<post, private, index, slot, alert, matches, matcher, marked, told,
                     raced, skipped, changes>>
  BY DEF IndexFails, Fails, alertVars
<1>2. TypeOK /\ ComingExists /\ \A q \in Posts : Explained(q)
  BY StaleIs DEF IndexInv
<1>3. /\ jobs' \in [Posts -> Nat] /\ (jobs'[p] > 0 \/ p \in lost')
      /\ \A q \in Posts : jobs[q] > 0 => jobs'[q] > 0
      /\ \A q \in Posts \ {p} : jobs'[q] = jobs[q]
  BY <1>1, <1>2 DEF TypeOK
<1>4. TypeOK'
  <2>1. IndexTyped'
    BY <1>1, <1>2, <1>3, TypeParts DEF IndexTyped
  <2>2. AlertTyped' /\ GhostsTyped'
    BY <1>1, <1>2, TypeParts DEF AlertTyped, GhostsTyped
  <2> QED
    BY <2>1, <2>2, TypePartsNext
<1>5. ComingExists'
  BY <1>1, <1>2, <1>3, Constants DEF ComingExists, Holds, Coming, Exists, Idle
<1>6. ASSUME NEW q \in Posts PROVE Explained(q)'
  <2>1. Findable(Copy(q))' = Findable(Copy(q)) /\ ~Holds(q)'
    BY <1>1, Constants DEF Findable, Copy, Holds, Idle
  <2>2. CASE q = p
    BY <1>1, <1>3, <2>2 DEF Explained, Coming, Forgotten
  <2>3. CASE q # p
    <3>1. ~Holds(q) /\ (Coming(q) \/ Forgotten(q) => Coming(q)' \/ Forgotten(q)')
      BY <1>1, <1>3, <2>3 DEF Holds, Coming, Forgotten
    <3> QED
      BY <1>1, <1>2, <2>1, <3>1 DEF Explained, Agrees
  <2> QED
    BY <2>2, <2>3
<1> QED
  BY <1>4, <1>5, <1>6 DEF IndexInv, StaleIsExplained, Explained

-------------------------------------------------------------------------------
(***************************************************************************)
(* Alerts.                                                                 *)
(***************************************************************************)

\* A notification under way was recorded, and has not been sent.
AlertInv ==
  /\ AlertedOnce
  /\ \A a \in matcher.tell : /\ <<a, matcher.post>> \in marked
                             /\ <<a, matcher.post>> \in Pairs => told[<<a, matcher.post>>] = 0

AlertStep ==
  \/ \E a \in Alerts : CreateAlert(a) \/ DeactivateAlert(a) \/ MatchMark(a) \/ MatchTell(a)
  \/ \E p \in Posts : MatchRead(p)
  \/ MatchFails

LEMMA AlertFrame ==
  ASSUME AlertStep
  PROVE  UNCHANGED <<post, private, index, jobs, indexer, slot, lost, raced, skipped, changes>>
BY DEF AlertStep, CreateAlert, DeactivateAlert, MatchMark, MatchTell, MatchRead, MatchFails, indexVars, ghosts

LEMMA MatcherType ==
  ASSUME TypeOK
  PROVE  /\ matcher.todo \subseteq Alerts /\ matcher.tell \subseteq Alerts
         /\ matcher = Asleep \/ matcher \in [post : Posts, todo : SUBSET Alerts, tell : SUBSET Alerts]
         /\ matcher.todo \union matcher.tell # {} => matcher # Asleep /\ matcher.post \in Posts
BY DEF TypeOK, Asleep

LEMMA AlertTypeNext == TypeOK /\ AlertStep => AlertTyped'
<1> SUFFICES ASSUME TypeOK, AlertStep PROVE AlertTyped'
  OBVIOUS
<1>0. AlertTyped
  BY TypeParts
<1>1. ASSUME NEW a \in Alerts, CreateAlert(a) \/ DeactivateAlert(a) PROVE AlertTyped'
  BY <1>0, <1>1 DEF CreateAlert, DeactivateAlert, AlertTyped
<1>2. ASSUME NEW a \in Alerts, MatchMark(a) PROVE AlertTyped'
  <2>1. matcher \in [post : Posts, todo : SUBSET Alerts, tell : SUBSET Alerts]
    BY <1>2, MatcherType DEF MatchMark, Asleep
  <2>2. marked' \in SUBSET Pairs
    BY <1>0, <1>2, <2>1 DEF MatchMark, AlertTyped, Pairs
  <2>3. matcher' \in [post : Posts, todo : SUBSET Alerts, tell : SUBSET Alerts] \union {Asleep}
    BY <1>2, <2>1 DEF MatchMark
  <2> QED
    BY <1>0, <1>2, <2>2, <2>3 DEF MatchMark, AlertTyped
<1>3. ASSUME NEW a \in Alerts, MatchTell(a) PROVE AlertTyped'
  <2>1. matcher \in [post : Posts, todo : SUBSET Alerts, tell : SUBSET Alerts]
    BY <1>3, MatcherType DEF MatchTell, Asleep
  <2>2. told' \in [Pairs -> Nat]
    <3>1. <<a, matcher.post>> \in Pairs
      BY <2>1 DEF Pairs
    <3>2. told[<<a, matcher.post>>] + 1 \in Nat
      BY <1>0, <3>1 DEF AlertTyped
    <3> QED
      BY <1>0, <1>3, <3>2 DEF MatchTell, AlertTyped
  <2>3. matcher' \in [post : Posts, todo : SUBSET Alerts, tell : SUBSET Alerts] \union {Asleep}
    BY <1>3, <2>1 DEF MatchTell
  <2> QED
    BY <1>0, <1>3, <2>2, <2>3 DEF MatchTell, AlertTyped
<1>4. ASSUME NEW p \in Posts, MatchRead(p) PROVE AlertTyped'
  BY <1>0, <1>4 DEF MatchRead, AlertTyped
<1>5. CASE MatchFails
  <2>1. matcher.post \in Posts
    BY <1>5, MatcherType DEF MatchFails
  <2> QED
    BY <1>0, <1>5, <2>1 DEF MatchFails, AlertTyped
<1> QED
  BY <1>1, <1>2, <1>3, <1>4, <1>5 DEF AlertStep

LEMMA AlertKeeps ==
  ASSUME IndexInv, AlertStep
  PROVE  IndexInv'
<1>1. UNCHANGED <<post, private, index, jobs, indexer, slot, lost, raced, skipped, changes>>
  BY AlertFrame
<1>2. TypeOK /\ ComingExists /\ \A q \in Posts : Explained(q)
  BY StaleIs DEF IndexInv
<1>3. TypeOK'
  <2>1. IndexTyped'
    BY <1>1, <1>2, TypeParts DEF IndexTyped, Slots
  <2>2. failures' \in Nat
    <3>1. failures' = failures \/ failures' = failures + 1
      BY DEF AlertStep, CreateAlert, DeactivateAlert, MatchMark, MatchTell, MatchRead, MatchFails, Fails
    <3> QED
      BY <1>2, <3>1 DEF TypeOK
  <2>3. GhostsTyped'
    BY <1>1, <1>2, <2>2, TypeParts DEF GhostsTyped
  <2> QED
    BY <1>2, <2>1, <2>3, AlertTypeNext, TypePartsNext
<1>4. ComingExists'
  BY <1>1, <1>2 DEF ComingExists, Coming, Holds, Exists
<1>5. \A q \in Posts : Explained(q)'
  BY <1>1, <1>2 DEF Explained, Agrees, Holds, Coming, Forgotten, Findable, Copy
<1> QED
  BY <1>3, <1>4, <1>5 DEF IndexInv, StaleIsExplained, Explained

LEMMA AlertNext ==
  ASSUME TypeOK, AlertInv, AlertStep
  PROVE  AlertInv'
<1>1. ASSUME NEW a \in Alerts, CreateAlert(a) \/ DeactivateAlert(a) PROVE AlertInv'
  BY <1>1 DEF CreateAlert, DeactivateAlert, AlertInv, AlertedOnce
<1>2. ASSUME NEW a \in Alerts, MatchMark(a) PROVE AlertInv'
  <2> DEFINE pair == <<a, matcher.post>>
  <2>1. matcher \in [post : Posts, todo : SUBSET Alerts, tell : SUBSET Alerts]
    BY <1>2, MatcherType DEF MatchMark, Asleep
  <2>2. /\ marked' = marked \union {pair} /\ told' = told /\ matcher.tell = {}
        /\ \/ pair \notin marked /\ matcher' = [matcher EXCEPT !.todo = matcher.todo \ {a}, !.tell = {a}]
           \/ pair \in marked /\ matcher' \in {Asleep, [matcher EXCEPT !.todo = matcher.todo \ {a}]}
    BY <1>2 DEF MatchMark
  <2>3. AlertedOnce'
    BY <2>2 DEF AlertInv, AlertedOnce
  <2>4. CASE pair \notin marked
    <3>1. matcher'.tell = {a} /\ matcher'.post = matcher.post
      BY <2>1, <2>2, <2>4
    <3>2. pair \in Pairs => told[pair] = 0
      BY <2>4 DEF AlertInv, AlertedOnce, TypeOK
    <3> QED
      BY <2>2, <2>3, <3>1, <3>2 DEF AlertInv
  <2>5. CASE pair \in marked
    <3>1. matcher'.tell = {}
      BY <2>1, <2>2, <2>5 DEF Asleep
    <3> QED
      BY <2>3, <3>1 DEF AlertInv
  <2> QED
    BY <2>4, <2>5
<1>3. ASSUME NEW a \in Alerts, MatchTell(a) PROVE AlertInv'
  <2> DEFINE pair == <<a, matcher.post>>
  <2>1. matcher \in [post : Posts, todo : SUBSET Alerts, tell : SUBSET Alerts]
    BY <1>3, MatcherType DEF MatchTell, Asleep
  <2>2. told' = [told EXCEPT ![pair] = @ + 1] /\ marked' = marked
    BY <1>3 DEF MatchTell
  <2>3. pair \in marked /\ (pair \in Pairs => told[pair] = 0)
    BY <1>3 DEF MatchTell, AlertInv
  <2> HIDE DEF pair
  <2>4. AlertedOnce'
    BY <2>2, <2>3 DEF AlertInv, AlertedOnce, TypeOK
  <2>5. matcher'.tell = {}
    BY <1>3, <2>1 DEF MatchTell, Asleep
  <2> QED
    BY <2>4, <2>5 DEF AlertInv
<1>4. ASSUME NEW p \in Posts, MatchRead(p) PROVE AlertInv'
  <2>1. matcher'.tell = {} /\ UNCHANGED <<told, marked>>
    BY <1>4 DEF MatchRead, Asleep
  <2> QED
    BY <2>1 DEF AlertInv, AlertedOnce
<1>5. CASE MatchFails
  BY <1>5 DEF MatchFails, AlertInv, AlertedOnce, Asleep
<1> QED
  BY <1>1, <1>2, <1>3, <1>4, <1>5 DEF AlertStep

-------------------------------------------------------------------------------

LEMMA PostIndexInit == Init => IndexInv /\ AlertInv
<1> SUFFICES ASSUME Init PROVE IndexInv /\ AlertInv
  OBVIOUS
<1>1. IndexTyped /\ AlertTyped /\ GhostsTyped
  <2>1. IndexTyped
    BY DEF Init, IndexTyped, Slots
  <2>2. AlertTyped
    BY DEF Init, AlertTyped
  <2>3. GhostsTyped
    BY DEF Init, GhostsTyped
  <2> QED
    BY <2>1, <2>2, <2>3
<1>2. ComingExists
  BY Constants DEF Init, ComingExists, Coming, Holds, Idle, Rest
<1>3. \A q \in Posts : Explained(q)
  BY Constants DEF Init, Explained, Agrees, Holds, Findable, Copy, NoDoc, Idle
<1>4. AlertInv
  BY DEF Init, AlertInv, AlertedOnce, Asleep
<1> QED
  BY <1>1, <1>2, <1>3, <1>4, TypeParts, StaleIs DEF IndexInv

\* Steps other than the alerts' leave what was recorded and told alone.
LEMMA PostIndexNext == IndexInv /\ AlertInv /\ [Next]_vars => IndexInv' /\ AlertInv'
<1> SUFFICES ASSUME IndexInv, AlertInv, [Next]_vars PROVE IndexInv' /\ AlertInv'
  OBVIOUS
<1>1. ASSUME UNCHANGED <<matcher, marked, told>> PROVE AlertInv'
  BY <1>1 DEF AlertInv, AlertedOnce
<1>2. ASSUME NEW h \in Handlers, RequestStep(h) PROVE IndexInv' /\ UNCHANGED <<matcher, marked, told>>
  <2>1. ASSUME NEW p \in Posts, Create(h, p) \/ Update(h, p) \/ Approve(h, p)
                                \/ AdminUpdate(h, p) \/ Withdraw(h, p)
        PROVE  IndexInv' /\ UNCHANGED <<matcher, marked, told>>
    <3>1. \E status \in Status, call \in {"queue", "remove"} :
            Writes(p, status) /\ Starts(h, call, {p})
      BY <2>1 DEF Create, Update, Approve, AdminUpdate, Withdraw, Status
    <3> QED
      BY <3>1, WritesKeep DEF Writes, alertVars
  <2>2. ASSUME NEW p \in Posts, QueueIndex(h, p) \/ DeleteDocument(h, p)
        PROVE  IndexInv' /\ UNCHANGED <<matcher, marked, told>>
    BY <2>2, QueueKeeps, DeleteKeeps DEF QueueIndex, DeleteDocument, alertVars
  <2>3. ASSUME SetPrivate(h) \/ ReindexAll(h) \/ TellFails(h)
        PROVE  IndexInv' /\ UNCHANGED <<matcher, marked, told>>
    BY <2>3, PrivacyKeeps, ReindexKeeps, TellFailsKeeps DEF SetPrivate, ReindexAll, TellFails, alertVars
  <2> QED
    BY <1>2, <2>1, <2>2, <2>3 DEF RequestStep
<1>3. ASSUME NEW p \in Posts, IndexerStep(p) PROVE IndexInv' /\ UNCHANGED <<matcher, marked, told>>
  <2>1. UNCHANGED <<matcher, marked, told>>
    BY <1>3 DEF IndexerStep, IndexRead, IndexWrite, IndexFails, alertVars
  <2> QED
    BY <1>3, <2>1, ReadKeeps, WriteKeeps, IndexFailsKeeps DEF IndexerStep
<1>4. CASE AlertStep
  BY <1>4, AlertKeeps, AlertNext DEF IndexInv
<1>5. CASE UNCHANGED vars
  <2>1. /\ UNCHANGED <<post, private, index, jobs, indexer, slot, lost, raced, skipped, changes>>
        /\ UNCHANGED <<alert, matches, matcher, marked, told, failures>>
    BY <1>5 DEF vars, indexVars, alertVars, ghosts
  <2>2. TypeOK /\ ComingExists /\ \A q \in Posts : Explained(q)
    BY StaleIs DEF IndexInv
  <2>3. TypeOK'
    BY <2>1, <2>2, TypeParts, TypePartsNext DEF IndexTyped, AlertTyped, GhostsTyped, Slots
  <2>4. ComingExists'
    BY <2>1, <2>2 DEF ComingExists, Coming, Holds, Exists
  <2>5. \A q \in Posts : Explained(q)'
    BY <2>1, <2>2 DEF Explained, Agrees, Holds, Coming, Forgotten, Findable, Copy
  <2> QED
    BY <1>1, <2>1, <2>3, <2>4, <2>5 DEF IndexInv, StaleIsExplained, Explained
<1> QED
  BY <1>1, <1>2, <1>3, <1>4, <1>5 DEF Next, MatcherStep, AlertStep

LEMMA PostIndexInvariant == Spec => [](IndexInv /\ AlertInv)
BY PostIndexInit, PostIndexNext, PTL DEF Spec

\* Whatever interleaves, the posts, the index and the alerts keep their type.
THEOREM IndexTypeCorrect == Spec => []TypeOK
BY PostIndexInvariant, PTL DEF IndexInv

\* The search disagrees with a post only while somebody is still to tell it, or
\* for one of the three reasons the specification names.
THEOREM StaleExplained == Spec => []StaleIsExplained
BY PostIndexInvariant, PTL DEF IndexInv

\* An alert tells of a post at most once, and records it first.
THEOREM AlertsOnce == Spec => []AlertedOnce
BY PostIndexInvariant, PTL DEF AlertInv
================================================================================

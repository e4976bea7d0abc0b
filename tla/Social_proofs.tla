----------------------------- MODULE Social_proofs -----------------------------
(***************************************************************************)
(* Type correctness of follows, blocks and messages, and their safety:     *)
(* what crosses a block, how many conversations two users can have, and    *)
(* why a message counts as read.                                           *)
(***************************************************************************)
EXTENDS Social, FiniteSetTheorems, SequenceTheorems, TLAPS

Steps == {"idle", "sever", "mark", "answer"} \union Passed

\* What a request can be when there are n conversations and k messages: one in
\* progress has two users, and a conversation once it needs one.
RequestSet(n, k) == [at : Steps, pair : Pairs \union {Idle.pair}, in : 0 .. n,
                     sends : BOOLEAN, page : SUBSET (1 .. k)]

RequestOK(x, n, k) ==
  /\ x \in RequestSet(n, k)
  /\ x.at # "idle" => x.pair \in Pairs
  /\ x.at \in {"write", "mark", "dial"} => x.in \in 1 .. n

RequestsOK == \A r \in Requests : RequestOK(request[r], conversations, Len(messages))

Making == {r \in Requests : request[r].at = "make"}

-------------------------------------------------------------------------------

LEMMA Constants ==
  /\ IsFiniteSet(Users) /\ Cardinality(Users) = 2 /\ IsFiniteSet(Requests)
  /\ PageSize \in Nat /\ MaxMessages \in Nat /\ MaxBegun \in Nat /\ MaxFailures \in Nat
BY ConstantsAssumption DEF ConstantsAssumption

\* There is no third user.
LEMMA TwoUsers ==
  ASSUME NEW p \in Pairs, NEW u \in Users, u # p[1]
  PROVE  u = p[2]
<1> SUFFICES ASSUME u # p[2] PROVE FALSE
  OBVIOUS
<1>1. p[1] \in Users /\ p[2] \in Users /\ p[1] # p[2]
  BY DEF Pairs
<1>2. IsFiniteSet({p[1]}) /\ Cardinality({p[1]}) = 1
  BY FS_Singleton
<1>3. IsFiniteSet({p[1]} \union {p[2]}) /\ Cardinality({p[1]} \union {p[2]}) = 1 + 1
  <2>1. p[2] \notin {p[1]}
    BY <1>1
  <2> QED
    BY <1>2, <2>1, FS_AddElement
<1>4. Cardinality(({p[1]} \union {p[2]}) \union {u}) = 1 + 1 + 1
  <2>1. u \notin {p[1]} \union {p[2]}
    OBVIOUS
  <2> QED
    BY <1>3, <2>1, FS_AddElement
<1>5. ({p[1]} \union {p[2]}) \union {u} \subseteq Users
  BY <1>1
<1>6. Cardinality(({p[1]} \union {p[2]}) \union {u}) <= 2
  BY <1>5, Constants, FS_Subset
<1> QED
  BY <1>4, <1>6

LEMMA TypeIs ==
  TypeOK <=> /\ {follows, asked, blocks} \subseteq SUBSET Pairs
             /\ conversations \in Nat
             /\ calls \subseteq (1 .. conversations) \X Pairs
             /\ messages \in Seq([in : 1 .. conversations, from : Users])
             /\ {read, shown, missed} \subseteq SUBSET (1 .. Len(messages))
             /\ request \in [Requests -> RequestSet(conversations, Len(messages))]
             /\ crossed \in Nat
             /\ unsevered \in BOOLEAN
             /\ {begun, failures} \subseteq Nat
BY DEF TypeOK, RequestSet, Steps

LEMMA Sizes ==
  ASSUME TypeOK
  PROVE  conversations \in Nat /\ Len(messages) \in Nat
BY LenProperties DEF TypeOK

LEMMA IdleOK ==
  ASSUME NEW n \in Nat, NEW k \in Nat
  PROVE  RequestOK(Idle, n, k)
<1>1. Idle \in RequestSet(n, k)
  BY DEF Idle, RequestSet, Steps
<1> QED
  BY <1>1 DEF RequestOK, Idle

\* What a request can be, it can still be when there is more.
LEMMA MoreRoom ==
  ASSUME NEW n \in Nat, NEW k \in Nat, NEW nn \in Nat, NEW kk \in Nat, n <= nn, k <= kk,
         NEW x, RequestOK(x, n, k)
  PROVE  RequestOK(x, nn, kk)
<1>1. 0 .. n \subseteq 0 .. nn /\ 1 .. n \subseteq 1 .. nn /\ 1 .. k \subseteq 1 .. kk
  OBVIOUS
<1>2. RequestSet(n, k) \subseteq RequestSet(nn, kk)
  BY <1>1 DEF RequestSet
<1> QED
  BY <1>1, <1>2 DEF RequestOK

\* One request changes, the others stay as they were.
OnlyMoves(r) ==
  /\ request' \in [Requests -> RequestSet(conversations', Len(messages'))]
  /\ RequestsOK'
  /\ \A q \in Requests \ {r} : request'[q] = request[q]

\* Neither conversations nor messages get fewer.
Grows ==
  /\ conversations' \in Nat /\ conversations <= conversations'
  /\ Len(messages') \in Nat /\ Len(messages) <= Len(messages')

LEMMA Becomes ==
  ASSUME TypeOK, RequestsOK, Grows, NEW r \in Requests, NEW v,
         RequestOK(v, conversations', Len(messages')),
         request' = [request EXCEPT ![r] = v]
  PROVE  OnlyMoves(r) /\ request'[r] = v
<1>1. request \in [Requests -> RequestSet(conversations, Len(messages))]
  BY TypeIs
<1>2. request'[r] = v /\ \A q \in Requests \ {r} : request'[q] = request[q]
  BY <1>1
<1>3. ASSUME NEW q \in Requests PROVE RequestOK(request'[q], conversations', Len(messages'))
  <2>1. CASE q = r
    BY <1>2, <2>1
  <2>2. CASE q # r
    BY <1>2, <2>2, Sizes, MoreRoom DEF Grows, RequestsOK
  <2> QED
    BY <2>1, <2>2
<1>4. \A q \in Requests : request'[q] \in RequestSet(conversations', Len(messages'))
  BY <1>3 DEF RequestOK
<1>5. request' = [q \in Requests |-> request'[q]]
  BY <1>1
<1> QED
  BY <1>2, <1>3, <1>4, <1>5 DEF OnlyMoves, RequestsOK

\* A request that stops is idle again.
LEMMA Stopped ==
  ASSUME TypeOK, RequestsOK, Grows, NEW r \in Requests, Stops(r)
  PROVE  OnlyMoves(r) /\ request'[r] = Idle
BY Becomes, IdleOK DEF Stops, Grows

\* A request that goes on keeps all but the place it has come to.
LEMMA GoesOn ==
  ASSUME TypeOK, RequestsOK, UNCHANGED <<conversations, calls, messages>>, NEW r \in Requests,
         NEW to \in Steps, Goes(r, to), request[r].at # "idle",
         to \in {"write", "mark", "dial"} => request[r].in \in 1 .. conversations
  PROVE  /\ OnlyMoves(r)
         /\ request'[r] = [request[r] EXCEPT !.at = to]
         /\ request'[r].at = to
         /\ request'[r].pair = request[r].pair /\ request'[r].in = request[r].in
         /\ request'[r].page = request[r].page
<1> DEFINE v == [request[r] EXCEPT !.at = to]
<1>1. RequestOK(request[r], conversations, Len(messages))
  BY DEF RequestsOK
<1>2. /\ v \in RequestSet(conversations, Len(messages))
      /\ v.at = to /\ v.pair = request[r].pair /\ v.in = request[r].in /\ v.page = request[r].page
  BY <1>1 DEF RequestOK, RequestSet
<1>3. RequestOK(v, conversations', Len(messages'))
  BY <1>1, <1>2 DEF RequestOK
<1>4. request' = [request EXCEPT ![r] = v] /\ Grows
  BY Sizes DEF Goes, TypeOK, Grows
<1> HIDE DEF v
<1>5. OnlyMoves(r) /\ request'[r] = v
  BY <1>3, <1>4, Becomes
<1> QED
  BY <1>2, <1>5 DEF v

-------------------------------------------------------------------------------
(***************************************************************************)
(* What a step of request r does, told apart by what the properties need.  *)
(***************************************************************************)
OthersTyped ==
  /\ {follows, asked, blocks} \subseteq SUBSET Pairs
  /\ conversations \in Nat
  /\ calls \subseteq (1 .. conversations) \X Pairs
  /\ messages \in Seq([in : 1 .. conversations, from : Users])
  /\ {read, shown, missed} \subseteq SUBSET (1 .. Len(messages))
  /\ crossed \in Nat
  /\ unsevered \in BOOLEAN
  /\ {begun, failures} \subseteq Nat

\* A conversation is made by a request that found none.
Conversing(r) ==
  \/ /\ conversations' = conversations
     /\ request'[r].at = "make" => conversations = 0
  \/ /\ conversations' = conversations + 1
     /\ request[r].at = "make" /\ request'[r].at # "make"

\* Under a block no request passes its check; one that has passed writes one row.
Crossing(r) ==
  Blocked' =>
    \/ ~Blocked /\ crossed' = 0 /\ request'[r].at \notin Passed
    \/ /\ Blocked
       /\ \/ crossed' = crossed /\ (request'[r].at \in Passed => request[r].at \in Passed)
          \/ crossed' = crossed + 1 /\ request[r].at \in Passed /\ request'[r].at \notin Passed

\* A blocking request stops being one when it deletes the follows or fails.
Severing(r) ==
  Blocked' /\ follows' # {} =>
    \/ request'[r].at = "sever" \/ unsevered'
    \/ Blocked /\ follows # {} /\ unsevered' = unsevered /\ request[r].at # "sever"

\* A fetch accounts for what its page leaves out, and a message for the fetches
\* that came too early for it.
Reading(r) ==
  \/ /\ messages' = messages /\ missed \subseteq missed' /\ shown \subseteq shown'
     /\ request'[r].at = "mark" =>
          Received(request'[r].pair[1], request'[r].in) \subseteq request'[r].page \union missed'
     /\ \/ read' = read /\ (request[r].at = "answer" => request[r].page \subseteq shown' \union missed')
        \/ /\ request[r].at = "mark" /\ request'[r].at = "answer"
           /\ request'[r].page = request[r].page
           /\ read' = read \union Received(request[r].pair[1], request[r].in)
  \/ Write(r)

Effect(r) == OnlyMoves(r) /\ OthersTyped' /\ Conversing(r) /\ Crossing(r) /\ Severing(r) /\ Reading(r)

LEMMA TypeParts == TypeOK <=> OthersTyped /\ request \in [Requests -> RequestSet(conversations, Len(messages))]
BY TypeIs DEF OthersTyped

\* A request that begins is what it begins as.
LEMMA Begun ==
  ASSUME TypeOK, RequestsOK, UNCHANGED <<conversations, calls, messages>>, NEW r \in Requests, NEW v,
         RequestOK(v, conversations, Len(messages)), Begins(r, v)
  PROVE  /\ OnlyMoves(r) /\ request'[r] = v
         /\ request[r] = Idle /\ request[r].at = "idle" /\ begun' \in Nat
<1>1. Grows
  BY Sizes DEF Grows
<1>2. OnlyMoves(r) /\ request'[r] = v
  BY <1>1, Becomes DEF Begins
<1> QED
  BY <1>2 DEF Begins, Idle, TypeOK

LEMMA FollowEffect ==
  ASSUME TypeOK, RequestsOK, NEW r \in Requests, NEW p \in Pairs, Follow(r, p)
  PROVE  Effect(r)
<1> DEFINE v == [Idle EXCEPT !.at = "aim", !.pair = p]
<1>1. /\ ~Blocked /\ Begins(r, v)
      /\ UNCHANGED <<follows, asked, blocks, conversations, calls, messages, read, shown, missed,
                     crossed, unsevered, failures>>
  BY DEF Follow, socialVars, messageVars
<1>2. RequestOK(v, conversations, Len(messages)) /\ v.at = "aim"
  <2>1. Idle \in RequestSet(conversations, Len(messages)) /\ "aim" \in Steps
    BY Sizes, IdleOK DEF RequestOK, Steps, Passed
  <2>2. v \in RequestSet(conversations, Len(messages))
    BY <2>1, Sizes DEF RequestSet
  <2>3. v.at = "aim" /\ v.pair = p /\ v.in = 0
    BY <2>1 DEF RequestSet, Idle
  <2> QED
    BY <2>2, <2>3 DEF RequestOK
<1> HIDE DEF v
<1>3. OnlyMoves(r) /\ request'[r] = v /\ request[r].at = "idle" /\ begun' \in Nat
  BY <1>1, <1>2, Begun
<1>4. OthersTyped'
  BY <1>1, <1>3, TypeParts DEF OthersTyped
<1>5. Conversing(r) /\ Crossing(r) /\ Severing(r)
  BY <1>1, <1>2, <1>3 DEF Conversing, Crossing, Severing, Blocked
<1>6. Reading(r)
  BY <1>1, <1>2, <1>3 DEF Reading
<1> QED
  BY <1>3, <1>4, <1>5, <1>6 DEF Effect

LEMMA FollowTargetEffect ==
  ASSUME TypeOK, RequestsOK, NEW r \in Requests, NEW private \in BOOLEAN, FollowTarget(r, private)
  PROVE  Effect(r)
<1>1. /\ request[r].at = "aim"
      /\ Goes(r, "follow") \/ Goes(r, "ask") \/ Stops(r)
      /\ UNCHANGED <<follows, asked, blocks, conversations, calls, messages, read, shown, missed,
                     crossed, unsevered, begun, failures>>
  BY DEF FollowTarget, socialVars, messageVars
<1>2. Grows
  BY <1>1, Sizes DEF Grows
<1>3. OnlyMoves(r) /\ request'[r].at \in {"follow", "ask", "idle"}
  <2>1. CASE Stops(r)
    BY <1>2, <2>1, Stopped DEF Idle
  <2>2. ASSUME NEW to \in {"follow", "ask"}, Goes(r, to) PROVE OnlyMoves(r) /\ request'[r].at = to
    <3>1. to \in Steps /\ to \notin {"write", "mark", "dial"}
      BY DEF Steps, Passed
    <3> QED
      BY <1>1, <2>2, <3>1, GoesOn
  <2> QED
    BY <1>1, <2>1, <2>2
<1>4. OthersTyped'
  BY <1>1, TypeParts DEF OthersTyped
<1>5. Conversing(r) /\ Crossing(r) /\ Severing(r)
  BY <1>1, <1>3 DEF Conversing, Crossing, Severing, Blocked, Passed
<1>6. Reading(r)
  BY <1>1, <1>3 DEF Reading
<1> QED
  BY <1>3, <1>4, <1>5, <1>6 DEF Effect

LEMMA FollowWriteEffect ==
  ASSUME TypeOK, RequestsOK, NEW r \in Requests, FollowWrite(r) \/ FollowAsk(r)
  PROVE  Effect(r)
<1>1. /\ request[r].at \in {"follow", "ask"} /\ Stops(r)
      /\ UNCHANGED <<blocks, conversations, calls, messages, read, shown, missed, begun, failures>>
  BY DEF FollowWrite, FollowAsk, messageVars
<1>2. \/ crossed' = IF Blocked THEN crossed + 1 ELSE crossed
      \/ crossed' = crossed
  BY DEF FollowWrite, FollowAsk, Crosses
<1>3. \/ unsevered' = (unsevered \/ Blocked)
      \/ unsevered' = unsevered /\ follows' = follows
  BY DEF FollowWrite, FollowAsk
<1>4. unsevered' \in BOOLEAN
  BY <1>3, Zenon DEF TypeOK
<1>5. Grows
  BY <1>1, Sizes DEF Grows
<1>6. OnlyMoves(r) /\ request'[r] = Idle /\ request'[r].at = "idle"
  BY <1>1, <1>5, Stopped DEF Idle
<1>7. request[r].pair \in Pairs
  BY <1>1 DEF RequestsOK, RequestOK
<1>8. follows' \subseteq Pairs /\ asked' \subseteq Pairs
  BY <1>7 DEF FollowWrite, FollowAsk, TypeOK
<1>9. crossed \in Nat /\ crossed' \in Nat
  BY <1>2 DEF TypeOK
<1>10. OthersTyped'
  BY <1>1, <1>8, <1>9, <1>4, TypeParts DEF OthersTyped
<1>11. Conversing(r) /\ Crossing(r)
  BY <1>1, <1>2, <1>6 DEF Conversing, Crossing, Blocked, Passed
<1>12. Severing(r)
  BY <1>1, <1>6, <1>3, <1>4 DEF Severing, Blocked, TypeOK
<1>13. Reading(r)
  BY <1>1, <1>6 DEF Reading
<1> QED
  BY <1>6, <1>10, <1>11, <1>12, <1>13 DEF Effect

LEMMA BlockEffect ==
  ASSUME TypeOK, RequestsOK, NEW r \in Requests, NEW p \in Pairs, Block(r, p)
  PROVE  Effect(r)
<1> DEFINE v == [Idle EXCEPT !.at = "sever", !.pair = p]
<1>1. /\ Begins(r, v) /\ blocks' = blocks \union {p}
      /\ Blocked => crossed' = crossed /\ unsevered' = unsevered
      /\ ~Blocked => crossed' = 0 /\ unsevered' = FALSE
      /\ UNCHANGED <<follows, asked, conversations, calls, messages, read, shown, missed, failures>>
  BY DEF Block, messageVars
<1>2. RequestOK(v, conversations, Len(messages)) /\ v.at = "sever"
  <2>1. Idle \in RequestSet(conversations, Len(messages)) /\ "sever" \in Steps
    BY Sizes, IdleOK DEF RequestOK, Steps, Passed
  <2>2. v \in RequestSet(conversations, Len(messages))
    BY <2>1, Sizes DEF RequestSet
  <2>3. v.at = "sever" /\ v.pair = p /\ v.in = 0
    BY <2>1 DEF RequestSet, Idle
  <2> QED
    BY <2>2, <2>3 DEF RequestOK
<1> HIDE DEF v
<1>3. OnlyMoves(r) /\ request'[r] = v /\ request[r].at = "idle" /\ begun' \in Nat
  BY <1>1, <1>2, Begun
<1>4. OthersTyped'
  <2>1. blocks' \subseteq Pairs
    BY <1>1 DEF TypeOK
  <2>2. crossed' \in Nat
    BY <1>1 DEF TypeOK
  <2>3. unsevered' \in BOOLEAN
    BY <1>1, Zenon DEF TypeOK
  <2> QED
    BY <1>1, <1>3, <2>1, <2>2, <2>3, TypeParts DEF OthersTyped
<1>5. Conversing(r) /\ Crossing(r) /\ Severing(r)
  BY <1>1, <1>2, <1>3 DEF Conversing, Crossing, Severing, Passed
<1>6. Reading(r)
  BY <1>1, <1>2, <1>3 DEF Reading
<1> QED
  BY <1>3, <1>4, <1>5, <1>6 DEF Effect

LEMMA SeverEffect ==
  ASSUME TypeOK, RequestsOK, NEW r \in Requests, Sever(r)
  PROVE  Effect(r)
<1>1. /\ request[r].at = "sever" /\ Stops(r) /\ follows' = {}
      /\ UNCHANGED <<asked, blocks, conversations, calls, messages, read, shown, missed,
                     crossed, unsevered, begun, failures>>
  BY DEF Sever, messageVars
<1>2. Grows
  BY <1>1, Sizes DEF Grows
<1>3. OnlyMoves(r) /\ request'[r].at = "idle"
  BY <1>1, <1>2, Stopped DEF Idle
<1>4. OthersTyped'
  BY <1>1, TypeParts DEF OthersTyped
<1>5. Conversing(r) /\ Crossing(r) /\ Severing(r)
  BY <1>1, <1>3 DEF Conversing, Crossing, Severing, Blocked, Passed
<1>6. Reading(r)
  BY <1>1, <1>3 DEF Reading
<1> QED
  BY <1>3, <1>4, <1>5, <1>6 DEF Effect

LEMMA OpenEffect ==
  ASSUME TypeOK, RequestsOK, NEW r \in Requests, NEW p \in Pairs,
         \/ \E sends \in BOOLEAN : Open(r, p, sends)
         \/ \E n \in 1 .. conversations : Send(r, p, n)
  PROVE  Effect(r)
<1>1. /\ ~Blocked
      /\ \E v : /\ Begins(r, v) /\ v.at \in {"find", "write"}
                /\ RequestOK(v, conversations, Len(messages))
      /\ UNCHANGED <<follows, asked, blocks, conversations, calls, messages, read, shown, missed,
                     crossed, unsevered, failures>>
  <2>1. ASSUME NEW sends \in BOOLEAN, Open(r, p, sends)
        PROVE  \E v : /\ Begins(r, v) /\ v.at \in {"find", "write"}
                      /\ RequestOK(v, conversations, Len(messages))
    <3> DEFINE v == [Idle EXCEPT !.at = "find", !.pair = p, !.sends = sends]
    <3>1. Begins(r, v) /\ v.at = "find"
      BY <2>1 DEF Open, Idle
    <3>2. RequestOK(v, conversations, Len(messages))
      <4>1. Idle \in RequestSet(conversations, Len(messages)) /\ "find" \in Steps
        BY Sizes, IdleOK DEF RequestOK, Steps, Passed
      <4>2. v \in RequestSet(conversations, Len(messages))
        BY <4>1, Sizes DEF RequestSet
      <4>3. v.at = "find" /\ v.pair = p /\ v.in = 0
        BY <4>1 DEF RequestSet, Idle
      <4> QED
        BY <4>2, <4>3 DEF RequestOK
    <3> QED
      BY <3>1, <3>2
  <2>2. ASSUME NEW n \in 1 .. conversations, Send(r, p, n)
        PROVE  \E v : /\ Begins(r, v) /\ v.at \in {"find", "write"}
                      /\ RequestOK(v, conversations, Len(messages))
    <3> DEFINE v == [Idle EXCEPT !.at = "write", !.pair = p, !.in = n, !.sends = TRUE]
    <3>1. Begins(r, v) /\ v.at = "write"
      BY <2>2 DEF Send, Idle
    <3>2. RequestOK(v, conversations, Len(messages))
      <4>1. Idle \in RequestSet(conversations, Len(messages)) /\ "write" \in Steps /\ n \in 0 .. conversations
        BY Sizes, IdleOK DEF RequestOK, Steps, Passed
      <4>2. v \in RequestSet(conversations, Len(messages))
        BY <4>1, Sizes DEF RequestSet
      <4>3. v.at = "write" /\ v.pair = p /\ v.in = n
        BY <4>1 DEF RequestSet, Idle
      <4> QED
        BY <4>2, <4>3 DEF RequestOK
    <3> QED
      BY <3>1, <3>2
  <2> QED
    BY <2>1, <2>2 DEF Open, Send, socialVars, messageVars
<1>2. PICK v : /\ Begins(r, v) /\ v.at \in {"find", "write"}
               /\ RequestOK(v, conversations, Len(messages))
  BY <1>1
<1>3. OnlyMoves(r) /\ request'[r] = v /\ request[r].at = "idle" /\ begun' \in Nat
  BY <1>1, <1>2, Begun
<1>4. OthersTyped'
  BY <1>1, <1>3, TypeParts DEF OthersTyped
<1>5. Conversing(r) /\ Crossing(r) /\ Severing(r)
  BY <1>1, <1>2, <1>3 DEF Conversing, Crossing, Severing, Blocked
<1>6. Reading(r)
  BY <1>1, <1>2, <1>3 DEF Reading
<1> QED
  BY <1>3, <1>4, <1>5, <1>6 DEF Effect

LEMMA FindEffect ==
  ASSUME TypeOK, RequestsOK, NEW r \in Requests, Find(r)
  PROVE  Effect(r)
<1>1. /\ request[r].at = "find"
      /\ UNCHANGED <<follows, asked, blocks, conversations, calls, messages, read, shown, missed,
                     crossed, unsevered, begun, failures>>
  BY DEF Find, socialVars, messageVars
<1>2. Grows
  BY <1>1, Sizes DEF Grows
<1>3. /\ OnlyMoves(r)
      /\ request'[r].at \in {"make", "write", "idle"}
      /\ request'[r].at = "make" => conversations = 0
  <2>1. CASE conversations = 0
    <3>1. Goes(r, "make") /\ "make" \in Steps
      BY <2>1 DEF Find, Steps, Passed
    <3> QED
      BY <1>1, <2>1, <3>1, GoesOn
  <2>2. CASE Stops(r)
    BY <1>2, <2>2, Stopped DEF Idle
  <2>3. ASSUME NEW n \in 1 .. conversations,
               request' = [request EXCEPT ![r].at = "write", ![r].in = n]
        PROVE  OnlyMoves(r) /\ request'[r].at = "write"
    <3> DEFINE v == [request[r] EXCEPT !.at = "write", !.in = n]
    <3>1. RequestOK(request[r], conversations, Len(messages)) /\ n \in 0 .. conversations
      BY Sizes DEF RequestsOK
    <3>2. v \in RequestSet(conversations, Len(messages)) /\ v.at = "write"
          /\ v.pair = request[r].pair /\ v.in = n
      BY <3>1 DEF RequestOK, RequestSet, Steps, Passed
    <3>3. RequestOK(v, conversations', Len(messages'))
      BY <1>1, <3>1, <3>2 DEF RequestOK
    <3>4. request' = [request EXCEPT ![r] = v]
      BY <2>3 DEF TypeOK
    <3> HIDE DEF v
    <3> QED
      BY <1>2, <3>2, <3>3, <3>4, Becomes
  <2> QED
    BY <2>1, <2>2, <2>3 DEF Find
<1>4. OthersTyped'
  BY <1>1, TypeParts DEF OthersTyped
<1>5. Conversing(r) /\ Crossing(r) /\ Severing(r)
  BY <1>1, <1>3 DEF Conversing, Crossing, Severing, Blocked, Passed
<1>6. Reading(r)
  BY <1>1, <1>3 DEF Reading
<1> QED
  BY <1>3, <1>4, <1>5, <1>6 DEF Effect

LEMMA MakeEffect ==
  ASSUME TypeOK, RequestsOK, NEW r \in Requests, Make(r)
  PROVE  Effect(r)
<1>1. /\ request[r].at = "make" /\ conversations' = conversations + 1
      /\ UNCHANGED <<follows, asked, blocks, calls, messages, read, shown, missed,
                     crossed, unsevered, begun, failures>>
  BY DEF Make, socialVars
<1>2. Grows /\ conversations \in Nat
  BY <1>1, Sizes DEF Grows
<1>3. OnlyMoves(r) /\ request'[r].at \in {"write", "idle"}
  <2>1. CASE ~request[r].sends
    <3>1. Stops(r)
      BY <2>1 DEF Make, Stops
    <3> QED
      BY <1>2, <3>1, Stopped DEF Idle
  <2>2. CASE request[r].sends
    <3> DEFINE v == [request[r] EXCEPT !.at = "write", !.in = conversations + 1]
    <3>1. RequestOK(request[r], conversations, Len(messages))
      BY DEF RequestsOK
    <3>2. RequestOK(request[r], conversations', Len(messages'))
      BY <1>1, <1>2, <3>1, Sizes, MoreRoom DEF Grows
    <3>3. conversations + 1 \in 1 .. conversations' /\ conversations + 1 \in 0 .. conversations'
      BY <1>1, <1>2
    <3>4. v \in RequestSet(conversations', Len(messages')) /\ v.at = "write"
          /\ v.pair = request[r].pair /\ v.in = conversations + 1
      BY <3>2, <3>3 DEF RequestOK, RequestSet, Steps, Passed
    <3>5. RequestOK(v, conversations', Len(messages'))
      BY <1>1, <3>2, <3>3, <3>4 DEF RequestOK
    <3>6. request' = [request EXCEPT ![r] = v]
      BY <1>1, <2>2 DEF Make
    <3> HIDE DEF v
    <3> QED
      BY <1>2, <3>4, <3>5, <3>6, Becomes
  <2> QED
    BY <2>1, <2>2
<1>4. OthersTyped'
  <2> DEFINE Old == [in : 1 .. conversations, from : Users]
             New == [in : 1 .. conversations', from : Users]
  <2>1. Old \subseteq New
    BY <1>1, <1>2
  <2>4. messages \in Seq(Old)
    BY DEF TypeOK
  <2> HIDE DEF Old, New
  <2>5. messages \in Seq(New)
    BY <2>1, <2>4, SeqMonotonic
  <2>2. messages' \in Seq([in : 1 .. conversations', from : Users])
    BY <1>1, <2>5 DEF New
  <2>3. conversations' \in Nat
    BY <1>2 DEF Grows
  <2>6. calls' \subseteq (1 .. conversations') \X Pairs
    BY <1>1, <1>2 DEF TypeOK
  <2> QED
    BY <1>1, <2>2, <2>3, <2>6, TypeParts DEF OthersTyped
<1>5. Conversing(r) /\ Crossing(r) /\ Severing(r)
  BY <1>1, <1>3 DEF Conversing, Crossing, Severing, Blocked, Passed
<1>6. Reading(r)
  BY <1>1, <1>3 DEF Reading
<1> QED
  BY <1>3, <1>4, <1>5, <1>6 DEF Effect

LEMMA WriteEffect ==
  ASSUME TypeOK, RequestsOK, NEW r \in Requests, Write(r)
  PROVE  Effect(r)
<1> DEFINE row == [in |-> request[r].in, from |-> request[r].pair[1]]
<1>1. /\ request[r].at = "write" /\ Stops(r) /\ messages' = Append(messages, row)
      /\ crossed' = IF Blocked THEN crossed + 1 ELSE crossed
      /\ missed' \subseteq missed \union {Len(messages) + 1}
      /\ UNCHANGED <<follows, asked, blocks, conversations, read, shown, calls, unsevered, begun, failures>>
  BY DEF Write, Posts, Crosses, socialVars
<1>2. request[r].pair \in Pairs /\ request[r].in \in 1 .. conversations
  BY <1>1 DEF RequestsOK, RequestOK
<1>3. row \in [in : 1 .. conversations, from : Users]
  BY <1>2 DEF Pairs
<1> HIDE DEF row
<1>4. /\ messages' \in Seq([in : 1 .. conversations, from : Users])
      /\ Len(messages') = Len(messages) + 1
  BY <1>1, <1>3 DEF TypeOK
<1>5. Grows
  BY <1>1, <1>4, Sizes DEF Grows
<1>6. OnlyMoves(r) /\ request'[r].at = "idle"
  BY <1>1, <1>5, Stopped DEF Idle
<1>7. OthersTyped'
  <2>1. crossed' \in Nat
    BY <1>1 DEF TypeOK
  <2>2. 1 .. Len(messages) \subseteq 1 .. Len(messages') /\ Len(messages) + 1 \in 1 .. Len(messages')
    BY <1>4, Sizes
  <2>3. read' \subseteq 1 .. Len(messages') /\ shown' \subseteq 1 .. Len(messages')
    BY <1>1, <2>2 DEF TypeOK
  <2>4. missed' \subseteq 1 .. Len(messages')
    BY <1>1, <2>2 DEF TypeOK
  <2> QED
    BY <1>1, <1>4, <2>1, <2>3, <2>4, TypeParts DEF OthersTyped
<1>8. Conversing(r) /\ Crossing(r)
  BY <1>1, <1>6 DEF Conversing, Crossing, Blocked, Passed
<1>9. Severing(r)
  <2>1. crossed \in Nat
    BY DEF TypeOK
  <2> QED
    BY <1>1, <1>6, <2>1 DEF Severing, Blocked
<1>10. Reading(r)
  BY DEF Reading
<1> QED
  BY <1>6, <1>7, <1>8, <1>9, <1>10 DEF Effect

LEMMA CallEffect ==
  ASSUME TypeOK, RequestsOK, NEW r \in Requests, NEW p \in Pairs, NEW n \in 1 .. conversations,
         Call(r, p, n)
  PROVE  Effect(r)
<1> DEFINE v == [Idle EXCEPT !.at = "dial", !.pair = p, !.in = n]
<1>1. /\ ~Blocked /\ Begins(r, v)
      /\ UNCHANGED <<follows, asked, blocks, conversations, calls, messages, read, shown, missed,
                     crossed, unsevered, failures>>
  BY DEF Call, socialVars, messageVars
<1>2. RequestOK(v, conversations, Len(messages)) /\ v.at = "dial"
  <2>1. Idle \in RequestSet(conversations, Len(messages)) /\ "dial" \in Steps /\ n \in 0 .. conversations
    BY Sizes, IdleOK DEF RequestOK, Steps, Passed
  <2>2. v \in RequestSet(conversations, Len(messages))
    BY <2>1, Sizes DEF RequestSet
  <2>3. v.at = "dial" /\ v.pair = p /\ v.in = n
    BY <2>1 DEF RequestSet, Idle
  <2> QED
    BY <2>2, <2>3 DEF RequestOK
<1> HIDE DEF v
<1>3. OnlyMoves(r) /\ request'[r] = v /\ request[r].at = "idle" /\ begun' \in Nat
  BY <1>1, <1>2, Begun
<1>4. OthersTyped'
  BY <1>1, <1>3, TypeParts DEF OthersTyped
<1>5. Conversing(r) /\ Crossing(r) /\ Severing(r)
  BY <1>1, <1>2, <1>3 DEF Conversing, Crossing, Severing, Blocked
<1>6. Reading(r)
  BY <1>1, <1>2, <1>3 DEF Reading
<1> QED
  BY <1>3, <1>4, <1>5, <1>6 DEF Effect

LEMMA CallWriteEffect ==
  ASSUME TypeOK, RequestsOK, NEW r \in Requests, CallRefused(r) \/ CallWrite(r)
  PROVE  Effect(r)
<1>1. /\ request[r].at = "dial" /\ Stops(r)
      /\ calls' \subseteq calls \union {<<request[r].in, request[r].pair>>}
      /\ UNCHANGED <<follows, asked, blocks, conversations, messages, read, shown, missed,
                     unsevered, begun, failures>>
  BY DEF CallRefused, CallWrite, socialVars, messageVars
<1>2. \/ crossed' = IF Blocked THEN crossed + 1 ELSE crossed
      \/ crossed' = crossed
  BY DEF CallRefused, CallWrite, Crosses
<1>3. Grows
  BY <1>1, Sizes DEF Grows
<1>4. OnlyMoves(r) /\ request'[r].at = "idle"
  BY <1>1, <1>3, Stopped DEF Idle
<1>5. OthersTyped'
  <2>1. request[r].in \in 1 .. conversations /\ request[r].pair \in Pairs
    BY <1>1 DEF RequestsOK, RequestOK
  <2>2. calls' \subseteq (1 .. conversations) \X Pairs
    BY <1>1, <2>1 DEF TypeOK
  <2>3. crossed' \in Nat
    BY <1>2 DEF TypeOK
  <2> QED
    BY <1>1, <2>2, <2>3, TypeParts DEF OthersTyped
<1>6. Conversing(r) /\ Crossing(r)
  BY <1>1, <1>2, <1>4 DEF Conversing, Crossing, Blocked, Passed
<1>7. Severing(r)
  BY <1>1, <1>4 DEF Severing, Blocked
<1>8. Reading(r)
  BY <1>1, <1>4 DEF Reading
<1> QED
  BY <1>4, <1>5, <1>6, <1>7, <1>8 DEF Effect

LEMMA FetchEffect ==
  ASSUME TypeOK, RequestsOK, NEW r \in Requests, NEW p \in Pairs, NEW n \in 1 .. conversations,
         Fetch(r, p, n)
  PROVE  Effect(r)
<1>1. PICK page \in SUBSET (1 .. Len(messages)) :
        /\ Begins(r, [Idle EXCEPT !.at = "mark", !.pair = p, !.in = n, !.page = page])
        /\ missed' = missed \union (Received(p[1], n) \ page)
        /\ UNCHANGED <<follows, asked, blocks, conversations, calls, messages, read, shown,
                       crossed, unsevered, failures>>
  BY DEF Fetch, socialVars
<1> DEFINE v == [Idle EXCEPT !.at = "mark", !.pair = p, !.in = n, !.page = page]
<1>2. RequestOK(v, conversations, Len(messages)) /\ v.at = "mark" /\ v.pair = p /\ v.in = n /\ v.page = page
  <2>1. Idle \in RequestSet(conversations, Len(messages)) /\ "mark" \in Steps /\ n \in 0 .. conversations
    BY Sizes, IdleOK DEF RequestOK, Steps, Passed
  <2>2. v \in RequestSet(conversations, Len(messages))
    BY <2>1, Sizes DEF RequestSet
  <2>3. v.at = "mark" /\ v.pair = p /\ v.in = n /\ v.page = page
    BY <2>1 DEF RequestSet, Idle
  <2> QED
    BY <2>2, <2>3 DEF RequestOK
<1>3. Begins(r, v)
  BY <1>1
<1> HIDE DEF v
<1>4. OnlyMoves(r) /\ request'[r] = v /\ request[r].at = "idle" /\ begun' \in Nat
  BY <1>1, <1>2, <1>3, Begun
<1>5. OthersTyped'
  <2>1. Received(p[1], n) \subseteq 1 .. Len(messages)
    BY DEF Received
  <2>2. missed' \subseteq 1 .. Len(messages)
    BY <1>1, <2>1 DEF TypeOK
  <2> QED
    BY <1>1, <1>4, <2>2, TypeParts DEF OthersTyped
<1>6. Conversing(r) /\ Crossing(r) /\ Severing(r)
  BY <1>1, <1>2, <1>4 DEF Conversing, Crossing, Severing, Blocked, Passed
<1>7. Reading(r)
  BY <1>1, <1>2, <1>4 DEF Reading
<1> QED
  BY <1>4, <1>5, <1>6, <1>7 DEF Effect

LEMMA MarkEffect ==
  ASSUME TypeOK, RequestsOK, NEW r \in Requests, Mark(r)
  PROVE  Effect(r)
<1>1. /\ request[r].at = "mark" /\ Goes(r, "answer")
      /\ read' = read \union Received(request[r].pair[1], request[r].in)
      /\ UNCHANGED <<follows, asked, blocks, conversations, calls, messages, shown, missed,
                     crossed, unsevered, begun, failures>>
  BY DEF Mark, socialVars
<1>2. OnlyMoves(r) /\ request'[r].at = "answer" /\ request'[r].page = request[r].page
  <2>1. "answer" \in Steps
    BY DEF Steps
  <2> QED
    BY <1>1, <2>1, GoesOn
<1>3. OthersTyped'
  <2>1. read' \subseteq 1 .. Len(messages)
    BY <1>1 DEF TypeOK, Received
  <2> QED
    BY <1>1, <2>1, TypeParts DEF OthersTyped
<1>4. Conversing(r) /\ Crossing(r) /\ Severing(r)
  BY <1>1, <1>2 DEF Conversing, Crossing, Severing, Blocked, Passed
<1>5. Reading(r)
  BY <1>1, <1>2 DEF Reading
<1> QED
  BY <1>2, <1>3, <1>4, <1>5 DEF Effect

LEMMA AnswerEffect ==
  ASSUME TypeOK, RequestsOK, NEW r \in Requests, Answer(r)
  PROVE  Effect(r)
<1>1. /\ request[r].at = "answer" /\ Stops(r) /\ shown' = shown \union request[r].page
      /\ UNCHANGED <<follows, asked, blocks, conversations, calls, messages, read, missed,
                     crossed, unsevered, begun, failures>>
  BY DEF Answer, socialVars
<1>2. Grows
  BY <1>1, Sizes DEF Grows
<1>3. OnlyMoves(r) /\ request'[r].at = "idle"
  BY <1>1, <1>2, Stopped DEF Idle
<1>4. OthersTyped'
  <2>1. request[r].page \subseteq 1 .. Len(messages)
    BY DEF RequestsOK, RequestOK, RequestSet
  <2>2. shown' \subseteq 1 .. Len(messages)
    BY <1>1, <2>1 DEF TypeOK
  <2> QED
    BY <1>1, <2>2, TypeParts DEF OthersTyped
<1>5. Conversing(r) /\ Crossing(r) /\ Severing(r)
  BY <1>1, <1>3 DEF Conversing, Crossing, Severing, Blocked, Passed
<1>6. Reading(r)
  BY <1>1, <1>3 DEF Reading
<1> QED
  BY <1>3, <1>4, <1>5, <1>6 DEF Effect

LEMMA FailsEffect ==
  ASSUME TypeOK, RequestsOK, NEW r \in Requests, RequestFails(r)
  PROVE  Effect(r)
<1>1. /\ Stops(r) /\ missed' = missed \union request[r].page
      /\ failures' = failures + 1
      /\ UNCHANGED <<follows, asked, blocks, conversations, calls, messages, read, shown, crossed, begun>>
  BY DEF RequestFails, socialVars
<1>2. unsevered' = (unsevered \/ request[r].at = "sever")
  BY DEF RequestFails
<1>3. Grows
  BY <1>1, Sizes DEF Grows
<1>4. OnlyMoves(r) /\ request'[r].at = "idle"
  BY <1>1, <1>3, Stopped DEF Idle
<1>5. OthersTyped'
  <2>1. request[r].page \subseteq 1 .. Len(messages)
    BY DEF RequestsOK, RequestOK, RequestSet
  <2>2. missed' \subseteq 1 .. Len(messages) /\ failures' \in Nat
    BY <1>1, <2>1 DEF TypeOK
  <2>3. unsevered' \in BOOLEAN
    BY <1>2, Zenon
  <2> QED
    BY <1>1, <2>2, <2>3, TypeParts DEF OthersTyped
<1>6. Conversing(r) /\ Crossing(r)
  BY <1>1, <1>4 DEF Conversing, Crossing, Blocked, Passed
<1>7. Severing(r)
  <2>1. unsevered \in BOOLEAN
    BY DEF TypeOK
  <2> QED
    BY <1>1, <1>2, <2>1 DEF Severing, Blocked
<1>8. Reading(r)
  BY <1>1, <1>4 DEF Reading
<1> QED
  BY <1>4, <1>5, <1>6, <1>7, <1>8 DEF Effect

-------------------------------------------------------------------------------
(***************************************************************************)
(* Every step is a step of one request, or posts what became of a call, or *)
(* deletes a follow or a block.                                            *)
(***************************************************************************)

LEMMA Deletes ==
  ASSUME TypeOK, RequestsOK, NEW p \in Pairs, Unfollow(p) \/ Unblock(p)
  PROVE  /\ follows' \subseteq follows /\ blocks' \subseteq blocks
         /\ UNCHANGED <<asked, conversations, calls, messages, read, shown, missed, request,
                        crossed, unsevered, begun, failures>>
BY DEF Unfollow, Unblock, messageVars

Reports == \E v \in 1 .. conversations, p \in Pairs :
             Posts(v, p) /\ UNCHANGED <<follows, asked, blocks, conversations, calls, read, shown,
                                        request, crossed, unsevered, begun, failures>>

LEMMA ReportsTyped ==
  ASSUME TypeOK, RequestsOK, Reports
  PROVE  (TypeOK /\ RequestsOK)'
<1>1. PICK v \in 1 .. conversations, p \in Pairs : Posts(v, p)
  BY DEF Reports
<1>2. UNCHANGED <<follows, asked, blocks, conversations, calls, read, shown, request,
                  crossed, unsevered, begun, failures>>
  BY DEF Reports
<1> DEFINE row == [in |-> v, from |-> p[1]]
<1>3. row \in [in : 1 .. conversations, from : Users]
  BY DEF Pairs
<1>4. messages' = Append(messages, row) /\ missed' \subseteq missed \union {Len(messages) + 1}
  BY <1>1 DEF Posts
<1> HIDE DEF row
<1>5. /\ messages' \in Seq([in : 1 .. conversations, from : Users])
      /\ Len(messages') = Len(messages) + 1 /\ Len(messages) \in Nat
  BY <1>3, <1>4, Sizes DEF TypeOK
<1>6. 1 .. Len(messages) \subseteq 1 .. Len(messages') /\ Len(messages) + 1 \in 1 .. Len(messages')
  BY <1>5
<1>7. OthersTyped'
  <2>1. read' \subseteq 1 .. Len(messages') /\ shown' \subseteq 1 .. Len(messages')
    BY <1>2, <1>6 DEF TypeOK
  <2>2. missed' \subseteq 1 .. Len(messages')
    BY <1>4, <1>6 DEF TypeOK
  <2> QED
    BY <1>2, <1>5, <2>1, <2>2, TypeParts DEF OthersTyped
<1>8. ASSUME NEW q \in Requests PROVE RequestOK(request'[q], conversations', Len(messages'))
  BY <1>2, <1>5, Sizes, MoreRoom DEF RequestsOK
<1>9. request' \in [Requests -> RequestSet(conversations', Len(messages'))]
  <2>1. \A q \in Requests : request[q] \in RequestSet(conversations', Len(messages'))
    BY <1>2, <1>8 DEF RequestOK
  <2> QED
    BY <1>2, <2>1, TypeParts
<1>10. TypeOK'
  BY <1>7, <1>9 DEF OthersTyped, TypeOK, RequestSet, Steps
<1> QED
  BY <1>8, <1>10 DEF RequestsOK

LEMMA StepEffect ==
  ASSUME TypeOK, RequestsOK, [Next]_vars
  PROVE  \/ \E r \in Requests : Effect(r)
         \/ Reports
         \/ /\ follows' \subseteq follows /\ blocks' \subseteq blocks
            /\ UNCHANGED <<asked, conversations, calls, messages, read, shown, missed, request,
                           crossed, unsevered, begun, failures>>
<1>1. ASSUME NEW r \in Requests, Proceeds(r) PROVE Effect(r)
  BY <1>1, FollowTargetEffect, FollowWriteEffect, SeverEffect, FindEffect, MakeEffect, WriteEffect,
     CallWriteEffect, MarkEffect, AnswerEffect, FailsEffect DEF Proceeds
<1>2. ASSUME NEW r \in Requests, NEW p \in Pairs, Starts(r, p) PROVE Effect(r)
  BY <1>2, FollowEffect, BlockEffect, OpenEffect, CallEffect, FetchEffect DEF Starts
<1>4. ASSUME NEW p \in Pairs, NEW v \in 1 .. conversations, PostCallEventMessage(v, p) PROVE Reports
  BY <1>4 DEF PostCallEventMessage, Reports, socialVars
<1>3. CASE UNCHANGED vars
  BY <1>3 DEF vars, socialVars, messageVars
<1> QED
  BY <1>1, <1>2, <1>3, <1>4, Deletes DEF Next

LEMMA TypeInit == Init => TypeOK /\ RequestsOK
<1> SUFFICES ASSUME Init PROVE TypeOK /\ RequestsOK
  OBVIOUS
<1>1. conversations = 0 /\ messages = <<>> /\ Len(messages) = 0
  BY DEF Init
<1>2. RequestOK(Idle, conversations, Len(messages))
  BY <1>1, IdleOK
<1>3. RequestsOK /\ request \in [Requests -> RequestSet(conversations, Len(messages))]
  BY <1>2 DEF Init, RequestsOK, RequestOK
<1>4. OthersTyped
  <2>1. /\ messages \in Seq([in : 1 .. conversations, from : Users])
        /\ calls \subseteq (1 .. conversations) \X Pairs
    BY <1>1, EmptySeq DEF Init
  <2>2. follows \subseteq Pairs /\ asked \subseteq Pairs /\ blocks \subseteq Pairs
    BY DEF Init
  <2>3. read \in SUBSET (1 .. Len(messages)) /\ shown \in SUBSET (1 .. Len(messages))
        /\ missed \in SUBSET (1 .. Len(messages))
    BY DEF Init
  <2>4. unsevered \in BOOLEAN /\ crossed \in Nat /\ begun \in Nat /\ failures \in Nat
        /\ conversations \in Nat
    BY DEF Init
  <2> QED
    BY <2>1, <2>2, <2>3, <2>4 DEF OthersTyped
<1> QED
  BY <1>3, <1>4, TypeParts

LEMMA TypeNext == TypeOK /\ RequestsOK /\ [Next]_vars => (TypeOK /\ RequestsOK)'
<1> SUFFICES ASSUME TypeOK, RequestsOK, [Next]_vars PROVE (TypeOK /\ RequestsOK)'
  OBVIOUS
<1>1. ASSUME NEW r \in Requests, Effect(r) PROVE (TypeOK /\ RequestsOK)'
  BY <1>1 DEF Effect, OnlyMoves, OthersTyped, TypeOK, RequestSet, Steps
<1>2. ASSUME follows' \subseteq follows, blocks' \subseteq blocks,
             UNCHANGED <<asked, conversations, calls, messages, read, shown, missed, request,
                         crossed, unsevered, begun, failures>>
      PROVE  (TypeOK /\ RequestsOK)'
  BY <1>2 DEF TypeOK, RequestsOK
<1> QED
  BY <1>1, <1>2, ReportsTyped, StepEffect

\* However requests interleave, the state keeps its type.
THEOREM SocialTypeCorrect == Spec => []TypeOK
BY TypeInit, TypeNext, PTL DEF Spec

-------------------------------------------------------------------------------
(***************************************************************************)
(* Conversations: each was made by a request that had found none, so a     *)
(* request can only still make one that none had been made before.         *)
(***************************************************************************)
MakersCounted == conversations + Cardinality(Making) <= Cardinality(Requests)

LEMMA RequestSets ==
  ASSUME NEW S \in SUBSET Requests
  PROVE  /\ IsFiniteSet(S) /\ Cardinality(S) \in Nat /\ Cardinality(Requests) \in Nat
         /\ Cardinality(S) <= Cardinality(Requests)
         /\ \A T \in SUBSET S : Cardinality(T) \in Nat /\ Cardinality(T) <= Cardinality(S)
         /\ \A r \in S : Cardinality(S \ {r}) = Cardinality(S) - 1
<1>1. IsFiniteSet(S) /\ Cardinality(S) \in Nat /\ Cardinality(Requests) \in Nat
      /\ Cardinality(S) <= Cardinality(Requests)
  BY Constants, FS_Subset, FS_CardinalityType
<1>2. \A T \in SUBSET S : Cardinality(T) \in Nat /\ Cardinality(T) <= Cardinality(S)
  BY <1>1, FS_Subset, FS_CardinalityType
<1>3. \A r \in S : Cardinality(S \ {r}) = Cardinality(S) - 1
  BY <1>1, FS_RemoveElement
<1> QED
  BY <1>1, <1>2, <1>3

LEMMA MakersNext ==
  TypeOK /\ RequestsOK /\ MakersCounted /\ [Next]_vars => MakersCounted'
<1> SUFFICES ASSUME TypeOK, RequestsOK, MakersCounted, [Next]_vars PROVE MakersCounted'
  OBVIOUS
<1>1. conversations \in Nat /\ Making \subseteq Requests /\ Making' \subseteq Requests
  BY DEF TypeOK, Making
<1>2. ASSUME NEW r \in Requests, Effect(r) PROVE MakersCounted'
  <2>1. Conversing(r) /\ \A q \in Requests \ {r} : request'[q] = request[q]
    BY <1>2 DEF Effect, OnlyMoves
  <2>2. CASE conversations' = conversations /\ request'[r].at # "make"
    <3>1. Making' \subseteq Making
      BY <2>1, <2>2 DEF Making
    <3> QED
      BY <1>1, <2>2, <3>1, RequestSets DEF MakersCounted
  <2>3. CASE conversations' = 0
    BY <1>1, <2>3, RequestSets DEF MakersCounted
  <2>4. CASE conversations' = conversations + 1 /\ r \in Making /\ request'[r].at # "make"
    <3>1. Making' = Making \ {r}
      BY <2>1, <2>4 DEF Making
    <3>2. Cardinality(Making') = Cardinality(Making) - 1 /\ Cardinality(Making) \in Nat
      BY <1>1, <2>4, <3>1, RequestSets
    <3> QED
      BY <1>1, <2>4, <3>2 DEF MakersCounted
  <2> QED
    BY <2>1, <2>2, <2>3, <2>4 DEF Conversing, Making
<1>3. ASSUME UNCHANGED <<conversations, request>> PROVE MakersCounted'
  BY <1>3 DEF MakersCounted, Making
<1> QED
  BY <1>2, <1>3, StepEffect DEF Reports

\* Two users have at most one conversation for every request they can have in
\* progress at once.
THEOREM FewConversations == Spec => []ConversationsBounded
<1>1. Init => MakersCounted
  <2> SUFFICES ASSUME Init PROVE MakersCounted
    OBVIOUS
  <2>1. conversations = 0 /\ Making \subseteq Requests
    BY DEF Init, Making
  <2> QED
    BY <2>1, RequestSets DEF MakersCounted
<1>2. TypeOK /\ MakersCounted => ConversationsBounded
  <2> SUFFICES ASSUME TypeOK, MakersCounted PROVE ConversationsBounded
    OBVIOUS
  <2>1. conversations \in Nat /\ Making \subseteq Requests
    BY DEF TypeOK, Making
  <2> QED
    BY <2>1, RequestSets DEF MakersCounted, ConversationsBounded
<1> QED
  BY <1>1, <1>2, TypeInit, TypeNext, MakersNext, PTL DEF Spec

-------------------------------------------------------------------------------
(***************************************************************************)
(* Blocks.                                                                 *)
(***************************************************************************)

\* What crosses a block and what still may are, together, fewer than all requests.
CrossersCounted ==
  Blocked => crossed + Cardinality(InFlight) + 1 <= Cardinality(Requests)

LEMMA CrossersNext ==
  TypeOK /\ RequestsOK /\ CrossersCounted /\ [Next]_vars => CrossersCounted'
<1> SUFFICES ASSUME TypeOK, RequestsOK, CrossersCounted, [Next]_vars, Blocked'
             PROVE  crossed' + Cardinality(InFlight') + 1 <= Cardinality(Requests)
  BY DEF CrossersCounted
<1>1. crossed \in Nat /\ InFlight \subseteq Requests /\ InFlight' \subseteq Requests
  BY DEF TypeOK, InFlight
<1>2. ASSUME NEW r \in Requests, Effect(r)
      PROVE  crossed' + Cardinality(InFlight') + 1 <= Cardinality(Requests)
  <2>1. Crossing(r) /\ \A q \in Requests \ {r} : request'[q] = request[q]
    BY <1>2 DEF Effect, OnlyMoves
  <2>2. CASE crossed' = 0 /\ request'[r].at \notin Passed
    <3>1. InFlight' \subseteq Requests \ {r}
      BY <2>2 DEF InFlight
    <3>2. Cardinality(Requests \ {r}) = Cardinality(Requests) - 1
      BY RequestSets
    <3>3. Cardinality(InFlight') <= Cardinality(Requests \ {r}) /\ Cardinality(InFlight') \in Nat
      BY <3>1, RequestSets
    <3> QED
      BY <2>2, <3>2, <3>3, RequestSets
  <2>3. CASE /\ Blocked /\ crossed' = crossed
             /\ request'[r].at \in Passed => request[r].at \in Passed
    <3>1. InFlight' \subseteq InFlight
      BY <2>1, <2>3 DEF InFlight
    <3> QED
      BY <1>1, <2>3, <3>1, RequestSets DEF CrossersCounted
  <2>4. CASE /\ Blocked /\ crossed' = crossed + 1
             /\ request[r].at \in Passed /\ request'[r].at \notin Passed
    <3>1. r \in InFlight /\ InFlight' = InFlight \ {r}
      BY <2>1, <2>4 DEF InFlight
    <3>2. Cardinality(InFlight') = Cardinality(InFlight) - 1 /\ Cardinality(InFlight) \in Nat
      BY <1>1, <3>1, RequestSets
    <3> QED
      BY <1>1, <2>4, <3>2 DEF CrossersCounted
  <2> QED
    BY <2>1, <2>2, <2>3, <2>4 DEF Crossing
<1>3. ASSUME blocks' \subseteq blocks, UNCHANGED <<crossed, request>>
      PROVE  crossed' + Cardinality(InFlight') + 1 <= Cardinality(Requests)
  <2>1. Blocked /\ InFlight' = InFlight
    BY <1>3 DEF Blocked, InFlight
  <2> QED
    BY <1>3, <2>1 DEF CrossersCounted
<1> QED
  BY <1>2, <1>3, StepEffect DEF Reports

\* While a block stands fewer rows cross it than requests can be in progress.
THEOREM FewCross == Spec => []CrossingBounded
<1>1. Init => CrossersCounted
  BY DEF Init, CrossersCounted, Blocked
<1>2. TypeOK /\ CrossersCounted => CrossingBounded
  <2> SUFFICES ASSUME TypeOK, CrossersCounted, Blocked PROVE crossed < Cardinality(Requests)
    BY DEF CrossingBounded
  <2>1. crossed \in Nat /\ InFlight \subseteq Requests
    BY DEF TypeOK, InFlight
  <2> QED
    BY <2>1, RequestSets DEF CrossersCounted
<1> QED
  BY <1>1, <1>2, TypeInit, TypeNext, CrossersNext, PTL DEF Spec

LEMMA SeversNext ==
  TypeOK /\ RequestsOK /\ BlockSevers /\ [Next]_vars => BlockSevers'
<1> SUFFICES ASSUME TypeOK, RequestsOK, BlockSevers, [Next]_vars, Blocked', follows' # {}
             PROVE  unsevered' \/ \E r \in Requests : request'[r].at = "sever"
  BY DEF BlockSevers
<1>1. ASSUME NEW r \in Requests, Effect(r)
      PROVE  unsevered' \/ \E q \in Requests : request'[q].at = "sever"
  <2>1. Severing(r) /\ \A q \in Requests \ {r} : request'[q] = request[q]
    BY <1>1 DEF Effect, OnlyMoves
  <2>2. CASE Blocked /\ follows # {} /\ unsevered' = unsevered /\ request[r].at # "sever"
    <3>1. unsevered \/ \E q \in Requests : request[q].at = "sever"
      BY <2>2 DEF BlockSevers
    <3>2. ASSUME NEW q \in Requests, request[q].at = "sever" PROVE request'[q].at = "sever"
      BY <2>1, <2>2, <3>2
    <3> QED
      BY <2>2, <3>1, <3>2
  <2> QED
    BY <2>1, <2>2 DEF Severing
<1>2. ASSUME follows' \subseteq follows, blocks' \subseteq blocks, UNCHANGED <<request, unsevered>>
      PROVE  unsevered' \/ \E q \in Requests : request'[q].at = "sever"
  BY <1>2 DEF BlockSevers, Blocked
<1> QED
  BY <1>1, <1>2, StepEffect DEF Reports

\* Two users between whom a block stands do not follow each other, but for the
\* explained cases.
THEOREM BlocksSever == Spec => []BlockSevers
<1>1. Init => BlockSevers
  BY DEF Init, BlockSevers, Blocked
<1> QED
  BY <1>1, TypeInit, TypeNext, SeversNext, PTL DEF Spec

-------------------------------------------------------------------------------
(***************************************************************************)
(* Messages that count as read.                                            *)
(***************************************************************************)

\* The messages among s that user u got in conversation v.
From(s, u, v) == {m \in 1 .. Len(s) : s[m].in = v /\ s[m].from # u}

\* What a fetch is about to mark, it returns, or it is recorded as missed.
FetchesAccount ==
  \A q \in Requests : request[q].at = "mark" =>
    From(messages, request[q].pair[1], request[q].in) \subseteq request[q].page \union missed

\* A message more in a conversation that someone is about to mark is missed.
LEMMA PostsAccount ==
  ASSUME TypeOK, RequestsOK, FetchesAccount, NEW w, NEW p \in Pairs, Posts(w, p),
         NEW q \in Requests, request[q].at = "mark"
  PROVE  From(messages', request[q].pair[1], request[q].in) \subseteq request[q].page \union missed'
<1> DEFINE k == Len(messages) + 1
           u == request[q].pair[1]
           v == request[q].in
<1>1. /\ messages' = Append(messages, [in |-> w, from |-> p[1]])
      /\ missed' = IF Marking(w, p[2]) THEN missed \union {k} ELSE missed
  BY DEF Posts
<1>2. u \in Users
  BY DEF RequestsOK, RequestOK, Pairs
<1>3. From(messages, u, v) \subseteq request[q].page \union missed
  BY DEF FetchesAccount
<1>4. /\ Len(messages') = k /\ Len(messages) \in Nat
      /\ messages'[k].in = w /\ messages'[k].from = p[1]
      /\ \A m \in 1 .. Len(messages) : messages'[m] = messages[m]
  BY <1>1, Sizes DEF TypeOK
<1>5. ASSUME NEW m \in From(messages', u, v) PROVE m \in request[q].page \union missed'
  <2>1. m \in 1 .. Len(messages) \/ m = k
    BY <1>4, <1>5 DEF From
  <2>2. CASE m \in 1 .. Len(messages)
    BY <1>1, <1>3, <1>4, <1>5, <2>2 DEF From
  <2>3. CASE m = k
    <3>1. v = w /\ u # p[1]
      BY <1>4, <1>5, <2>3 DEF From
    <3>2. u = p[2]
      BY <1>2, <3>1, TwoUsers
    <3>3. Marking(w, p[2])
      BY <3>1, <3>2 DEF Marking
    <3> QED
      BY <1>1, <2>3, <3>3
  <2> QED
    BY <2>1, <2>2, <2>3
<1> QED
  BY <1>5

LEMMA ReadNext ==
  TypeOK /\ RequestsOK /\ FetchesAccount /\ ReadIsExplained /\ [Next]_vars
    => (FetchesAccount /\ ReadIsExplained)'
<1> SUFFICES ASSUME TypeOK, RequestsOK, FetchesAccount, ReadIsExplained, [Next]_vars
             PROVE  (FetchesAccount /\ ReadIsExplained)'
  OBVIOUS
<1>1. ASSUME NEW r \in Requests, Effect(r), ~Write(r) PROVE (FetchesAccount /\ ReadIsExplained)'
  <2>1. \A q \in Requests \ {r} : request'[q] = request[q]
    BY <1>1 DEF Effect, OnlyMoves
  <2>2. /\ messages' = messages /\ missed \subseteq missed' /\ shown \subseteq shown'
        /\ request'[r].at = "mark" =>
             From(messages, request'[r].pair[1], request'[r].in) \subseteq request'[r].page \union missed'
        /\ \/ read' = read /\ (request[r].at = "answer" => request[r].page \subseteq shown' \union missed')
           \/ /\ request[r].at = "mark" /\ request'[r].at = "answer"
              /\ request'[r].page = request[r].page
              /\ read' = read \union From(messages, request[r].pair[1], request[r].in)
    BY <1>1 DEF Effect, Reading, Received, From
  <2>3. FetchesAccount'
    BY <2>1, <2>2 DEF FetchesAccount
  <2>4. ASSUME NEW m \in read, request[r].at = "answer" => request[r].page \subseteq shown' \union missed'
        PROVE  \/ m \in shown' \union missed'
               \/ \E q \in Requests : request'[q].at = "answer" /\ m \in request'[q].page
    BY <2>1, <2>2, <2>4 DEF ReadIsExplained
  <2>5. ASSUME NEW m \in From(messages, request[r].pair[1], request[r].in), request[r].at = "mark",
               request'[r].at = "answer", request'[r].page = request[r].page
        PROVE  \/ m \in shown' \union missed'
               \/ \E q \in Requests : request'[q].at = "answer" /\ m \in request'[q].page
    BY <2>2, <2>5 DEF FetchesAccount
  <2>6. ReadIsExplained'
    BY <2>2, <2>4, <2>5 DEF ReadIsExplained
  <2> QED
    BY <2>3, <2>6
<1>2. ASSUME NEW r \in Requests, Effect(r), Write(r) PROVE (FetchesAccount /\ ReadIsExplained)'
  <2>1. /\ request[r].at = "write" /\ Stops(r) /\ read' = read /\ shown' = shown
        /\ missed \subseteq missed' /\ Posts(request[r].in, request[r].pair)
    BY <1>2 DEF Write, Posts
  <2>2. request'[r].at = "idle" /\ \A q \in Requests \ {r} : request'[q] = request[q]
    BY <1>2, <2>1 DEF Effect, OnlyMoves, Stops, TypeOK, Idle
  <2>3. FetchesAccount'
    <3>1. request[r].pair \in Pairs
      BY <2>1 DEF RequestsOK, RequestOK
    <3> QED
      BY <2>1, <2>2, <3>1, PostsAccount DEF FetchesAccount
  <2>4. ReadIsExplained'
    BY <2>1, <2>2 DEF ReadIsExplained
  <2> QED
    BY <2>3, <2>4
<1>3. ASSUME UNCHANGED <<messages, read, shown, missed, request>>
      PROVE  (FetchesAccount /\ ReadIsExplained)'
  BY <1>3 DEF FetchesAccount, ReadIsExplained
<1>4. ASSUME Reports PROVE (FetchesAccount /\ ReadIsExplained)'
  <2>1. PICK v \in 1 .. conversations, p \in Pairs : Posts(v, p)
    BY <1>4 DEF Reports
  <2>2. UNCHANGED <<read, shown, request>> /\ missed \subseteq missed'
    BY <1>4, <2>1 DEF Reports, Posts
  <2>3. FetchesAccount'
    BY <2>1, <2>2, PostsAccount DEF FetchesAccount
  <2>4. ReadIsExplained'
    BY <2>2 DEF ReadIsExplained
  <2> QED
    BY <2>3, <2>4
<1> QED
  BY <1>1, <1>2, <1>3, <1>4, StepEffect

\* A message counts as read only if its recipient got it or is about to, or for
\* one of the explained reasons.
THEOREM ReadExplained == Spec => []ReadIsExplained
<1>1. Init => FetchesAccount /\ ReadIsExplained
  BY DEF Init, FetchesAccount, ReadIsExplained, Idle
<1> QED
  BY <1>1, TypeInit, TypeNext, ReadNext, PTL DEF Spec
================================================================================

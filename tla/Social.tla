--------------------------------- MODULE Social ---------------------------------
(***************************************************************************)
(* Follows, blocks and messages between two users.                         *)
(*                                                                         *)
(* follow, send, startWithUser and the create of a call look for a block   *)
(* first and write later; blockUser writes the block first and deletes the *)
(* follows later.  None of them uses a transaction, so a request that has  *)
(* passed its check goes on to write across a block that was made in       *)
(* between.  How a call went is written into its conversation whenever it  *)
(* ends, and looks for no block at all.                                    *)
(*                                                                         *)
(* Opening a conversation looks for one and creates one later.  Fetching   *)
(* messages reads a page, then marks everything in the conversation as     *)
(* read, then answers.                                                     *)
(***************************************************************************)
EXTENDS Naturals, Sequences, FiniteSets

CONSTANTS
  Users,         \* two users
  Requests,      \* requests of theirs that may be in progress at once
  PageSize,      \* messages fetched at a time (30 in the code)
  MaxMessages,   \* bound of the model: messages
  MaxBegun,      \* bound of the model: requests of more than one statement
  MaxFailures    \* bound of the model: requests that fail half-way

ASSUME ConstantsAssumption ==
  /\ IsFiniteSet(Users) /\ Cardinality(Users) = 2
  /\ IsFiniteSet(Requests)
  /\ {PageSize, MaxMessages, MaxBegun, MaxFailures} \subseteq Nat

VARIABLES
  follows,         \* rows of Follow, as <<follower, following>>
  asked,           \* rows of FollowRequest, as <<requester, target>>
  blocks,          \* rows of Block, as <<blocker, blocked>>
  conversations,   \* conversations the two have with each other
  calls,           \* rows of Call, as <<conversation, <<initiator, callee>>>>
  messages,        \* their messages, oldest first
  read,            \* messages whose isRead is set
  shown,           \* messages the recipient got in an answer
  missed,          \* messages a fetch left out, came too late for, or failed to answer with
  request,         \* request[r]: how far it has got
  crossed,         \* rows that requests wrote across the block since it stands
  unsevered,       \* since then, a follow crossed it, or a blockUser failed
  begun,           \* requests begun so far
  failures         \* failures so far

socialVars  == <<follows, asked, blocks>>
messageVars == <<conversations, calls, messages, read, shown, missed>>
vars == <<socialVars, messageVars, request, crossed, unsevered, begun, failures>>

Pairs == {p \in Users \X Users : p[1] # p[2]}
Idle  == [at |-> "idle", pair |-> <<"none", "none">>, in |-> 0, sends |-> FALSE, page |-> {}]

Blocked == blocks # {}

\* What a request does next once it has passed the check for a block.
Passed == {"aim", "follow", "ask", "find", "make", "write", "dial"}

TypeOK ==
  /\ {follows, asked, blocks} \subseteq SUBSET Pairs
  /\ conversations \in Nat
  /\ calls \subseteq (1 .. conversations) \X Pairs
  /\ messages \in Seq([in : 1 .. conversations, from : Users])
  /\ {read, shown, missed} \subseteq SUBSET (1 .. Len(messages))
  /\ request \in [Requests -> [at : {"idle", "sever", "mark", "answer"} \union Passed,
                               pair : Pairs \union {Idle.pair}, in : 0 .. conversations,
                               sends : BOOLEAN, page : SUBSET (1 .. Len(messages))]]
  /\ crossed \in Nat
  /\ unsevered \in BOOLEAN
  /\ {begun, failures} \subseteq Nat

Init ==
  /\ follows = {} /\ asked = {} /\ blocks = {}
  /\ conversations = 0 /\ calls = {}
  /\ messages = <<>>
  /\ read = {} /\ shown = {} /\ missed = {}
  /\ request = [r \in Requests |-> Idle]
  /\ crossed = 0
  /\ unsevered = FALSE
  /\ begun = 0 /\ failures = 0

Goes(r, to)   == request' = [request EXCEPT ![r].at = to]
Stops(r)      == request' = [request EXCEPT ![r] = Idle]
Begins(r, to) ==
  /\ request[r] = Idle
  /\ begun < MaxBegun                        \* bound of the model
  /\ begun' = begun + 1
  /\ request' = [request EXCEPT ![r] = to]

\* A row is written for request r, which passed its check some time ago.
Crosses == crossed' = IF Blocked THEN crossed + 1 ELSE crossed

(***************************************************************************)
(* Follows.                                                                *)
(***************************************************************************)
Follow(r, p) ==
  /\ ~Blocked
  /\ Begins(r, [Idle EXCEPT !.at = "aim", !.pair = p])
  /\ UNCHANGED <<socialVars, messageVars, crossed, unsevered, failures>>

\* A private account is asked, unless it has been; nobody answers such a request.
\* Users change isPrivate as they like, so both answers are possible.
FollowTarget(r, private) ==
  LET p == request[r].pair
  IN /\ request[r].at = "aim"
     /\ IF ~private THEN Goes(r, "follow")
        ELSE IF p \in asked THEN Stops(r)
        ELSE Goes(r, "ask")
     /\ UNCHANGED <<socialVars, messageVars, crossed, unsevered, begun, failures>>

FollowWrite(r) ==
  /\ request[r].at = "follow"
  /\ follows' = follows \union {request[r].pair}
  /\ Crosses
  /\ unsevered' = (unsevered \/ Blocked)
  /\ Stops(r)
  /\ UNCHANGED <<asked, blocks, messageVars, begun, failures>>

\* A second row is refused by the unique index.
FollowAsk(r) ==
  /\ request[r].at = "ask"
  /\ asked' = asked \union {request[r].pair}
  /\ IF request[r].pair \in asked THEN UNCHANGED crossed ELSE Crosses
  /\ Stops(r)
  /\ UNCHANGED <<follows, blocks, messageVars, unsevered, begun, failures>>

\* unfollow, and removeFollow of the admin
Unfollow(p) ==
  /\ p \in follows
  /\ follows' = follows \ {p}
  /\ UNCHANGED <<asked, blocks, messageVars, request, crossed, unsevered, begun, failures>>

(***************************************************************************)
(* Blocks.                                                                 *)
(***************************************************************************)
Block(r, p) ==
  /\ Begins(r, [Idle EXCEPT !.at = "sever", !.pair = p])
  /\ blocks' = blocks \union {p}
  /\ IF Blocked THEN UNCHANGED <<crossed, unsevered>> ELSE crossed' = 0 /\ unsevered' = FALSE
  /\ UNCHANGED <<follows, asked, messageVars, failures>>

\* Mutant: only the blocker's own follow is deleted.
Sever_OneWay(r) ==
  /\ request[r].at = "sever"
  /\ follows' = follows \ {request[r].pair}
  /\ Stops(r)
  /\ UNCHANGED <<asked, blocks, messageVars, crossed, unsevered, begun, failures>>

\* Both follows go.  Requests to follow stay.
Sever(r) ==
  /\ request[r].at = "sever"
  /\ follows' = {}
  /\ Stops(r)
  /\ UNCHANGED <<asked, blocks, messageVars, crossed, unsevered, begun, failures>>

\* unblockUser, and removeBlock of the admin
Unblock(p) ==
  /\ p \in blocks
  /\ blocks' = blocks \ {p}
  /\ UNCHANGED <<follows, asked, messageVars, request, crossed, unsevered, begun, failures>>

(***************************************************************************)
(* Conversations and messages.                                             *)
(***************************************************************************)
\* startWithUser, and send to a recipient
Open(r, p, sends) ==
  /\ ~Blocked
  /\ Begins(r, [Idle EXCEPT !.at = "find", !.pair = p, !.sends = sends])
  /\ UNCHANGED <<socialVars, messageVars, crossed, unsevered, failures>>

\* Mutant: a conversation once open is written to without a check.
Send_Unchecked(r, p, v) ==
  /\ Begins(r, [Idle EXCEPT !.at = "write", !.pair = p, !.in = v, !.sends = TRUE])
  /\ UNCHANGED <<socialVars, messageVars, crossed, unsevered, failures>>

\* send to a conversation
Send(r, p, v) ==
  /\ ~Blocked
  /\ Begins(r, [Idle EXCEPT !.at = "write", !.pair = p, !.in = v, !.sends = TRUE])
  /\ UNCHANGED <<socialVars, messageVars, crossed, unsevered, failures>>

\* Mutant: a conversation is made whether or not there is one.
Find_Makes(r) ==
  /\ request[r].at = "find"
  /\ Goes(r, "make")
  /\ UNCHANGED <<socialVars, messageVars, crossed, unsevered, begun, failures>>

\* findFirst: any of them, if there are several
Find(r) ==
  /\ request[r].at = "find"
  /\ IF conversations = 0 THEN Goes(r, "make")
     ELSE IF ~request[r].sends THEN Stops(r)
     ELSE \E v \in 1 .. conversations :
            request' = [request EXCEPT ![r].at = "write", ![r].in = v]
  /\ UNCHANGED <<socialVars, messageVars, crossed, unsevered, begun, failures>>

Make(r) ==
  /\ request[r].at = "make"
  /\ conversations' = conversations + 1
  /\ request' = [request EXCEPT ![r] = IF @.sends THEN [@ EXCEPT !.at = "write", !.in = conversations']
                                       ELSE Idle]
  /\ UNCHANGED <<socialVars, calls, messages, read, shown, missed, crossed, unsevered, begun, failures>>

Marking(v, u) == \E r \in Requests : request[r].at = "mark" /\ request[r].in = v /\ request[r].pair[1] = u

Posts(v, p) ==
  LET m == Len(messages) + 1
  IN /\ m <= MaxMessages                     \* bound of the model
     /\ messages' = Append(messages, [in |-> v, from |-> p[1]])
     /\ missed' = IF Marking(v, p[2]) THEN missed \union {m} ELSE missed

Write(r) ==
  /\ request[r].at = "write"
  /\ Posts(request[r].in, request[r].pair)
  /\ Crosses
  /\ Stops(r)
  /\ UNCHANGED <<socialVars, conversations, calls, read, shown, unsevered, begun, failures>>

(***************************************************************************)
(* Calls, as far as their conversation is concerned; the rest is in the    *)
(* module Calls.                                                           *)
(***************************************************************************)
\* create: the check for a block, then whether the other is busy, then the room.
Call(r, p, v) ==
  /\ ~Blocked
  /\ Begins(r, [Idle EXCEPT !.at = "dial", !.pair = p, !.in = v])
  /\ UNCHANGED <<socialVars, messageVars, crossed, unsevered, failures>>

CallRefused(r) ==
  /\ request[r].at = "dial"
  /\ Stops(r)
  /\ UNCHANGED <<socialVars, messageVars, crossed, unsevered, begun, failures>>

CallWrite(r) ==
  /\ request[r].at = "dial"
  /\ calls' = calls \union {<<request[r].in, request[r].pair>>}
  /\ Crosses
  /\ Stops(r)
  /\ UNCHANGED <<socialVars, conversations, messages, read, shown, missed, unsevered, begun, failures>>

\* Whoever ends a call, a user, LiveKit or the timer, posts a message of its
\* initiator, with no look at blocks; two who end it at once may post two, and a
\* call that is cancelled has none.
PostCallEventMessage(v, p) ==
  /\ <<v, p>> \in calls
  /\ Posts(v, p)
  /\ UNCHANGED <<socialVars, conversations, calls, read, shown, request, crossed, unsevered, begun, failures>>

(***************************************************************************)
(* Reading.                                                                *)
(***************************************************************************)
\* What user u got from the other in conversation v.
Received(u, v) == {m \in 1 .. Len(messages) : messages[m].in = v /\ messages[m].from # u}

\* getMessages reads a page, the newest or one before a cursor; messages of both
\* fill it.
Fetch(r, p, v) ==
  LET there == {m \in 1 .. Len(messages) : messages[m].in = v}
  IN \E page \in SUBSET there :
       /\ Cardinality(page) <= PageSize
       /\ \A m \in page, n \in there \ page : n < m \/ \A k \in page : k < n
       /\ \/ Cardinality(page) = PageSize
          \/ \A n \in there \ page : \A k \in page : k < n
       /\ Begins(r, [Idle EXCEPT !.at = "mark", !.pair = p, !.in = v, !.page = page])
       /\ missed' = missed \union (Received(p[1], v) \ page)
       /\ UNCHANGED <<socialVars, conversations, calls, messages, read, shown, crossed, unsevered, failures>>

\* Mutant: all conversations of the user are marked.
Mark_All(r) ==
  /\ request[r].at = "mark"
  /\ read' = read \union {m \in 1 .. Len(messages) : messages[m].from # request[r].pair[1]}
  /\ Goes(r, "answer")
  /\ UNCHANGED <<socialVars, conversations, calls, messages, shown, missed, crossed, unsevered, begun, failures>>

\* ... marks all that is unread there, whatever the page ...
Mark(r) ==
  /\ request[r].at = "mark"
  /\ read' = read \union Received(request[r].pair[1], request[r].in)
  /\ Goes(r, "answer")
  /\ UNCHANGED <<socialVars, conversations, calls, messages, shown, missed, crossed, unsevered, begun, failures>>

\* ... and answers.
Answer(r) ==
  /\ request[r].at = "answer"
  /\ shown' = shown \union request[r].page
  /\ Stops(r)
  /\ UNCHANGED <<socialVars, conversations, calls, messages, read, missed, crossed, unsevered, begun, failures>>

\* A statement throws, the process dies, or the answer does not arrive.
RequestFails(r) ==
  /\ request[r] # Idle
  /\ failures < MaxFailures                  \* bound of the model
  /\ failures' = failures + 1
  /\ Stops(r)
  /\ unsevered' = (unsevered \/ request[r].at = "sever")
  /\ missed' = missed \union request[r].page
  /\ UNCHANGED <<socialVars, conversations, calls, messages, read, shown, crossed, begun>>

-------------------------------------------------------------------------------

Proceeds(r) ==
  \/ \E private \in BOOLEAN : FollowTarget(r, private)
  \/ FollowWrite(r) \/ FollowAsk(r) \/ Sever(r)
  \/ Find(r) \/ Make(r) \/ Write(r) \/ CallRefused(r) \/ CallWrite(r)
  \/ Mark(r) \/ Answer(r)
  \/ RequestFails(r)

Starts(r, p) ==
  \/ Follow(r, p) \/ Block(r, p)
  \/ \E sends \in BOOLEAN : Open(r, p, sends)
  \/ \E v \in 1 .. conversations : Send(r, p, v) \/ Call(r, p, v) \/ Fetch(r, p, v)

Next ==
  \/ \E p \in Pairs : Unfollow(p) \/ Unblock(p) \/ \E r \in Requests : Starts(r, p)
  \/ \E p \in Pairs, v \in 1 .. conversations : PostCallEventMessage(v, p)
  \/ \E r \in Requests : Proceeds(r)

Spec == Init /\ [][Next]_vars

(***************************************************************************)
(* Blocks.                                                                 *)
(***************************************************************************)
InFlight == {r \in Requests : request[r].at \in Passed}

\* While a block stands, the follows, requests to follow, messages and calls that
\* users write across it come from requests that were in progress when it was made,
\* one row each: other than the request that made it.  What the API writes about a
\* call that ends is not counted: it is not bounded by a block, only by the calls,
\* and of those the ones made across it are counted here.
CrossingBounded == Blocked => crossed < Cardinality(Requests)

\* Two users between whom a block stands do not follow each other, unless a
\* blocking request is still to delete the follows or failed to, or one of the
\* requests that crossed the block was a follow.
BlockSevers ==
  Blocked /\ follows # {} => unsevered \/ \E r \in Requests : request[r].at = "sever"

(***************************************************************************)
(* Conversations.                                                          *)
(***************************************************************************)
\* Two users have one conversation, and more only from requests that looked for
\* one at the same time.
ConversationsBounded == conversations <= Cardinality(Requests)

\* A message counts as read when its recipient got it, or is about to, or else
\* when a fetch did not return it: it was on another page, arrived between the two
\* statements of the fetch, or the answer was lost.
ReadIsExplained ==
  \A m \in read : \/ m \in shown \union missed
                 \/ \E r \in Requests : request[r].at = "answer" /\ m \in request[r].page
================================================================================

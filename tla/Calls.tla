--------------------------------- MODULE Calls ---------------------------------
(***************************************************************************)
(* One-to-one calls: the call rows, the ring timer (a delayed BullMQ job), *)
(* the LiveKit room of each call and the webhooks LiveKit sends about it.  *)
(*                                                                         *)
(* Every operation on a call reads the row, checks its status and later    *)
(* updates the row by id alone, so operations that overlap overwrite each  *)
(* other.  A slot is one request being served; the single worker of the    *)
(* timeout queue is a slot of its own.  Each action ends at an await.      *)
(*                                                                         *)
(* Left out: socket events and pushes (they change no server state), the   *)
(* block and participant checks, and the time a timer or an empty room     *)
(* waits, which here may be any.  The statuses accepted, busy and failed   *)
(* of the schema are never written.                                        *)
(***************************************************************************)
EXTENDS Naturals, FiniteSets

CONSTANTS
  Users,
  Calls,       \* calls to create, one row each
  Handlers,    \* HTTP, socket and webhook requests served at the same time
  Worker,      \* the worker of the call-timeout queue
  MaxFailures  \* bound on lost processes and swallowed LiveKit errors

ASSUME HandlersAssumption == IsFiniteSet(Handlers) /\ Worker \notin Handlers
ASSUME FailuresAssumption == MaxFailures \in Nat

VARIABLES
  call,      \* the call rows
  answered,  \* history: calls that were active at some time
  creator,   \* where the create request of each call stands
  timer,     \* calls whose ring-timeout job is waiting
  slot,      \* what each request in progress is doing
  room,      \* LiveKit's rooms
  inRoom,    \* who is connected to each room
  ticket,    \* who holds a token for each room
  hooks,     \* webhooks LiveKit has yet to deliver
  notes,     \* the kinds of call_event messages in the conversation
  lost,      \* history: calls whose timer died before it could work
  revivals,  \* history: how often a call that was over was answered
  unheard,   \* history: calls whose room_finished came before the row, or died
  failures   \* how many failures there were so far

liveKitVars == <<room, inRoom, hooks>>
answerVars  == <<answered, revivals>>
lossVars    == <<lost, unheard>>
vars == <<call, answerVars, creator, timer, slot, liveKitVars, ticket, notes, lossVars, failures>>

Slots  == Handlers \union {Worker}
Live   == {"ringing", "active"}
Over   == {"ended", "rejected", "missed"}
Status == {"none"} \union Live \union Over

UserOps == {"accept", "reject", "cancel", "end"}
Events  == {"room_finished", "participant_left"}
Ops     == UserOps \union Events \union {"missed"}

\* Mutant: the webhooks only end a call that still rings.
Admits_OnlyRinging(op) == IF op = "end" THEN Live ELSE {"ringing"}

\* Mutant: any call may be answered.
Admits_AnswersLate(op) ==
  CASE op \in {"end", "room_finished"} -> Live
    [] op = "participant_left"         -> {"active"}
    [] op = "accept"                   -> Live \union Over
    [] OTHER                           -> {"ringing"}

\* The statuses under which each operation goes on after its read.
Admits(op) ==
  CASE op \in {"end", "room_finished"} -> Live
    [] op = "participant_left"         -> {"active"}
    [] OTHER                           -> {"ringing"}

\* The status each operation writes.
Result(op) ==
  CASE op = "accept" -> "active" [] op = "reject" -> "rejected"
    [] op = "missed" -> "missed" [] OTHER         -> "ended"

\* Mutant: the chat message does not depend on whether the call was answered.
Note_Always(op, saw) ==
  CASE op = "reject" -> {"rejected"} [] op = "missed" -> {"missed"}
    [] op \in {"end", "room_finished", "participant_left"} -> {"ended"}
    [] OTHER -> {}

\* The chat message an operation that saw a status leaves behind.
Note(op, saw) ==
  CASE op = "reject" -> {"rejected"} [] op = "missed" -> {"missed"}
    [] op \in {"end", "room_finished", "participant_left"} /\ saw = "active" -> {"ended"}
    [] OTHER -> {}

Idle == [pc |-> "idle"]
Job  == [pc : {"check", "write", "timer", "room", "note"}, op : Ops, call : Calls, saw : Live]
Row  == [status : Status, from : Users, to : Users]

TypeOK ==
  /\ call     \in [Calls -> Row]
  /\ answered \in SUBSET Calls
  /\ creator  \in [Calls -> {"idle", "callee", "room", "row", "timer", "done"}]
  /\ timer    \in SUBSET Calls
  /\ slot     \in [Slots -> {Idle} \union Job]
  /\ room     \in [Calls -> {"none", "open", "closed"}]
  /\ inRoom   \in [Calls -> SUBSET Users]
  /\ ticket   \in [Calls -> SUBSET Users]
  /\ hooks    \in SUBSET (Events \X Calls)
  /\ notes    \in [Calls -> SUBSET {"rejected", "ended", "missed"}]
  /\ lost     \in SUBSET Calls
  /\ revivals \in [Calls -> Nat]
  /\ unheard  \in SUBSET Calls
  /\ failures \in 0..MaxFailures

\* Who calls whom is chosen here, once and for all.
Init ==
  /\ call     \in [Calls -> {r \in Row : r.status = "none" /\ r.from # r.to}]
  /\ answered = {}
  /\ creator  = [c \in Calls |-> "idle"]
  /\ timer    = {}
  /\ slot     = [s \in Slots |-> Idle]
  /\ room     = [c \in Calls |-> "none"]
  /\ inRoom   = [c \in Calls |-> {}]
  /\ ticket   = [c \in Calls |-> {}]
  /\ hooks    = {}
  /\ notes    = [c \in Calls |-> {}]
  /\ lost     = {}
  /\ revivals = [c \in Calls |-> 0]
  /\ unheard  = {}
  /\ failures = 0

Parties(c) == {call[c].from, call[c].to}
Busy(u, S) == \E c \in Calls : call[c].status \in S /\ u \in Parties(c)

Fails == failures < MaxFailures /\ failures' = failures + 1

(***************************************************************************)
(* create: is the caller busy, is the callee busy, open the room, write    *)
(* the row, invite the callee, schedule the timer.                         *)
(***************************************************************************)
Creates(c, from, to) ==
  /\ creator[c] = from
  /\ creator' = [creator EXCEPT ![c] = to]

CreateCheckCaller(c) ==
  /\ ~Busy(call[c].from, Live)
  /\ Creates(c, "idle", "callee")
  /\ UNCHANGED <<call, answerVars, timer, slot, liveKitVars, ticket, notes, lossVars, failures>>

CreateCheckCallee(c) ==
  /\ Creates(c, "callee", IF Busy(call[c].to, Live) THEN "idle" ELSE "room")
  /\ UNCHANGED <<call, answerVars, timer, slot, liveKitVars, ticket, notes, lossVars, failures>>

\* An error of LiveKit is logged and swallowed.
CreateRoom(c) ==
  /\ Creates(c, "room", "row")
  /\ \/ room' = [room EXCEPT ![c] = "open"] /\ UNCHANGED failures
     \/ Fails /\ UNCHANGED room
  /\ UNCHANGED <<call, answerVars, timer, slot, inRoom, ticket, hooks, notes, lossVars>>

\* Mutant: no timer is scheduled.
CreateRow_NoTimer(c) ==
  /\ Creates(c, "row", "done")
  /\ call' = [call EXCEPT ![c].status = "ringing"]
  /\ UNCHANGED <<answerVars, timer, slot, liveKitVars, ticket, notes, lossVars, failures>>

CreateRow(c) ==
  /\ Creates(c, "row", "timer")
  /\ call' = [call EXCEPT ![c].status = "ringing"]
  /\ UNCHANGED <<answerVars, timer, slot, liveKitVars, ticket, notes, lossVars, failures>>

\* The callee was invited before this step and may have answered by now.  The
\* caller gets the token in the response.
ScheduleTimer(c) ==
  /\ Creates(c, "timer", "done")
  /\ timer' = timer \union {c}
  /\ ticket' = [ticket EXCEPT ![c] = @ \union {call[c].from}]
  /\ UNCHANGED <<call, answerVars, slot, liveKitVars, notes, lossVars, failures>>

\* The process dies, or a statement throws: nothing schedules the timer later.
CreateAbort(c) ==
  /\ creator[c] \notin {"idle", "done"}
  /\ creator' = [creator EXCEPT ![c] = "done"]
  /\ lost' = IF creator[c] = "timer" THEN lost \union {c} ELSE lost
  /\ Fails
  /\ UNCHANGED <<call, answerVars, timer, slot, liveKitVars, ticket, notes, unheard>>

(***************************************************************************)
(* accept, reject, cancel, end, the two webhooks and markMissed: read the  *)
(* row and return unless the status admits the operation.                  *)
(***************************************************************************)
Starts(s, op, c) ==
  /\ slot[s] = Idle
  /\ call[c].status \in Admits(op)
  /\ slot' = [slot EXCEPT ![s] = [pc   |-> IF op = "accept" THEN "check" ELSE "write",
                                  op   |-> op,
                                  call |-> c,
                                  saw  |-> call[c].status]]

Request(h, op, c) ==
  /\ Starts(h, op, c)
  /\ UNCHANGED <<call, answerVars, creator, timer, liveKitVars, ticket, notes, lossVars, failures>>

\* The webhook controller answers ok whatever happens, so a webhook is never
\* sent again.
Webhook(h, e, c) ==
  /\ <<e, c>> \in hooks
  /\ hooks' = hooks \ {<<e, c>>}
  /\ \/ Starts(h, e, c)
     \/ call[c].status \notin Admits(e) /\ UNCHANGED slot
  /\ unheard' = IF e = "room_finished" /\ call[c].status = "none"
                THEN unheard \union {c} ELSE unheard
  /\ UNCHANGED <<call, answerVars, creator, timer, room, inRoom, ticket, notes, lost, failures>>

TimerFires(c) ==
  /\ c \in timer
  /\ slot[Worker] = Idle
  /\ timer' = timer \ {c}
  /\ \/ Starts(Worker, "missed", c)
     \/ call[c].status \notin Admits("missed") /\ UNCHANGED slot
  /\ UNCHANGED <<call, answerVars, creator, liveKitVars, ticket, notes, lossVars, failures>>

At(s, pc) == slot[s].pc = pc
MovesTo(s, pc) == slot' = [slot EXCEPT ![s].pc = pc]
Finishes(s) == slot' = [slot EXCEPT ![s] = Idle]

\* Mutant: the timer is cleared before the callee is known to be free.
AcceptCheck_ClearsTimer(s) ==
  /\ At(s, "check")
  /\ timer' = timer \ {slot[s].call}
  /\ IF Busy(call[slot[s].call].to, {"active"}) THEN Finishes(s) ELSE MovesTo(s, "write")
  /\ UNCHANGED <<call, answerVars, creator, liveKitVars, ticket, notes, lossVars, failures>>

\* assertNotInActiveCall, with a read of its own.
AcceptCheck(s) ==
  /\ At(s, "check")
  /\ IF Busy(call[slot[s].call].to, {"active"}) THEN Finishes(s) ELSE MovesTo(s, "write")
  /\ UNCHANGED <<call, answerVars, creator, timer, liveKitVars, ticket, notes, lossVars, failures>>

\* update where id = callId: the status read before is not looked at again.
Write(s) ==
  LET c  == slot[s].call
      op == slot[s].op
  IN /\ At(s, "write")
     /\ call' = [call EXCEPT ![c].status = Result(op)]
     /\ answered' = IF op = "accept" THEN answered \union {c} ELSE answered
     /\ revivals' = IF op = "accept" /\ call[c].status \in Over
                    THEN [revivals EXCEPT ![c] = @ + 1] ELSE revivals
     /\ MovesTo(s, IF op = "missed" THEN "room" ELSE "timer")
     /\ UNCHANGED <<creator, timer, liveKitVars, ticket, notes, lossVars, failures>>

\* accept then mints a token for both and is done.
ClearRingTimer(s) ==
  LET c == slot[s].call
  IN /\ At(s, "timer")
     /\ timer' = timer \ {c}
     /\ IF slot[s].op = "accept"
        THEN /\ ticket' = [ticket EXCEPT ![c] = Parties(c)]
             /\ Finishes(s)
        ELSE /\ MovesTo(s, "room")
             /\ UNCHANGED ticket
     /\ UNCHANGED <<call, answerVars, creator, liveKitVars, notes, lossVars, failures>>

\* LiveKit reports the end of a room and everyone it throws out.
Closes(c) ==
  /\ room' = [room EXCEPT ![c] = "closed"]
  /\ inRoom' = [inRoom EXCEPT ![c] = {}]
  /\ hooks' = hooks \union {<<"room_finished", c>>}
                    \union {<<"participant_left", c>> : u \in inRoom[c]}

NoteOf(s) == Note(slot[s].op, slot[s].saw)

\* Errors are swallowed here, too.
DeleteRoom(s) ==
  LET c == slot[s].call
  IN /\ At(s, "room")
     /\ \/ room[c] = "open" /\ Closes(c) /\ UNCHANGED failures
        \/ room[c] = "open" /\ Fails /\ UNCHANGED liveKitVars
        \/ room[c] # "open" /\ UNCHANGED <<liveKitVars, failures>>
     /\ IF NoteOf(s) = {} THEN Finishes(s) ELSE MovesTo(s, "note")
     /\ UNCHANGED <<call, answerVars, creator, timer, ticket, notes, lossVars>>

PostCallEventMessage(s) ==
  /\ At(s, "note")
  /\ notes' = [notes EXCEPT ![slot[s].call] = @ \union NoteOf(s)]
  /\ Finishes(s)
  /\ UNCHANGED <<call, answerVars, creator, timer, liveKitVars, ticket, lossVars, failures>>

\* A request that dies is not repeated.  A timeout job that dies with its
\* process is stalled and delivered again, one that throws is gone.
Abort(s) ==
  LET c == slot[s].call
  IN /\ ~At(s, "idle")
     /\ Finishes(s)
     /\ IF s = Worker
        THEN \/ timer' = timer \union {c} /\ UNCHANGED lost
             \/ lost' = lost \union {c} /\ UNCHANGED timer
        ELSE UNCHANGED <<timer, lost>>
     /\ unheard' = IF At(s, "write") /\ slot[s].op = "room_finished"
                   THEN unheard \union {c} ELSE unheard
     /\ Fails
     /\ UNCHANGED <<call, answerVars, creator, liveKitVars, ticket, notes>>

\* refreshToken
RefreshToken(c, u) ==
  /\ u \in Parties(c)
  /\ call[c].status \in Live
  /\ ticket' = [ticket EXCEPT ![c] = @ \union {u}]
  /\ UNCHANGED <<call, answerVars, creator, timer, slot, liveKitVars, notes, lossVars, failures>>

(***************************************************************************)
(* LiveKit and the clients.  A token outlives the call, and joining opens  *)
(* a room that does not exist.                                             *)
(***************************************************************************)
Join(c, u) ==
  /\ u \in ticket[c] \ inRoom[c]
  /\ inRoom' = [inRoom EXCEPT ![c] = @ \union {u}]
  /\ room' = [room EXCEPT ![c] = "open"]
  /\ UNCHANGED <<call, answerVars, creator, timer, slot, hooks, ticket, notes, lossVars, failures>>

Leave(c, u) ==
  /\ u \in inRoom[c]
  /\ inRoom' = [inRoom EXCEPT ![c] = @ \ {u}]
  /\ hooks' = hooks \union {<<"participant_left", c>>}
  /\ UNCHANGED <<call, answerVars, creator, timer, slot, room, ticket, notes, lossVars, failures>>

EmptyTimeout(c) ==
  /\ room[c] = "open"
  /\ inRoom[c] = {}
  /\ Closes(c)
  /\ UNCHANGED <<call, answerVars, creator, timer, slot, ticket, notes, lossVars, failures>>

-------------------------------------------------------------------------------

CreateStep(c) ==
  \/ CreateCheckCaller(c)
  \/ CreateCheckCallee(c)
  \/ CreateRoom(c)
  \/ CreateRow(c)
  \/ ScheduleTimer(c)

SlotStep(s) ==
  \/ AcceptCheck(s)
  \/ Write(s)
  \/ ClearRingTimer(s)
  \/ DeleteRoom(s)
  \/ PostCallEventMessage(s)

CallStep(c) ==
  \/ CreateStep(c)
  \/ CreateAbort(c)
  \/ TimerFires(c)
  \/ \E h \in Handlers, op \in UserOps : Request(h, op, c)
  \/ \E h \in Handlers, e \in Events : Webhook(h, e, c)

RoomStep(c) ==
  \/ EmptyTimeout(c)
  \/ \E u \in Users : RefreshToken(c, u) \/ Join(c, u) \/ Leave(c, u)

Next ==
  \/ \E c \in Calls : CallStep(c) \/ RoomStep(c)
  \/ \E s \in Slots : SlotStep(s) \/ Abort(s)

Spec == Init /\ [][Next]_vars

(***************************************************************************)
(* What the code and its surroundings keep doing: a request in progress    *)
(* goes on, BullMQ delivers a due job to its idle worker, LiveKit delivers *)
(* its webhooks (the server takes any number of requests, so a webhook     *)
(* cannot be starved by a slot that is always taken), people hang up, and  *)
(* empty rooms close.                                                      *)
(***************************************************************************)
Fairness ==
  /\ \A c \in Calls : WF_vars(ScheduleTimer(c)) /\ WF_vars(TimerFires(c)) /\ WF_vars(EmptyTimeout(c))
  /\ \A s \in Slots : WF_vars(SlotStep(s))
  /\ \A c \in Calls, e \in Events : SF_vars(\E h \in Handlers : Webhook(h, e, c))
  /\ \A c \in Calls, u \in Users : WF_vars(Leave(c, u))

FairSpec == Spec /\ Fairness

(***************************************************************************)
(* A ringing call always has somebody who will stop it: the create request *)
(* that is about to schedule the timer, the waiting timer, or the worker   *)
(* about to write; a timer that died is the only exception.                *)
(***************************************************************************)
RingingIsGuarded ==
  \A c \in Calls : call[c].status = "ringing" =>
    \/ creator[c] = "timer"
    \/ c \in timer
    \/ c \in lost
    \/ slot[Worker] # Idle /\ slot[Worker].call = c /\ At(Worker, "write")

\* The chat says that a call has ended only if it was answered at some time,
\* whichever of hanging up, the webhooks and the timer come first.
EndedNoteMeansAnswered ==
  \A c \in Calls : "ended" \in notes[c] => c \in answered

\* An answer that is on its way when the call is over brings it back, and a
\* call can be over, answered and over again; but each request in progress does
\* so at most once, for nobody starts to answer a call that does not ring.
RevivalsBounded == \A c \in Calls : revivals[c] <= Cardinality(Handlers)

\* An active call keeps both its users busy.  If its room is gone, LiveKit's
\* webhook is about to end it, unless the call was over once and answered all
\* the same, or the webhook came before the row, or its handler died.
OrphanIsExplained ==
  \A c \in Calls : call[c].status = "active" /\ room[c] = "closed" =>
    \/ <<"room_finished", c>> \in hooks
    \/ \E h \in Handlers : At(h, "write") /\ slot[h].op = "room_finished" /\ slot[h].call = c
    \/ revivals[c] > 0
    \/ c \in unheard

\* No call rings for ever, whatever is answered, refused or hung up meanwhile,
\* as long as nothing fails.
RingingEnds == \A c \in Calls : call[c].status = "ringing" ~> call[c].status # "ringing"

\* A call somebody is connected to ends once people hang up, webhooks being the
\* only way the server learns of it.
ActiveEnds ==
  \A c \in Calls : call[c].status = "active" /\ inRoom[c] # {} ~> call[c].status # "active"

\* calls.spec.ts: "rejects create when callee is busy".  Two creates that check
\* before either writes its row break it.
OneCallPerUser ==
  \A c, d \in Calls :
    call[c].status \in Live /\ call[d].status \in Live /\ Parties(c) \intersect Parties(d) # {}
      => c = d
================================================================================

----------------------------- MODULE Calls_proofs ------------------------------
(***************************************************************************)
(* A ringing call is always guarded by somebody who will stop it, the chat *)
(* reports the end of answered calls only, a call that is over is brought  *)
(* back a bounded number of times, and an active call is not left without  *)
(* its room for no reason.                                                 *)
(***************************************************************************)
EXTENDS Calls, FiniteSetTheorems, TLAPS

\* What the histories are made of is no secret in any proof.
USE DEF answerVars, lossVars

\* A call whose create request has not written the row has no row.
NotYetThere ==
  \A c \in Calls : creator[c] \in {"idle", "callee", "room", "row"} => call[c].status = "none"

\* A request only ever serves a call that has a row.
ServedExists == \A s \in Slots : slot[s] # Idle => call[slot[s].call].status # "none"

\* Once a request has written its result, its call does not ring any more.
WrittenIsSettled ==
  \A s \in Slots :
    slot[s].pc \in {"timer", "room", "note"} => call[slot[s].call].status # "ringing"

\* What is remembered as answered is what was ever seen active.
ActiveIsAnswered ==
  /\ \A c \in Calls : call[c].status = "active" => c \in answered
  /\ \A s \in Slots : slot[s] # Idle => (slot[s].saw = "active" => slot[s].call \in answered)

IInv ==
  /\ TypeOK
  /\ NotYetThere
  /\ ServedExists
  /\ WrittenIsSettled
  /\ RingingIsGuarded

NoteInv == TypeOK /\ ActiveIsAnswered /\ EndedNoteMeansAnswered

-------------------------------------------------------------------------------

\* The result of a request is never "none" or "ringing".
LEMMA ResultSettles ==
  ASSUME NEW op \in Ops
  PROVE  Result(op) \in Status \ {"none", "ringing"}
BY DEF Result, Status, Live, Over, Ops, UserOps, Events

\* Changing the status of one row keeps the type of the table.
LEMMA CallUpdate ==
  ASSUME NEW c \in Calls, NEW st \in Status, call \in [Calls -> Row]
  PROVE  /\ [call EXCEPT ![c].status = st] \in [Calls -> Row]
         /\ [call EXCEPT ![c].status = st][c].status = st
         /\ \A d \in Calls \ {c} : [call EXCEPT ![c].status = st][d] = call[d]
BY DEF Row

\* A slot that is not idle holds a job.
LEMMA Working ==
  ASSUME TypeOK, NEW s \in Slots, slot[s] # Idle
  PROVE  /\ slot[s] \in Job
         /\ slot[s].call \in Calls /\ slot[s].op \in Ops /\ slot[s].saw \in Live
BY DEF TypeOK, Job

\* A slot that stands anywhere but at "idle" holds a job.
LEMMA WorkingAt ==
  ASSUME TypeOK, NEW s \in Slots, slot[s].pc # "idle"
  PROVE  /\ slot[s] # Idle /\ slot[s] \in Job
         /\ slot[s].call \in Calls /\ slot[s].op \in Ops /\ slot[s].saw \in Live
BY DEF TypeOK, Job, Idle

\* Moving a slot to another place keeps the rest of its job.
LEMMA SlotMoves ==
  ASSUME TypeOK, NEW s \in Slots, slot[s].pc # "idle",
         NEW pc \in {"check", "write", "timer", "room", "note"}, MovesTo(s, pc)
  PROVE  /\ slot' \in [Slots -> {Idle} \union Job]
         /\ slot'[s] \in Job /\ slot'[s] # Idle
         /\ slot'[s].pc = pc /\ slot'[s].op = slot[s].op
         /\ slot'[s].call = slot[s].call /\ slot'[s].saw = slot[s].saw
         /\ \A t \in Slots \ {s} : slot'[t] = slot[t]
<1>1. slot[s] \in Job /\ slot \in [Slots -> {Idle} \union Job]
  BY WorkingAt DEF TypeOK
<1>2. slot' = [slot EXCEPT ![s] = [slot[s] EXCEPT !.pc = pc]]
  BY DEF MovesTo
<1>3. [slot[s] EXCEPT !.pc = pc] \in Job
  BY <1>1 DEF Job
<1>4. slot'[s] = [slot[s] EXCEPT !.pc = pc]
  BY <1>1, <1>2
<1>5. slot'[s] # Idle
  BY <1>1, <1>4 DEF Job, Idle
<1> QED
  BY <1>1, <1>2, <1>3, <1>4, <1>5 DEF Job

\* Finishing a slot frees it and leaves the others alone.
LEMMA SlotFinishes ==
  ASSUME TypeOK, NEW s \in Slots, Finishes(s)
  PROVE  /\ slot' \in [Slots -> {Idle} \union Job]
         /\ slot'[s] = Idle
         /\ \A t \in Slots \ {s} : slot'[t] = slot[t]
BY DEF TypeOK, Finishes

\* A request that starts serves a call that has a row, and waits or writes next.
LEMMA SlotStarts ==
  ASSUME TypeOK, NEW s \in Slots, NEW op \in Ops, NEW c \in Calls, Starts(s, op, c)
  PROVE  /\ slot' \in [Slots -> {Idle} \union Job]
         /\ slot[s] = Idle
         /\ slot'[s] \in Job /\ slot'[s] # Idle
         /\ slot'[s].pc = IF op = "accept" THEN "check" ELSE "write"
         /\ slot'[s].op = op /\ slot'[s].call = c
         /\ slot'[s].saw = call[c].status /\ call[c].status \in Live
         /\ \A t \in Slots \ {s} : slot'[t] = slot[t]
<1> DEFINE job == [pc   |-> IF op = "accept" THEN "check" ELSE "write",
                   op   |-> op, call |-> c, saw  |-> call[c].status]
<1>1. call[c].status \in Live
  BY DEF Starts, Admits, Live
<1>2. job \in Job
  BY <1>1 DEF Job
<1>3. slot' = [slot EXCEPT ![s] = job] /\ slot[s] = Idle
  BY DEF Starts
<1>4. slot'[s] = job
  BY <1>3 DEF TypeOK
<1>5. job # Idle
  BY <1>2 DEF Job, Idle
<1> QED
  BY <1>1, <1>2, <1>3, <1>4, <1>5 DEF TypeOK

-------------------------------------------------------------------------------

LEMMA TypeInit == ASSUME Init PROVE TypeOK
<1>1. slot \in [Slots -> {Idle} \union Job]
  BY DEF Init
<1>2. call \in [Calls -> Row]
  BY DEF Init
<1>3. failures \in 0..MaxFailures
  BY FailuresAssumption DEF Init
<1> QED
  BY <1>1, <1>2, <1>3 DEF Init, TypeOK

\* A failure stays within its bound.
LEMMA FailsType == ASSUME TypeOK, Fails PROVE failures' \in 0..MaxFailures
BY FailuresAssumption DEF TypeOK, Fails

\* A room that closes keeps the types of the LiveKit state.
LEMMA ClosesType ==
  ASSUME TypeOK, NEW c \in Calls, Closes(c)
  PROVE  /\ room' \in [Calls -> {"none", "open", "closed"}]
         /\ inRoom' \in [Calls -> SUBSET Users]
         /\ hooks' \in SUBSET (Events \X Calls)
BY DEF TypeOK, Closes, Events

LEMMA NoteType == \A op, saw : Note(op, saw) \in SUBSET {"rejected", "ended", "missed"}
BY DEF Note

\* The create request of a call preserves the types.
LEMMA CreateType ==
  ASSUME TypeOK, NEW c \in Calls, CreateStep(c) \/ CreateAbort(c)
  PROVE  TypeOK'
<1>1. CASE CreateCheckCaller(c)
  BY <1>1 DEF CreateCheckCaller, Creates, TypeOK, liveKitVars
<1>2. CASE CreateCheckCallee(c)
  BY <1>2 DEF CreateCheckCallee, Creates, TypeOK, liveKitVars
<1>3. CASE CreateRoom(c)
  <2>1. failures' \in 0..MaxFailures
    BY <1>3, FailsType DEF CreateRoom, TypeOK
  <2> QED
    BY <1>3, <2>1 DEF CreateRoom, Creates, TypeOK
<1>4. CASE CreateRow(c)
  <2>1. call' \in [Calls -> Row]
    BY <1>4, CallUpdate DEF CreateRow, TypeOK, Status, Live
  <2> QED
    BY <1>4, <2>1 DEF CreateRow, Creates, TypeOK, liveKitVars
<1>5. CASE ScheduleTimer(c)
  <2>1. call[c].from \in Users
    BY DEF TypeOK, Row
  <2> QED
    BY <1>5, <2>1 DEF ScheduleTimer, Creates, TypeOK, liveKitVars
<1>6. CASE CreateAbort(c)
  BY <1>6, FailsType DEF CreateAbort, TypeOK, liveKitVars
<1> QED
  BY <1>1, <1>2, <1>3, <1>4, <1>5, <1>6 DEF CreateStep

\* So does the start of a request, a webhook or the timer's job.
LEMMA StartType ==
  ASSUME TypeOK, NEW c \in Calls,
         \/ TimerFires(c)
         \/ \E h \in Handlers, op \in UserOps : Request(h, op, c)
         \/ \E h \in Handlers, e \in Events : Webhook(h, e, c)
  PROVE  TypeOK'
<1>1. CASE TimerFires(c)
  <2>1. slot' \in [Slots -> {Idle} \union Job]
    BY <1>1, SlotStarts DEF TimerFires, TypeOK, Slots, Ops
  <2> QED
    BY <1>1, <2>1 DEF TimerFires, TypeOK, liveKitVars
<1>2. CASE \E h \in Handlers, op \in UserOps : Request(h, op, c)
  <2>1. PICK h \in Handlers, op \in UserOps : Request(h, op, c)
    BY <1>2
  <2>2. slot' \in [Slots -> {Idle} \union Job]
    BY <2>1, SlotStarts DEF Request, Slots, Ops
  <2> QED
    BY <2>1, <2>2 DEF Request, TypeOK, liveKitVars
<1>3. CASE \E h \in Handlers, e \in Events : Webhook(h, e, c)
  <2>1. PICK h \in Handlers, e \in Events : Webhook(h, e, c)
    BY <1>3
  <2>2. slot' \in [Slots -> {Idle} \union Job]
    BY <2>1, SlotStarts DEF Webhook, TypeOK, Slots, Ops
  <2> QED
    BY <2>1, <2>2 DEF Webhook, TypeOK
<1> QED
  BY <1>1, <1>2, <1>3

\* So does every step of a request that is being served.
LEMMA SlotType ==
  ASSUME TypeOK, NEW s \in Slots, SlotStep(s) \/ Abort(s)
  PROVE  TypeOK'
<1>1. slot[s].pc # "idle"
  BY DEF SlotStep, Abort, At, AcceptCheck, Write, ClearRingTimer, DeleteRoom, PostCallEventMessage
<1>2. /\ slot[s].call \in Calls
      /\ slot[s].op \in Ops
  BY <1>1, WorkingAt
<1>3. slot' \in [Slots -> {Idle} \union Job]
  <2>1. CASE Finishes(s)
    BY <2>1, SlotFinishes
  <2>2. CASE \E pc \in {"check", "write", "timer", "room", "note"} : MovesTo(s, pc)
    BY <1>1, <2>2, SlotMoves
  <2> QED
    BY <2>1, <2>2 DEF SlotStep, Abort, AcceptCheck, Write, ClearRingTimer, DeleteRoom, PostCallEventMessage
<1>4. CASE AcceptCheck(s)
  BY <1>3, <1>4 DEF AcceptCheck, TypeOK, liveKitVars
<1>5. CASE Write(s)
  <2>1. call' \in [Calls -> Row]
    BY <1>2, <1>5, CallUpdate, ResultSettles DEF Write, TypeOK
  <2>2. answered' \in SUBSET Calls
    BY <1>2, <1>5 DEF Write, TypeOK
  <2> QED
    BY <1>3, <1>5, <2>1, <2>2 DEF Write, TypeOK, liveKitVars
<1>6. CASE ClearRingTimer(s)
  <2>1. Parties(slot[s].call) \in SUBSET Users
    BY <1>2 DEF Parties, TypeOK, Row
  <2>2. ticket' \in [Calls -> SUBSET Users]
    BY <1>2, <1>6, <2>1 DEF ClearRingTimer, TypeOK
  <2> QED
    BY <1>2, <1>3, <1>6, <2>2 DEF ClearRingTimer, TypeOK, liveKitVars
<1>7. CASE DeleteRoom(s)
  <2>1. failures' \in 0..MaxFailures
    BY <1>7, FailsType DEF DeleteRoom, TypeOK
  <2>2. /\ room' \in [Calls -> {"none", "open", "closed"}]
        /\ inRoom' \in [Calls -> SUBSET Users]
        /\ hooks' \in SUBSET (Events \X Calls)
    BY <1>2, <1>7, ClosesType DEF DeleteRoom, TypeOK, liveKitVars
  <2> QED
    BY <1>3, <1>7, <2>1, <2>2 DEF DeleteRoom, TypeOK
<1>8. CASE PostCallEventMessage(s)
  <2>1. NoteOf(s) \in SUBSET {"rejected", "ended", "missed"}
    BY NoteType DEF NoteOf
  <2>2. notes' \in [Calls -> SUBSET {"rejected", "ended", "missed"}]
    BY <1>2, <1>8, <2>1 DEF PostCallEventMessage, TypeOK
  <2> QED
    BY <1>3, <1>8, <2>2 DEF PostCallEventMessage, TypeOK, liveKitVars
<1>9. CASE Abort(s)
  BY <1>2, <1>3, <1>9, FailsType DEF Abort, TypeOK, liveKitVars
<1> QED
  BY <1>4, <1>5, <1>6, <1>7, <1>8, <1>9 DEF SlotStep

\* So do LiveKit and the clients.
LEMMA RoomType ==
  ASSUME TypeOK, NEW c \in Calls, RoomStep(c)
  PROVE  TypeOK'
<1>1. CASE EmptyTimeout(c)
  BY <1>1, ClosesType DEF EmptyTimeout, TypeOK
<1>2. ASSUME NEW u \in Users, RefreshToken(c, u) PROVE TypeOK'
  BY <1>2 DEF RefreshToken, TypeOK, liveKitVars
<1>3. ASSUME NEW u \in Users, Join(c, u) PROVE TypeOK'
  BY <1>3 DEF Join, TypeOK
<1>4. ASSUME NEW u \in Users, Leave(c, u) PROVE TypeOK'
  BY <1>4 DEF Leave, TypeOK, Events
<1> QED
  BY <1>1, <1>2, <1>3, <1>4 DEF RoomStep

LEMMA TypeStep == ASSUME TypeOK, [Next]_vars PROVE TypeOK'
<1>1. CASE \E c \in Calls : CallStep(c)
  BY <1>1, CreateType, StartType DEF CallStep
<1>2. CASE \E c \in Calls : RoomStep(c)
  BY <1>2, RoomType
<1>3. CASE \E s \in Slots : SlotStep(s) \/ Abort(s)
  BY <1>3, SlotType
<1>4. CASE UNCHANGED vars
  BY <1>4 DEF vars, liveKitVars, TypeOK
<1> QED
  BY <1>1, <1>2, <1>3, <1>4 DEF Next

\* Every reachable state of the calls is of its type.
THEOREM CallsTypeCorrect == Spec => []TypeOK
<1>1. Init => TypeOK
  BY TypeInit
<1>2. TypeOK /\ [Next]_vars => TypeOK'
  BY TypeStep
<1> QED
  BY <1>1, <1>2, PTL DEF Spec

-------------------------------------------------------------------------------

\* The inductive step for one call's create request.
LEMMA CreateIInv ==
  ASSUME IInv, TypeOK', NEW c \in Calls, CreateStep(c) \/ CreateAbort(c)
  PROVE  IInv'
<1> USE DEF IInv
<1>1. slot' = slot
  BY DEF CreateStep, CreateCheckCaller, CreateCheckCallee, CreateRoom, CreateRow,
         ScheduleTimer, CreateAbort
<1>2. CASE CreateRow(c)
  <2>1. call[c].status = "none" /\ creator' = [creator EXCEPT ![c] = "timer"]
    BY <1>2 DEF CreateRow, Creates, NotYetThere
  <2>2. /\ call'[c].status = "ringing"
        /\ \A d \in Calls \ {c} : call'[d] = call[d]
    BY <1>2, CallUpdate DEF CreateRow, TypeOK, Status, Live
  <2>3. \A s \in Slots : slot[s] # Idle => slot[s].call \in Calls \ {c}
    BY <2>1, Working DEF ServedExists
  <2>4. creator'[c] = "timer" /\ \A d \in Calls \ {c} : creator'[d] = creator[d]
    BY <2>1 DEF TypeOK
  <2>5. NotYetThere'
    BY <2>2, <2>4 DEF NotYetThere
  <2>6. ServedExists' /\ WrittenIsSettled'
    BY <1>1, <2>2, <2>3 DEF ServedExists, WrittenIsSettled, Idle
  <2>7. RingingIsGuarded'
    BY <1>1, <1>2, <2>2, <2>4 DEF RingingIsGuarded, CreateRow, At
  <2> QED
    BY <2>5, <2>6, <2>7
<1>3. CASE call' = call
  <2>1. NotYetThere'
    BY <1>3 DEF NotYetThere, TypeOK, CreateStep, CreateCheckCaller, CreateCheckCallee, CreateRoom,
                CreateRow, ScheduleTimer, CreateAbort, Creates
  <2>2. ServedExists' /\ WrittenIsSettled'
    BY <1>1, <1>3 DEF ServedExists, WrittenIsSettled
  <2>3. \A d \in Calls : creator[d] = "timer" => creator'[d] = "timer" \/ d \in timer' \/ d \in lost'
    BY <1>3 DEF TypeOK, CreateStep, CreateCheckCaller, CreateCheckCallee, CreateRoom,
                CreateRow, ScheduleTimer, CreateAbort, Creates
  <2>4. timer \subseteq timer' /\ lost \subseteq lost'
    BY DEF CreateStep, CreateCheckCaller, CreateCheckCallee, CreateRoom, CreateRow,
           ScheduleTimer, CreateAbort
  <2>5. RingingIsGuarded'
    BY <1>1, <1>3, <2>3, <2>4 DEF RingingIsGuarded, At
  <2> QED
    BY <2>1, <2>2, <2>5
<1> QED
  BY <1>2, <1>3 DEF CreateStep, CreateCheckCaller, CreateCheckCallee, CreateRoom,
                    ScheduleTimer, CreateAbort

\* A handler or the worker that starts serving a call changes no row, and takes
\* the timer of its call only to write, or when the call rings no more.
LEMMA StartIInv ==
  ASSUME IInv, TypeOK', NEW c \in Calls,
         \/ TimerFires(c)
         \/ \E h \in Handlers, op \in UserOps : Request(h, op, c)
         \/ \E h \in Handlers, e \in Events : Webhook(h, e, c)
  PROVE  IInv'
<1> USE DEF IInv
<1>1. call' = call /\ creator' = creator /\ lost' = lost
  BY DEF TimerFires, Request, Webhook
<1>2. NotYetThere'
  BY <1>1 DEF NotYetThere
<1>3. PICK s \in Slots, op \in Ops :
        /\ Starts(s, op, c) \/ slot' = slot
        /\ \/ s = Worker /\ op = "missed" /\ timer' = timer \ {c}
              /\ (slot' = slot => call[c].status # "ringing")
           \/ s # Worker /\ timer' = timer
  <2>1. CASE TimerFires(c)
    <3>1. Starts(Worker, "missed", c) \/ (slot' = slot /\ call[c].status # "ringing")
      BY <2>1 DEF TimerFires, Admits
    <3>2. Starts(Worker, "missed", c) => slot' # slot
      BY SlotStarts DEF Slots, Ops
    <3> QED
      BY <2>1, <3>1, <3>2 DEF TimerFires, Slots, Ops
  <2>2. CASE \E h \in Handlers, o \in UserOps : Request(h, o, c)
    BY <2>2, HandlersAssumption DEF Request, Slots, Ops
  <2>3. CASE \E h \in Handlers, e \in Events : Webhook(h, e, c)
    BY <2>3, HandlersAssumption DEF Webhook, Slots, Ops
  <2> QED
    BY <2>1, <2>2, <2>3
<1>4. CASE Starts(s, op, c)
  <2>1. /\ slot[s] = Idle /\ slot'[s] # Idle
        /\ slot'[s].call = c /\ slot'[s].pc \in {"check", "write"}
        /\ (op = "missed" => slot'[s].pc = "write")
        /\ call[c].status \in Live
        /\ \A t \in Slots \ {s} : slot'[t] = slot[t]
    BY <1>4, SlotStarts
  <2>2. ServedExists'
    BY <1>1, <2>1 DEF ServedExists, Live
  <2>3. WrittenIsSettled'
    BY <1>1, <2>1 DEF WrittenIsSettled
  <2>4. RingingIsGuarded'
    <3>1. CASE s = Worker
      BY <1>1, <1>3, <2>1, <3>1 DEF RingingIsGuarded, At, Idle
    <3>2. CASE s # Worker
      BY <1>1, <1>3, <2>1, <3>2 DEF RingingIsGuarded, At, Slots
    <3> QED
      BY <3>1, <3>2
  <2> QED
    BY <1>2, <2>2, <2>3, <2>4
<1>5. CASE slot' = slot
  <2>1. ServedExists' /\ WrittenIsSettled'
    BY <1>1, <1>5 DEF ServedExists, WrittenIsSettled
  <2>2. RingingIsGuarded'
    BY <1>1, <1>3, <1>5 DEF RingingIsGuarded, At
  <2> QED
    BY <1>2, <2>1, <2>2
<1> QED
  BY <1>3, <1>4, <1>5

\* A step of a request: only a write changes a row, and only a request that has
\* written takes a timer away.
LEMMA SlotIInv ==
  ASSUME IInv, TypeOK', NEW s \in Slots, SlotStep(s) \/ Abort(s)
  PROVE  IInv'
<1> USE DEF IInv
<1> DEFINE c == slot[s].call
<1>1. /\ slot[s].pc # "idle" /\ slot[s] # Idle
      /\ c \in Calls /\ slot[s].op \in Ops
      /\ call[c].status # "none"
  <2>1. slot[s].pc # "idle"
    BY DEF SlotStep, Abort, At, AcceptCheck, Write, ClearRingTimer, DeleteRoom, PostCallEventMessage
  <2> QED
    BY <2>1, WorkingAt DEF ServedExists
<1>2. creator' = creator
  BY DEF SlotStep, Abort, AcceptCheck, Write, ClearRingTimer, DeleteRoom, PostCallEventMessage
<1>3. CASE Write(s)
  <2>1. Result(slot[s].op) \in Status \ {"none", "ringing"}
    BY <1>1, ResultSettles
  <2>2. /\ call'[c].status \notin {"none", "ringing"}
        /\ \A d \in Calls \ {c} : call'[d] = call[d]
    BY <1>1, <1>3, <2>1, CallUpdate DEF Write, TypeOK
  <2>3. /\ slot'[s].call = c /\ slot'[s].pc \in {"room", "timer"} /\ slot'[s] # Idle
        /\ \A t \in Slots \ {s} : slot'[t] = slot[t]
    BY <1>1, <1>3, SlotMoves DEF Write
  <2>4. NotYetThere'
    BY <1>1, <1>2, <2>2 DEF NotYetThere
  <2>5. ServedExists' /\ WrittenIsSettled'
    <3>1. \A t \in Slots : slot[t] # Idle => slot[t].call \in Calls
      BY Working
    <3>2. \A t \in Slots : slot'[t] # Idle => slot[t] # Idle /\ slot'[t].call = slot[t].call
      BY <1>1, <2>3
    <3>3. \A d \in Calls : call[d].status # "none" => call'[d].status # "none"
      BY <2>2
    <3>4. \A d \in Calls : call[d].status # "ringing" => call'[d].status # "ringing"
      BY <2>2
    <3>5. ServedExists'
      BY <3>1, <3>2, <3>3 DEF ServedExists
    <3>6. \A t \in Slots : slot[t].pc \in {"timer", "room", "note"} => slot[t].call \in Calls
      BY <3>1 DEF Idle
    <3>7. WrittenIsSettled'
      BY <2>2, <2>3, <3>4, <3>6 DEF WrittenIsSettled
    <3> QED
      BY <3>5, <3>7
  <2>6. RingingIsGuarded'
    <3>1. \A d \in Calls : call'[d].status = "ringing" => d # c /\ call[d].status = "ringing"
      BY <2>2
    <3>2. slot[Worker].call # c => slot'[Worker] = slot[Worker]
      BY <2>3 DEF Slots
    <3> QED
      BY <1>2, <1>3, <3>1, <3>2 DEF RingingIsGuarded, Write, At
  <2> QED
    BY <2>4, <2>5, <2>6
<1>4. CASE ~Write(s)
  <2>1. call' = call
    BY <1>4 DEF SlotStep, Abort, AcceptCheck, ClearRingTimer, DeleteRoom, PostCallEventMessage
  <2>2. /\ \A t \in Slots \ {s} : slot'[t] = slot[t]
        /\ \/ slot'[s] = Idle
           \/ slot'[s] # Idle /\ slot'[s].call = c
    <3>1. CASE Finishes(s)
      BY <3>1, SlotFinishes
    <3>2. CASE \E pc \in {"check", "write", "timer", "room", "note"} : MovesTo(s, pc)
      BY <1>1, <3>2, SlotMoves
    <3> QED
      BY <1>4, <3>1, <3>2 DEF SlotStep, Abort, AcceptCheck, ClearRingTimer, DeleteRoom,
                              PostCallEventMessage
  <2>3. NotYetThere' /\ ServedExists'
    BY <1>1, <1>2, <2>1, <2>2 DEF NotYetThere, ServedExists
  <2>4. slot'[s].pc \in {"timer", "room", "note"} => slot[s].pc \in {"timer", "room", "note"}
    <3>1. CASE Finishes(s)
      BY <3>1, SlotFinishes DEF Idle
    <3>2. CASE AcceptCheck(s) /\ MovesTo(s, "write")
      BY <1>1, <3>2, SlotMoves
    <3>3. CASE ClearRingTimer(s) \/ DeleteRoom(s)
      BY <3>3 DEF ClearRingTimer, DeleteRoom, At
    <3> QED
      BY <1>4, <3>1, <3>2, <3>3 DEF SlotStep, Abort, AcceptCheck, PostCallEventMessage
  <2>5. WrittenIsSettled'
    BY <2>1, <2>2, <2>4 DEF WrittenIsSettled, Idle
  <2>6. RingingIsGuarded'
    <3>1. CASE ClearRingTimer(s)
      <4>1. call[c].status # "ringing" /\ timer' = timer \ {c} /\ lost' = lost
        BY <3>1 DEF ClearRingTimer, At, WrittenIsSettled
      <4>2. s = Worker => ~At(Worker, "write")
        BY <3>1 DEF ClearRingTimer, At
      <4> QED
        BY <1>2, <2>1, <2>2, <4>1, <4>2 DEF RingingIsGuarded, At, Slots
    <3>2. CASE Abort(s)
      <4>1. timer \subseteq timer' /\ lost \subseteq lost'
        BY <3>2 DEF Abort
      <4>2. s = Worker => c \in timer' \/ c \in lost'
        BY <3>2 DEF Abort
      <4> QED
        BY <1>2, <2>1, <2>2, <4>1, <4>2 DEF RingingIsGuarded, At, Slots
    <3>3. CASE AcceptCheck(s) \/ DeleteRoom(s) \/ PostCallEventMessage(s)
      <4>1. timer' = timer /\ lost' = lost
        BY <3>3 DEF AcceptCheck, DeleteRoom, PostCallEventMessage
      <4>2. s = Worker => ~At(Worker, "write")
        BY <3>3 DEF AcceptCheck, DeleteRoom, PostCallEventMessage, At
      <4> QED
        BY <1>2, <2>1, <2>2, <4>1, <4>2 DEF RingingIsGuarded, At, Slots
    <3> QED
      BY <1>4, <3>1, <3>2, <3>3 DEF SlotStep
  <2> QED
    BY <2>3, <2>5, <2>6
<1> QED
  BY <1>3, <1>4

LEMMA IInvInit == ASSUME Init PROVE IInv
<1>1. TypeOK
  BY TypeInit
<1>2. \A s \in Slots : slot[s] = Idle
  BY DEF Init
<1>3. \A c \in Calls : call[c].status = "none"
  BY DEF Init
<1> QED
  BY <1>1, <1>2, <1>3 DEF IInv, NotYetThere, ServedExists, WrittenIsSettled, RingingIsGuarded, Idle

LEMMA IInvStep == ASSUME IInv, [Next]_vars PROVE IInv'
<1>1. TypeOK'
  BY TypeStep DEF IInv
<1>2. CASE \E c \in Calls : CallStep(c)
  BY <1>1, <1>2, CreateIInv, StartIInv DEF CallStep
<1>3. CASE \E s \in Slots : SlotStep(s) \/ Abort(s)
  BY <1>1, <1>3, SlotIInv
<1>4. CASE UNCHANGED <<call, creator, timer, slot, lost>>
  BY <1>1, <1>4 DEF IInv, NotYetThere, ServedExists, WrittenIsSettled, RingingIsGuarded, At
<1> QED
  BY <1>2, <1>3, <1>4 DEF Next, vars, RoomStep, EmptyTimeout, RefreshToken, Join, Leave

\* A ringing call always has somebody who will stop it: the create request about
\* to schedule its timer, the timer, or the worker about to write; or its timer
\* has died.
THEOREM RingingGuarded == Spec => []RingingIsGuarded
<1>1. Init => IInv
  BY IInvInit
<1>2. IInv /\ [Next]_vars => IInv'
  BY IInvStep
<1>3. IInv => RingingIsGuarded
  BY DEF IInv
<1> QED
  BY <1>1, <1>2, <1>3, PTL DEF Spec

-------------------------------------------------------------------------------

LEMMA EndedNote == \A op, saw : "ended" \in Note(op, saw) => saw = "active"
BY DEF Note

LEMMA AcceptedIsActive == \A op \in Ops : Result(op) = "active" => op = "accept"
BY DEF Result, Ops, UserOps, Events

\* What is known of answered calls is never forgotten, and a row only becomes
\* active in the step that records it.
LEMMA ActiveStep ==
  ASSUME TypeOK, TypeOK', \A c \in Calls : call[c].status = "active" => c \in answered, [Next]_vars
  PROVE  /\ answered \subseteq answered'
         /\ \A c \in Calls : call'[c].status = "active" => c \in answered'
<1>1. CASE \E s \in Slots : Write(s)
  <2>1. PICK s \in Slots : Write(s)
    BY <1>1
  <2>2. slot[s].call \in Calls /\ slot[s].op \in Ops
    BY <2>1, WorkingAt DEF Write, At
  <2>3. /\ call'[slot[s].call].status = Result(slot[s].op)
        /\ \A d \in Calls \ {slot[s].call} : call'[d] = call[d]
    BY <2>1, <2>2, CallUpdate, ResultSettles DEF Write, TypeOK
  <2> QED
    BY <2>1, <2>2, <2>3, AcceptedIsActive DEF Write
<1>2. CASE \E c \in Calls : CreateRow(c)
  <2>1. PICK c \in Calls : CreateRow(c)
    BY <1>2
  <2>2. /\ call'[c].status = "ringing"
        /\ \A d \in Calls \ {c} : call'[d] = call[d]
    BY <2>1, CallUpdate DEF CreateRow, TypeOK, Status, Live
  <2> QED
    BY <2>1, <2>2 DEF CreateRow
<1>3. CASE UNCHANGED <<call, answered>>
  BY <1>3
<1> QED
  BY <1>1, <1>2, <1>3 DEF Next, CallStep, RoomStep, CreateStep, SlotStep, CreateCheckCaller,
     CreateCheckCallee, CreateRoom, ScheduleTimer, CreateAbort, Request, Webhook, TimerFires,
     AcceptCheck, ClearRingTimer, DeleteRoom, PostCallEventMessage, Abort, RefreshToken, Join,
     Leave, EmptyTimeout, vars

\* A request remembers the status it saw from its start to its end.
LEMMA SawStep ==
  ASSUME TypeOK, TypeOK', [Next]_vars, NEW s \in Slots, slot'[s] # Idle
  PROVE  \/ slot[s] # Idle /\ slot'[s].saw = slot[s].saw /\ slot'[s].call = slot[s].call
         \/ /\ slot'[s].call \in Calls
            /\ slot'[s].saw = call[slot'[s].call].status
<1>1. CASE slot'[s] = slot[s]
  BY <1>1
<1>2. CASE slot'[s] # slot[s]
  <2>1. CASE \E t \in Slots, op \in Ops, c \in Calls : Starts(t, op, c)
    BY <1>2, <2>1, SlotStarts
  <2>2. CASE \E t \in Slots : slot[t].pc # "idle" /\ Finishes(t)
    BY <1>2, <2>2, SlotFinishes
  <2>3. CASE \E t \in Slots, pc \in {"check", "write", "timer", "room", "note"} :
               slot[t].pc # "idle" /\ MovesTo(t, pc)
    BY <1>2, <2>3, SlotMoves, WorkingAt
  <2>4. slot' # slot
    BY <1>2
  <2>5. CASE \E c \in Calls : CallStep(c)
    BY <2>1, <2>4, <2>5 DEF CallStep, CreateStep, CreateCheckCaller, CreateCheckCallee, CreateRoom,
       CreateRow, ScheduleTimer, CreateAbort, Request, Webhook, TimerFires, Slots, Ops
  <2>6. CASE \E t \in Slots : SlotStep(t) \/ Abort(t)
    BY <2>2, <2>3, <2>6 DEF SlotStep, Abort, AcceptCheck, Write, ClearRingTimer, DeleteRoom,
       PostCallEventMessage, At
  <2> QED
    BY <2>4, <2>5, <2>6 DEF Next, vars, RoomStep, RefreshToken, Join, Leave, EmptyTimeout
<1> QED
  BY <1>1, <1>2

\* A message that says "ended" is posted by a request that saw the call active.
LEMMA NotesStep ==
  ASSUME TypeOK, [Next]_vars, NEW c \in Calls, "ended" \in notes'[c]
  PROVE  \/ "ended" \in notes[c]
         \/ \E s \in Slots : slot[s] # Idle /\ slot[s].call = c /\ slot[s].saw = "active"
<1>1. CASE \E s \in Slots : PostCallEventMessage(s)
  <2>1. PICK s \in Slots : PostCallEventMessage(s)
    BY <1>1
  <2>2. slot[s] # Idle /\ slot[s].call \in Calls
    BY <2>1, WorkingAt DEF PostCallEventMessage, At
  <2>3. notes' = [notes EXCEPT ![slot[s].call] = @ \union NoteOf(s)]
    BY <2>1 DEF PostCallEventMessage
  <2>4. "ended" \in NoteOf(s) => slot[s].saw = "active"
    BY EndedNote DEF NoteOf
  <2> QED
    BY <2>2, <2>3, <2>4 DEF TypeOK
<1>2. CASE UNCHANGED notes
  BY <1>2
<1> QED
  BY <1>1, <1>2 DEF Next, CallStep, RoomStep, CreateStep, SlotStep, CreateCheckCaller,
     CreateCheckCallee, CreateRoom, CreateRow, ScheduleTimer, CreateAbort, Request, Webhook,
     TimerFires, AcceptCheck, Write, ClearRingTimer, DeleteRoom, Abort, RefreshToken, Join, Leave,
     EmptyTimeout, vars

\* The chat never says that a call has ended which nobody answered.
THEOREM EndedWasAnswered == Spec => []EndedNoteMeansAnswered
<1>1. Init => NoteInv
  <2> SUFFICES ASSUME Init PROVE NoteInv
    OBVIOUS
  <2>1. TypeOK
    BY TypeInit
  <2> QED
    BY <2>1 DEF Init, NoteInv, ActiveIsAnswered, EndedNoteMeansAnswered
<1>2. NoteInv /\ [Next]_vars => NoteInv'
  <2> SUFFICES ASSUME NoteInv, [Next]_vars PROVE NoteInv'
    OBVIOUS
  <2>1. TypeOK /\ TypeOK'
    BY TypeStep DEF NoteInv
  <2>2. /\ answered \subseteq answered'
        /\ \A c \in Calls : call'[c].status = "active" => c \in answered'
    BY <2>1, ActiveStep DEF NoteInv, ActiveIsAnswered
  <2>3. ASSUME NEW s \in Slots, slot'[s] # Idle, slot'[s].saw = "active"
        PROVE  slot'[s].call \in answered'
    BY <2>1, <2>2, <2>3, SawStep DEF NoteInv, ActiveIsAnswered
  <2>4. EndedNoteMeansAnswered'
    BY <2>1, <2>2, NotesStep DEF NoteInv, ActiveIsAnswered, EndedNoteMeansAnswered
  <2> QED
    BY <2>1, <2>2, <2>3, <2>4 DEF NoteInv, ActiveIsAnswered
<1>3. NoteInv => EndedNoteMeansAnswered
  BY DEF NoteInv
<1> QED
  BY <1>1, <1>2, <1>3, PTL DEF Spec
-------------------------------------------------------------------------------

\* The requests about to answer a call.
Answering(c) ==
  {h \in Handlers : /\ slot[h].pc \in {"check", "write"}
                    /\ slot[h].op = "accept" /\ slot[h].call = c}

\* The worker only ever stops a call that rings.
WorkerMisses == slot[Worker] # Idle => slot[Worker].op = "missed"

\* Every answer that brought a call back has used up a request.
RevivalsCounted ==
  \A c \in Calls :
    /\ call[c].status \in {"none", "ringing"} => revivals[c] = 0
    /\ revivals[c] + Cardinality(Answering(c)) <= Cardinality(Handlers)

\* Why a call whose room is gone may not be over.
Explained(c) ==
  \/ <<"room_finished", c>> \in hooks
  \/ \E h \in Handlers : At(h, "write") /\ slot[h].op = "room_finished" /\ slot[h].call = c
  \/ revivals[c] > 0
  \/ c \in unheard

ClosedIsExplained ==
  \A c \in Calls : room[c] = "closed" /\ call[c].status \notin Over => Explained(c)

CameBackInv == IInv /\ WorkerMisses /\ RevivalsCounted /\ ClosedIsExplained

\* What a step does to the slots: nothing, or one starts, moves on, or finishes.
LEMMA SlotsStep ==
  ASSUME TypeOK, [Next]_vars
  PROVE  \/ slot' = slot
         \/ \E c \in Calls : Starts(Worker, "missed", c)
         \/ \E h \in Handlers, op \in UserOps \union Events, c \in Calls : Starts(h, op, c)
         \/ \E s \in Slots : slot[s].pc # "idle" /\ Finishes(s)
         \/ \E s \in Slots : slot[s].pc = "check" /\ MovesTo(s, "write")
         \/ \E s \in Slots, pc \in {"timer", "room", "note"} : slot[s].pc # "idle" /\ MovesTo(s, pc)
<1>1. CASE \E c \in Calls : CallStep(c)
  BY <1>1 DEF CallStep, CreateStep, CreateCheckCaller, CreateCheckCallee, CreateRoom,
     CreateRow, ScheduleTimer, CreateAbort, Request, Webhook, TimerFires
<1>2. CASE \E s \in Slots : SlotStep(s) \/ Abort(s)
  BY <1>2 DEF SlotStep, Abort, AcceptCheck, Write, ClearRingTimer, DeleteRoom,
     PostCallEventMessage, At
<1>3. CASE UNCHANGED slot
  BY <1>3
<1> QED
  BY <1>1, <1>2, <1>3 DEF Next, vars, RoomStep, RefreshToken, Join, Leave, EmptyTimeout

\* What a step does to the rows: nothing, or a create or a request writes one.
LEMMA RowsStep ==
  ASSUME TypeOK, [Next]_vars
  PROVE  \/ call' = call /\ revivals' = revivals
         \/ \E c \in Calls : CreateRow(c)
         \/ \E s \in Slots : Write(s)
BY DEF Next, CallStep, RoomStep, CreateStep, SlotStep, CreateCheckCaller, CreateCheckCallee,
   CreateRoom, ScheduleTimer, CreateAbort, Request, Webhook, TimerFires, AcceptCheck,
   ClearRingTimer, DeleteRoom, PostCallEventMessage, Abort, RefreshToken, Join, Leave,
   EmptyTimeout, vars

\* A request that wrote has settled its row; what it brought back is counted.
LEMMA WriteStep ==
  ASSUME TypeOK, NEW s \in Slots, Write(s)
  PROVE  LET c == slot[s].call
         IN /\ c \in Calls /\ slot[s] # Idle /\ slot[s].pc = "write"
            /\ call'[c].status = Result(slot[s].op)
            /\ call'[c].status \in Status \ {"none", "ringing"}
            /\ \A d \in Calls \ {c} : call'[d] = call[d] /\ revivals'[d] = revivals[d]
            /\ slot[s].op = "accept" /\ call[c].status \in Over => revivals'[c] = revivals[c] + 1
            /\ ~(slot[s].op = "accept" /\ call[c].status \in Over) => revivals'[c] = revivals[c]
            /\ slot'[s] # Idle /\ slot'[s].pc \in {"timer", "room"}
            /\ \A t \in Slots \ {s} : slot'[t] = slot[t]
<1> DEFINE c == slot[s].call
<1>1. slot[s].pc = "write"
  BY DEF Write, At
<1>2. slot[s] # Idle /\ c \in Calls /\ slot[s].op \in Ops
  BY <1>1, WorkingAt
<1>3. Result(slot[s].op) \in Status \ {"none", "ringing"}
  BY <1>2, ResultSettles
<1>4. /\ call'[c].status = Result(slot[s].op)
      /\ \A d \in Calls \ {c} : call'[d] = call[d]
  BY <1>2, <1>3, CallUpdate DEF Write, TypeOK
<1>5. /\ \A d \in Calls \ {c} : revivals'[d] = revivals[d]
      /\ slot[s].op = "accept" /\ call[c].status \in Over => revivals'[c] = revivals[c] + 1
      /\ ~(slot[s].op = "accept" /\ call[c].status \in Over) => revivals'[c] = revivals[c]
  BY <1>2 DEF Write, TypeOK
<1>6. /\ slot'[s] # Idle /\ slot'[s].pc \in {"timer", "room"}
      /\ \A t \in Slots \ {s} : slot'[t] = slot[t]
  BY <1>1, SlotMoves DEF Write
<1> QED
  BY <1>1, <1>2, <1>3, <1>4, <1>5, <1>6

LEMMA CreateRowStep ==
  ASSUME TypeOK, NotYetThere, NEW c \in Calls, CreateRow(c)
  PROVE  /\ call[c].status = "none" /\ call'[c].status = "ringing"
         /\ \A d \in Calls \ {c} : call'[d] = call[d]
         /\ revivals' = revivals
<1>1. call'[c].status = "ringing" /\ \A d \in Calls \ {c} : call'[d] = call[d]
  BY CallUpdate DEF CreateRow, TypeOK, Status, Live
<1> QED
  BY <1>1 DEF CreateRow, Creates, NotYetThere

-------------------------------------------------------------------------------

LEMMA MissesStep ==
  ASSUME TypeOK, WorkerMisses, [Next]_vars
  PROVE  WorkerMisses'
<1>1. Worker \in Slots /\ \A h \in Handlers : h # Worker
  BY HandlersAssumption DEF Slots
<1>2. CASE slot' = slot
  BY <1>2 DEF WorkerMisses
<1>3. ASSUME NEW c \in Calls, Starts(Worker, "missed", c) PROVE WorkerMisses'
  BY <1>1, <1>3, SlotStarts DEF WorkerMisses, Ops
<1>4. ASSUME NEW h \in Handlers, NEW op \in UserOps \union Events, NEW c \in Calls, Starts(h, op, c)
      PROVE  WorkerMisses'
  BY <1>1, <1>4, SlotStarts DEF WorkerMisses, Ops, Slots
<1>5. ASSUME NEW s \in Slots, Finishes(s) PROVE WorkerMisses'
  BY <1>1, <1>5, SlotFinishes DEF WorkerMisses
<1>6. ASSUME NEW s \in Slots, slot[s].pc # "idle",
             NEW pc \in {"check", "write", "timer", "room", "note"}, MovesTo(s, pc)
      PROVE  WorkerMisses'
  BY <1>1, <1>6, SlotMoves, WorkingAt DEF WorkerMisses
<1> QED
  BY <1>2, <1>3, <1>4, <1>5, <1>6, SlotsStep

\* Nobody begins to answer a call that does not ring.
LEMMA AnsweringStep ==
  ASSUME TypeOK, [Next]_vars, NEW c \in Calls, call[c].status # "ringing"
  PROVE  Answering(c)' \subseteq Answering(c)
<1> SUFFICES ASSUME NEW h \in Handlers, slot'[h].pc \in {"check", "write"},
                    slot'[h].op = "accept", slot'[h].call = c
             PROVE  h \in Answering(c)
  BY DEF Answering
<1>1. h \in Slots
  BY DEF Slots
<1>2. CASE slot'[h] = slot[h]
  BY <1>2 DEF Answering
<1>3. ASSUME NEW s \in Slots, NEW op \in Ops, NEW d \in Calls, Starts(s, op, d)
      PROVE  h \in Answering(c)
  <2>1. s = h => slot'[h].op = op /\ slot'[h].call = d
    BY <1>3, SlotStarts
  <2>2. s # h => slot'[h] = slot[h]
    BY <1>1, <1>3, SlotStarts
  <2>3. op = "accept" => call[d].status = "ringing"
    BY <1>3 DEF Starts, Admits
  <2> QED
    BY <1>2, <2>1, <2>2, <2>3
<1>4. ASSUME NEW s \in Slots, Finishes(s) PROVE h \in Answering(c)
  BY <1>1, <1>2, <1>4, SlotFinishes DEF Idle
<1>5. ASSUME NEW s \in Slots, slot[s].pc = "check", MovesTo(s, "write")
      PROVE  h \in Answering(c)
  BY <1>1, <1>2, <1>5, SlotMoves DEF Answering
<1>6. ASSUME NEW s \in Slots, slot[s].pc # "idle", NEW pc \in {"timer", "room", "note"}, MovesTo(s, pc)
      PROVE  h \in Answering(c)
  BY <1>1, <1>2, <1>6, SlotMoves
<1> QED
  BY <1>2, <1>3, <1>4, <1>5, <1>6, SlotsStep DEF Slots, Ops

\* A call that is brought back uses up one of the requests about to answer it.
LEMMA RevivalsStep ==
  ASSUME CameBackInv, [Next]_vars, NEW c \in Calls
  PROVE  \/ /\ call'[c].status \in {"none", "ringing"} /\ call[c].status \in {"none", "ringing"}
            /\ revivals'[c] = revivals[c]
         \/ /\ call'[c].status \notin {"none", "ringing"}
            /\ revivals'[c] = revivals[c]
         \/ /\ call'[c].status \notin {"none", "ringing"}
            /\ call[c].status # "ringing"
            /\ revivals'[c] = revivals[c] + 1
            /\ \E h \in Answering(c) : h \notin Answering(c)'
<1>0. TypeOK /\ NotYetThere /\ WorkerMisses
  BY DEF CameBackInv, IInv
<1>1. CASE call' = call /\ revivals' = revivals
  BY <1>1
<1>2. ASSUME NEW k \in Calls, CreateRow(k)
      PROVE  /\ revivals'[c] = revivals[c]
             /\ \/ call'[c] = call[c]
                \/ call'[c].status = "ringing" /\ call[c].status = "none"
  BY <1>0, <1>2, CreateRowStep
<1>3. ASSUME NEW s \in Slots, Write(s), slot[s].call = c,
             slot[s].op = "accept", call[c].status \in Over
      PROVE  /\ call'[c].status \notin {"none", "ringing"} /\ call[c].status # "ringing"
             /\ revivals'[c] = revivals[c] + 1
             /\ \E h \in Answering(c) : h \notin Answering(c)'
  <2>1. /\ slot[s] # Idle /\ slot[s].pc = "write" /\ slot'[s].pc \in {"timer", "room"}
        /\ call'[c].status \notin {"none", "ringing"} /\ revivals'[c] = revivals[c] + 1
    BY <1>0, <1>3, WriteStep
  <2>2. s \in Handlers
    BY <1>0, <1>3, <2>1 DEF WorkerMisses, Slots
  <2>3. s \in Answering(c) /\ s \notin Answering(c)'
    BY <1>3, <2>1, <2>2 DEF Answering
  <2>4. call[c].status # "ringing"
    BY <1>3 DEF Over
  <2> QED
    BY <2>1, <2>3, <2>4
<1>4. ASSUME NEW s \in Slots, Write(s),
             ~(slot[s].call = c /\ slot[s].op = "accept" /\ call[c].status \in Over)
      PROVE  \/ call'[c] = call[c] /\ revivals'[c] = revivals[c]
             \/ call'[c].status \notin {"none", "ringing"} /\ revivals'[c] = revivals[c]
  BY <1>0, <1>4, WriteStep
<1> QED
  BY <1>0, <1>1, <1>2, <1>3, <1>4, RowsStep

LEMMA CountedStep ==
  ASSUME CameBackInv, TypeOK', [Next]_vars
  PROVE  RevivalsCounted'
<1> SUFFICES ASSUME NEW c \in Calls
             PROVE  /\ call'[c].status \in {"none", "ringing"} => revivals'[c] = 0
                    /\ revivals'[c] + Cardinality(Answering(c)') <= Cardinality(Handlers)
  BY DEF RevivalsCounted
<1>1. TypeOK /\ revivals[c] \in Nat /\ revivals'[c] \in Nat
  BY DEF CameBackInv, IInv, TypeOK
<1>2. /\ call[c].status \in {"none", "ringing"} => revivals[c] = 0
      /\ revivals[c] + Cardinality(Answering(c)) <= Cardinality(Handlers)
  BY DEF CameBackInv, RevivalsCounted
<1>3. /\ Answering(c) \subseteq Handlers /\ Answering(c)' \subseteq Handlers
      /\ IsFiniteSet(Handlers)
  BY HandlersAssumption DEF Answering
<1>4. /\ IsFiniteSet(Answering(c)) /\ IsFiniteSet(Answering(c)')
      /\ Cardinality(Answering(c)) \in Nat /\ Cardinality(Answering(c)') \in Nat
      /\ Cardinality(Handlers) \in Nat
      /\ Cardinality(Answering(c)') <= Cardinality(Handlers)
  BY <1>3, FS_Subset, FS_CardinalityType
<1>5. CASE revivals'[c] = 0
  BY <1>4, <1>5
<1>6. CASE revivals'[c] = revivals[c] /\ call'[c].status \notin {"none", "ringing"} /\ revivals[c] > 0
  <2>1. call[c].status # "ringing"
    BY <1>2, <1>6
  <2>2. Cardinality(Answering(c)') <= Cardinality(Answering(c))
    BY <1>1, <1>4, <2>1, AnsweringStep, FS_Subset
  <2> QED
    BY <1>1, <1>2, <1>4, <1>6, <2>2
<1>7. ASSUME call'[c].status \notin {"none", "ringing"}, call[c].status # "ringing",
             revivals'[c] = revivals[c] + 1,
             NEW h \in Answering(c), h \notin Answering(c)'
      PROVE  revivals'[c] + Cardinality(Answering(c)') <= Cardinality(Handlers)
  <2>1. Answering(c)' \subseteq Answering(c) \ {h}
    BY <1>1, <1>7, AnsweringStep
  <2>2. IsFiniteSet(Answering(c) \ {h}) /\ Cardinality(Answering(c) \ {h}) = Cardinality(Answering(c)) - 1
    BY <1>4, <1>7, FS_RemoveElement
  <2>3. Cardinality(Answering(c)') <= Cardinality(Answering(c)) - 1
    BY <2>1, <2>2, FS_Subset
  <2> QED
    BY <1>1, <1>2, <1>4, <1>7, <2>3
<1> QED
  BY <1>1, <1>2, <1>5, <1>6, <1>7, RevivalsStep

\* An explanation lasts: a webhook is only taken by a handler that will end the
\* call, or before the row is there, and that handler ends it or dies.
LEMMA HookStep ==
  ASSUME TypeOK, [Next]_vars, NEW c \in Calls, <<"room_finished", c>> \in hooks
  PROVE  \/ <<"room_finished", c>> \in hooks'
         \/ \E h \in Handlers : Webhook(h, "room_finished", c)
<1>1. ASSUME NEW h \in Handlers, NEW e \in Events, NEW d \in Calls, Webhook(h, e, d),
             <<e, d>> # <<"room_finished", c>>
      PROVE  <<"room_finished", c>> \in hooks'
  BY <1>1 DEF Webhook
<1>2. CASE hooks \subseteq hooks'
  BY <1>2
<1>3. CASE \E d \in Calls : CallStep(d)
  BY <1>1, <1>2, <1>3 DEF CallStep, CreateStep, CreateCheckCaller, CreateCheckCallee, CreateRoom,
     CreateRow, ScheduleTimer, CreateAbort, Request, TimerFires, liveKitVars
<1>4. CASE \E d \in Calls : RoomStep(d)
  BY <1>2, <1>4 DEF RoomStep, RefreshToken, Join, Leave, EmptyTimeout, Closes, liveKitVars
<1>5. CASE \E s \in Slots : SlotStep(s) \/ Abort(s)
  BY <1>2, <1>5 DEF SlotStep, Abort, AcceptCheck, Write, ClearRingTimer, DeleteRoom,
     PostCallEventMessage, Closes, liveKitVars
<1> QED
  BY <1>2, <1>3, <1>4, <1>5 DEF Next, vars, liveKitVars

LEMMA EndingStep ==
  ASSUME TypeOK, [Next]_vars, NEW h \in Handlers,
         At(h, "write"), slot[h].op = "room_finished"
  PROVE  \/ slot'[h] = slot[h]
         \/ Write(h)
         \/ slot[h].call \in unheard'
<1>1. h \in Slots /\ slot[h].pc = "write"
  BY DEF Slots, At
<1>2. slot[h] # Idle /\ slot[h].call \in Calls
  BY <1>1, WorkingAt
<1>3. CASE \E c \in Calls : CallStep(c)
  <2>1. \/ slot' = slot
        \/ \E s \in Slots, op \in Ops, c \in Calls : Starts(s, op, c)
    BY <1>3 DEF CallStep, CreateStep, CreateCheckCaller, CreateCheckCallee, CreateRoom,
       CreateRow, ScheduleTimer, CreateAbort, Request, Webhook, TimerFires, Slots, Ops
  <2> QED
    BY <1>1, <1>2, <2>1, SlotStarts
<1>4. ASSUME NEW s \in Slots, SlotStep(s) \/ Abort(s), s # h PROVE slot'[h] = slot[h]
  <2>1. \/ Finishes(s)
        \/ \E pc \in {"check", "write", "timer", "room", "note"} : slot[s].pc # "idle" /\ MovesTo(s, pc)
    BY <1>4 DEF SlotStep, Abort, AcceptCheck, Write, ClearRingTimer, DeleteRoom,
       PostCallEventMessage, At
  <2> QED
    BY <1>1, <1>4, <2>1, SlotFinishes, SlotMoves
<1>5. CASE SlotStep(h) \/ Abort(h)
  BY <1>1, <1>2, <1>5 DEF SlotStep, Abort, AcceptCheck, ClearRingTimer, DeleteRoom,
     PostCallEventMessage, At
<1>6. CASE UNCHANGED slot
  BY <1>6
<1> QED
  BY <1>3, <1>4, <1>5, <1>6 DEF Next, vars, RoomStep, RefreshToken, Join, Leave, EmptyTimeout

LEMMA UnheardStep == ASSUME [Next]_vars PROVE unheard \subseteq unheard'
BY DEF Next, CallStep, RoomStep, CreateStep, SlotStep, CreateCheckCaller, CreateCheckCallee,
   CreateRoom, CreateRow, ScheduleTimer, CreateAbort, Request, Webhook, TimerFires, AcceptCheck,
   Write, ClearRingTimer, DeleteRoom, PostCallEventMessage, Abort, RefreshToken, Join, Leave,
   EmptyTimeout, vars

\* A room that closes reports it.
LEMMA ClosedStep ==
  ASSUME TypeOK, [Next]_vars, NEW c \in Calls, room'[c] = "closed"
  PROVE  room[c] = "closed" \/ <<"room_finished", c>> \in hooks'
<1>1. ASSUME NEW d \in Calls, Closes(d)
      PROVE  room[c] = "closed" \/ <<"room_finished", c>> \in hooks'
  BY <1>1 DEF Closes, TypeOK
<1>2. CASE room' = room
  BY <1>2
<1>3. CASE \E d \in Calls : CallStep(d)
  BY <1>2, <1>3 DEF CallStep, CreateStep, CreateCheckCaller, CreateCheckCallee, CreateRoom,
     CreateRow, ScheduleTimer, CreateAbort, Request, Webhook, TimerFires, liveKitVars, TypeOK
<1>4. CASE \E d \in Calls : RoomStep(d)
  BY <1>1, <1>2, <1>4 DEF RoomStep, RefreshToken, Join, Leave, EmptyTimeout, liveKitVars, TypeOK
<1>5. ASSUME NEW s \in Slots, SlotStep(s) \/ Abort(s)
      PROVE  room[c] = "closed" \/ <<"room_finished", c>> \in hooks'
  <2>1. DeleteRoom(s) => slot[s].call \in Calls
    BY WorkingAt DEF DeleteRoom, At
  <2> QED
    BY <1>1, <1>2, <1>5, <2>1 DEF SlotStep, Abort, AcceptCheck, Write, ClearRingTimer, DeleteRoom,
       PostCallEventMessage, liveKitVars
<1> QED
  BY <1>2, <1>3, <1>4, <1>5 DEF Next, vars, liveKitVars

LEMMA ExplainedStep ==
  ASSUME CameBackInv, TypeOK', [Next]_vars
  PROVE  ClosedIsExplained'
<1> SUFFICES ASSUME NEW c \in Calls, room'[c] = "closed", call'[c].status \notin Over
             PROVE  Explained(c)'
  BY DEF ClosedIsExplained
<1>0. TypeOK /\ NotYetThere
  BY DEF CameBackInv, IInv
<1>1. revivals[c] \in Nat /\ revivals'[c] >= revivals[c]
  BY <1>0, RevivalsStep DEF TypeOK
<1>2. CASE <<"room_finished", c>> \in hooks'
  BY <1>2 DEF Explained
<1>3. CASE room[c] = "closed" /\ call[c].status \in Over
  <2>1. PICK s \in Slots : Write(s) /\ slot[s].call = c
    <3>1. call'[c] # call[c]
      BY <1>3
    <3>2. \A d \in Calls : CreateRow(d) => call'[c] = call[c] \/ call[c].status = "none"
      BY <1>0, CreateRowStep
    <3>3. \A s \in Slots : Write(s) /\ slot[s].call # c => call'[c] = call[c]
      BY <1>0, WriteStep
    <3> QED
      BY <1>0, <1>3, <3>1, <3>2, <3>3, RowsStep DEF Over
  <2>2. slot[s].op \in Ops /\ call'[c].status = Result(slot[s].op)
    BY <1>0, <2>1, WriteStep, WorkingAt DEF Write, At
  <2>3. Result(slot[s].op) \in Over \/ slot[s].op = "accept"
    BY <2>2 DEF Result, Ops, UserOps, Events, Over
  <2>4. revivals'[c] = revivals[c] + 1
    BY <1>0, <1>3, <2>1, <2>2, <2>3, WriteStep
  <2> QED
    BY <1>1, <2>4 DEF Explained
<1>4. CASE room[c] = "closed" /\ call[c].status \notin Over
  <2>1. Explained(c)
    BY <1>4 DEF CameBackInv, ClosedIsExplained
  <2>2. ASSUME NEW h \in Handlers, Webhook(h, "room_finished", c) PROVE Explained(c)'
    <3>1. CASE call[c].status = "none"
      BY <2>2, <3>1 DEF Webhook, Explained
    <3>2. CASE call[c].status # "none"
      <4>1. call[c].status \in Admits("room_finished")
        BY <1>0, <1>4, <3>2 DEF Admits, TypeOK, Row, Status
      <4>2. Starts(h, "room_finished", c)
        BY <2>2, <4>1 DEF Webhook
      <4>3. slot'[h].pc = "write" /\ slot'[h].op = "room_finished" /\ slot'[h].call = c
        BY <1>0, <4>2, SlotStarts DEF Slots, Ops, Events
      <4> QED
        BY <4>3 DEF Explained, At
    <3> QED
      BY <3>1, <3>2
  <2>3. ASSUME NEW h \in Handlers, At(h, "write"), slot[h].op = "room_finished", slot[h].call = c
        PROVE  Explained(c)'
    <3>1. ~Write(h)
      <4>1. Write(h) => call'[c].status = Result("room_finished")
        BY <1>0, <2>3, WriteStep DEF Slots
      <4> QED
        BY <4>1 DEF Result, Over
    <3>2. slot'[h] = slot[h] \/ c \in unheard'
      BY <1>0, <2>3, <3>1, EndingStep
    <3> QED
      BY <2>3, <3>2 DEF Explained, At
  <2>4. CASE revivals[c] > 0
    BY <1>1, <2>4 DEF Explained, TypeOK
  <2>5. CASE c \in unheard
    BY <2>5, UnheardStep DEF Explained
  <2> QED
    BY <1>0, <1>2, <2>1, <2>2, <2>3, <2>4, <2>5, HookStep DEF Explained
<1> QED
  BY <1>0, <1>2, <1>3, <1>4, ClosedStep

-------------------------------------------------------------------------------

LEMMA CameBackInit == ASSUME Init PROVE CameBackInv
<1>1. IInv
  BY IInvInit
<1>2. Worker \in Slots /\ \A h \in Handlers : h \in Slots
  BY DEF Slots
<1>3. WorkerMisses
  BY <1>2 DEF Init, WorkerMisses
<1>4. \A c \in Calls : room[c] # "closed"
  BY DEF Init
<1>5. \A c \in Calls : Answering(c) = {} /\ revivals[c] = 0
  BY <1>2 DEF Init, Answering, Idle
<1>6. RevivalsCounted
  <2>1. Cardinality(Handlers) \in Nat
    BY FS_CardinalityType, HandlersAssumption
  <2>2. Cardinality({}) = 0
    BY FS_EmptySet
  <2> QED
    BY <1>5, <2>1, <2>2 DEF RevivalsCounted
<1> QED
  BY <1>1, <1>3, <1>4, <1>6 DEF CameBackInv, ClosedIsExplained

LEMMA CameBackStep == ASSUME CameBackInv, [Next]_vars PROVE CameBackInv'
<1>1. TypeOK /\ IInv /\ WorkerMisses
  BY DEF CameBackInv, IInv
<1>2. IInv' /\ TypeOK'
  BY <1>1, IInvStep, TypeStep
<1> QED
  BY <1>1, <1>2, MissesStep, CountedStep, ExplainedStep DEF CameBackInv

\* A call that is over comes back at most once for each request that can be in
\* progress, however answers, hang-ups, webhooks and the timer overlap.
THEOREM FewRevivals == Spec => []RevivalsBounded
<1>1. Init => CameBackInv
  BY CameBackInit
<1>2. CameBackInv /\ [Next]_vars => CameBackInv'
  BY CameBackStep
<1>3. CameBackInv => RevivalsBounded
  <2> SUFFICES ASSUME CameBackInv, NEW c \in Calls PROVE revivals[c] <= Cardinality(Handlers)
    BY DEF RevivalsBounded
  <2>1. revivals[c] \in Nat /\ revivals[c] + Cardinality(Answering(c)) <= Cardinality(Handlers)
    BY DEF CameBackInv, IInv, TypeOK, RevivalsCounted
  <2>2. Cardinality(Answering(c)) \in Nat /\ Cardinality(Handlers) \in Nat
    BY HandlersAssumption, FS_Subset, FS_CardinalityType DEF Answering
  <2> QED
    BY <2>1, <2>2
<1> QED
  BY <1>1, <1>2, <1>3, PTL DEF Spec

\* An active call whose room is gone is about to be ended by the webhook, or was
\* answered after it was over, or its webhook came too early or died.
THEOREM OrphansExplained == Spec => []OrphanIsExplained
<1>1. Init => CameBackInv
  BY CameBackInit
<1>2. CameBackInv /\ [Next]_vars => CameBackInv'
  BY CameBackStep
<1>3. CameBackInv => OrphanIsExplained
  BY DEF CameBackInv, ClosedIsExplained, Explained, OrphanIsExplained, Over
<1> QED
  BY <1>1, <1>2, <1>3, PTL DEF Spec
================================================================================

------------------------------- MODULE OtpLogin --------------------------------
(***************************************************************************)
(* Signing in with a code sent by SMS (AuthService.sendOtp and verifyOtp), *)
(* for one phone number.                                                   *)
(*                                                                         *)
(* Several requests for codes and several attempts to use one may run at   *)
(* once; each is cut at its calls to Redis and to the database.  Codes are *)
(* numbered in the order their rows are created, so the row findFirst      *)
(* selects is the live one with the largest number.                        *)
(***************************************************************************)
EXTENDS Naturals, FiniteSets

CONSTANTS
  Senders,       \* requests for a code that may run at once
  Guessers,      \* attempts that may run at once
  RateLimit,     \* OTP_RATE_LIMIT
  MaxAttempts,   \* OTP_MAX_ATTEMPTS
  MaxCodes,      \* bound of the model: codes ever created
  MaxFailures    \* bound of the model: requests that die

ASSUME ConstantsAssumption ==
  /\ IsFiniteSet(Senders)
  /\ IsFiniteSet(Guessers)
  /\ {RateLimit, MaxAttempts} \subseteq Nat \ {0}
  /\ {MaxCodes, MaxFailures} \subseteq Nat

VARIABLES
  rate,       \* the counter otp:rate, as far as it is compared
  ttl,        \* the counter has a time to live
  sender,     \* sender[s]: how far request s has come
  created,    \* number of codes created so far
  live,       \* codes whose row exists
  expired,    \* codes past their expiresAt
  attempts,   \* attempts[c]: the row's counter
  guess,      \* guess[g]: the row attempt g has read, and the code it was given
  tries,      \* tries[c]: wrong codes that were compared with c
  used,       \* used[c]: sign-ins with c
  stuck,      \* a request died between counting and setting the time to live
  failures    \* requests that died so far

rateVars == <<rate, ttl, stuck>>
codeVars == <<created, live, expired, attempts>>
vars == <<rateVars, sender, codeVars, guess, tries, used, failures>>

Codes == 1 .. MaxCodes
Wrong == 0
None  == [row |-> 0, given |-> Wrong]

TypeOK ==
  /\ rate \in 0 .. RateLimit + 1
  /\ ttl \in BOOLEAN
  /\ sender \in [Senders -> {"idle", "counted", "allowed", "cleared"}]
  /\ created \in 0 .. MaxCodes
  /\ live \in SUBSET (1 .. created)
  /\ expired \in SUBSET (1 .. created)
  /\ attempts \in [Codes -> Nat]
  /\ guess \in [Guessers -> [row : 0 .. created, given : 0 .. created]]
  /\ tries \in [Codes -> Nat]
  /\ used \in [Codes -> Nat]
  /\ stuck \in BOOLEAN
  /\ failures \in Nat

Init ==
  /\ rate = 0
  /\ ttl = FALSE
  /\ sender = [s \in Senders |-> "idle"]
  /\ created = 0
  /\ live = {}
  /\ expired = {}
  /\ attempts = [c \in Codes |-> 0]
  /\ guess = [g \in Guessers |-> None]
  /\ tries = [c \in Codes |-> 0]
  /\ used = [c \in Codes |-> 0]
  /\ stuck = FALSE
  /\ failures = 0

(***************************************************************************)
(* sendOtp.  INCR is atomic; the time to live is set by the request that   *)
(* found the counter at zero, in a call of its own.  A refused request     *)
(* counts, too: beyond the limit the exact count no longer matters.        *)
(***************************************************************************)
Counted == IF rate > RateLimit THEN rate ELSE rate + 1

\* Mutant: the time to live is set by the request that reaches the limit.
SendCount_AtLimit(s) ==
  /\ sender[s] = "idle"
  /\ rate' = Counted
  /\ sender' = [sender EXCEPT ![s] = IF Counted = RateLimit THEN "counted"
                                     ELSE IF Counted > RateLimit THEN "idle" ELSE "allowed"]
  /\ UNCHANGED <<ttl, stuck, codeVars, guess, tries, used, failures>>

SendCount(s) ==
  /\ sender[s] = "idle"
  /\ rate' = Counted
  /\ sender' = [sender EXCEPT ![s] = IF Counted = 1 THEN "counted"
                                     ELSE IF Counted > RateLimit THEN "idle" ELSE "allowed"]
  /\ UNCHANGED <<ttl, stuck, codeVars, guess, tries, used, failures>>

SendExpire(s) ==
  /\ sender[s] = "counted"
  /\ ttl' = TRUE
  /\ sender' = [sender EXCEPT ![s] = "allowed"]
  /\ UNCHANGED <<rate, stuck, codeVars, guess, tries, used, failures>>

\* Mutant: the old codes are left to expire by themselves.
SendClear_Keeps(s) ==
  /\ sender[s] = "allowed"
  /\ sender' = [sender EXCEPT ![s] = "cleared"]
  /\ UNCHANGED <<rateVars, codeVars, guess, tries, used, failures>>

SendClear(s) ==
  /\ sender[s] = "allowed"
  /\ live' = {}
  /\ sender' = [sender EXCEPT ![s] = "cleared"]
  /\ UNCHANGED <<rateVars, created, expired, attempts, guess, tries, used, failures>>

SendCreate(s) ==
  /\ sender[s] = "cleared"
  /\ created < MaxCodes                   \* bound of the model
  /\ created' = created + 1
  /\ live' = live \union {created + 1}
  /\ sender' = [sender EXCEPT ![s] = "idle"]
  /\ UNCHANGED <<rateVars, expired, attempts, guess, tries, used, failures>>

SendDies(s) ==
  /\ sender[s] # "idle"
  /\ failures < MaxFailures               \* bound of the model
  /\ failures' = failures + 1
  /\ stuck' = (stuck \/ sender[s] = "counted")
  /\ sender' = [sender EXCEPT ![s] = "idle"]
  /\ UNCHANGED <<rate, ttl, codeVars, guess, tries, used>>

\* The window of OTP_RATE_WINDOW_MINUTES is over and Redis drops the counter.
WindowEnds ==
  /\ ttl
  /\ rate' = 0
  /\ ttl' = FALSE
  /\ UNCHANGED <<sender, stuck, codeVars, guess, tries, used, failures>>

CodeExpires(c) ==
  /\ c \in (1 .. created) \ expired
  /\ expired' = expired \union {c}
  /\ UNCHANGED <<rateVars, sender, created, live, attempts, guess, tries, used, failures>>

(***************************************************************************)
(* verifyOtp.  Reading the row, its two checks and the comparison need no  *)
(* further call; counting a wrong code and deleting the row of a right one *)
(* do, and both throw when the row is gone.                                *)
(***************************************************************************)
Newest(c) == c \in live /\ \A d \in live : d <= c

\* Mutant: the limit on attempts is off by one.
VerifyRead_OneMore(g, given) ==
  /\ guess[g] = None
  /\ \E c \in live \ expired :
       /\ Newest(c)
       /\ attempts[c] <= MaxAttempts
       /\ guess' = [guess EXCEPT ![g] = [row |-> c, given |-> given]]
       /\ tries' = [tries EXCEPT ![c] = IF given = c THEN @ ELSE @ + 1]
  /\ UNCHANGED <<rateVars, sender, codeVars, used, failures>>

VerifyRead(g, given) ==
  /\ guess[g] = None
  /\ \E c \in live \ expired :
       /\ Newest(c)
       /\ attempts[c] < MaxAttempts
       /\ guess' = [guess EXCEPT ![g] = [row |-> c, given |-> given]]
       /\ tries' = [tries EXCEPT ![c] = IF given = c THEN @ ELSE @ + 1]
  /\ UNCHANGED <<rateVars, sender, codeVars, used, failures>>

\* An expired row is deleted by the attempt that finds it.
VerifyExpired(c) ==
  /\ c \in expired
  /\ Newest(c)
  /\ live' = live \ {c}
  /\ UNCHANGED <<rateVars, sender, created, expired, attempts, guess, tries, used, failures>>

VerifyWrong(g) ==
  LET c == guess[g].row
  IN /\ guess[g] # None
     /\ guess[g].given # c
     /\ attempts' = [attempts EXCEPT ![c] = IF c \in live THEN @ + 1 ELSE @]
     /\ guess' = [guess EXCEPT ![g] = None]
     /\ UNCHANGED <<rateVars, sender, created, live, expired, tries, used, failures>>

\* Mutant: deleteMany instead of delete, which does not mind that the row is gone.
VerifyRight_DeleteMany(g) ==
  LET c == guess[g].row
  IN /\ guess[g] # None
     /\ guess[g].given = c
     /\ live' = live \ {c}
     /\ used' = [used EXCEPT ![c] = @ + 1]
     /\ guess' = [guess EXCEPT ![g] = None]
     /\ UNCHANGED <<rateVars, sender, created, expired, attempts, tries, failures>>

VerifyRight(g) ==
  LET c == guess[g].row
  IN /\ guess[g] # None
     /\ guess[g].given = c
     /\ live' = live \ {c}
     /\ used' = [used EXCEPT ![c] = IF c \in live THEN @ + 1 ELSE @]
     /\ guess' = [guess EXCEPT ![g] = None]
     /\ UNCHANGED <<rateVars, sender, created, expired, attempts, tries, failures>>

\* An attempt that dies has compared its code and counted nothing.
VerifyDies(g) ==
  /\ guess[g] # None
  /\ failures < MaxFailures               \* bound of the model
  /\ failures' = failures + 1
  /\ guess' = [guess EXCEPT ![g] = None]
  /\ UNCHANGED <<rateVars, sender, codeVars, tries, used>>

-------------------------------------------------------------------------------

SenderStep(s) ==
  SendCount(s) \/ SendExpire(s) \/ SendClear(s) \/ SendCreate(s) \/ SendDies(s)

GuesserStep(g) ==
  \/ \E given \in 0 .. created : VerifyRead(g, given)
  \/ VerifyWrong(g) \/ VerifyRight(g) \/ VerifyDies(g)

Next ==
  \/ \E s \in Senders : SenderStep(s)
  \/ \E g \in Guessers : GuesserStep(g)
  \/ \E c \in Codes : CodeExpires(c) \/ VerifyExpired(c)
  \/ WindowEnds

Spec == Init /\ [][Next]_vars

\* Redis drops keys whose time is over, and a request in progress goes on.
FairSpec == Spec /\ WF_vars(WindowEnds) /\ \A s \in Senders : WF_vars(SendExpire(s))

(***************************************************************************)
(* The limit on attempts is read before it is counted, so attempts that    *)
(* run at once share one.  With G of them a code is compared with at most  *)
(* G - 1 wrong codes more than the limit, plus one for each that died.     *)
(***************************************************************************)
GuessesBounded ==
  \A c \in Codes : tries[c] <= MaxAttempts + (Cardinality(Guessers) - 1) + failures

\* A code signs in at most once, however many attempts bring it at once.
CodeUsedOnce == \A c \in Codes : used[c] <= 1

\* Requests that run at once may each leave a code behind, and the older one is
\* good again once the newer one is used.  There is never more than one such
\* code, live or about to be, for every request that can run at once.
LiveCodesBounded ==
  Cardinality(live) + Cardinality({s \in Senders : sender[s] = "cleared"}) <= Cardinality(Senders)

\* A counter without a time to live is owed it by exactly one request, or was by
\* one that died, and then the counter stays for ever: no later request finds it
\* at zero, and no late EXPIRE reaches the counter of another window.
Owing == {s \in Senders : sender[s] = "counted"}

TimeToLiveIsOwed ==
  IF rate > 0 /\ ~ttl
  THEN IF stuck THEN Owing = {} ELSE \E s \in Senders : Owing = {s}
  ELSE ~stuck /\ Owing = {}

\* A phone that asked too often can ask again some day, unless the request that
\* should have set the counter's time to live died first: then it never can.
RateClears == []<>(rate = 0 \/ stuck)
================================================================================

------------------------------ MODULE Auth_proofs ------------------------------
(***************************************************************************)
(* Signing in and staying signed in.  First OtpLogin: its type, its three  *)
(* bounds, on wrong codes compared with one code, sign-ins with one code   *)
(* and live codes, the time to live of its counter, and that it implements *)
(* OneTimeCodes.  Then Sessions: its type and its three invariants, from   *)
(* one inductive invariant about each session.                             *)
(***************************************************************************)
EXTENDS OtpCodes, Sessions, FiniteSetTheorems, TLAPS

\* Attempts that hold code c and were given another one.
Comparing(c) == {g \in Guessers : guess[g].row = c /\ guess[g].given # c}

\* Requests that have deleted the old codes and not yet created theirs.
Clearing == {s \in Senders : sender[s] = "cleared"}

\* A code that was never created has no history.
Untouched == \A c \in Codes : c > created => tries[c] = 0 /\ used[c] = 0

\* While its row exists, every wrong code compared with a code was counted, is
\* about to be, or belonged to an attempt that died; and the code was not used.
CountedWhileLive ==
  \A c \in live : /\ tries[c] <= attempts[c] + Cardinality(Comparing(c)) + failures
                  /\ used[c] = 0

OtpInv ==
  /\ TypeOK
  /\ Untouched
  /\ CountedWhileLive
  /\ GuessesBounded
  /\ CodeUsedOnce

-------------------------------------------------------------------------------

LEMMA Constants ==
  /\ IsFiniteSet(Senders) /\ IsFiniteSet(Guessers)
  /\ RateLimit \in Nat /\ RateLimit > 0 /\ MaxAttempts \in Nat /\ MaxAttempts > 0
  /\ MaxCodes \in Nat /\ MaxFailures \in Nat
BY ConstantsAssumption DEF ConstantsAssumption

\* Codes are natural numbers, and so are the rows that exist.
LEMMA CodesAreNumbers ==
  ASSUME TypeOK
  PROVE  /\ Codes \subseteq Nat \ {0} /\ created \in Nat
         /\ 1 .. created \subseteq Codes /\ live \subseteq Codes
BY Constants DEF TypeOK, Codes

\* An attempt that ends leaves the type of the others as it was.
LEMMA GuessEnds ==
  ASSUME TypeOK, NEW g \in Guessers, guess' = [guess EXCEPT ![g] = None], created' = created
  PROVE  /\ guess' \in [Guessers -> [row : 0 .. created', given : 0 .. created']]
         /\ guess'[g] = None
         /\ \A h \in Guessers \ {g} : guess'[h] = guess[h]
<1>1. None \in [row : 0 .. created, given : 0 .. created]
  BY CodesAreNumbers DEF None, Wrong
<1> QED
  BY <1>1 DEF TypeOK

\* Counting for a code whose row exists changes that code's count alone.
LEMMA CountsForLive ==
  ASSUME NEW f \in [Codes -> Nat], NEW c, NEW h,
         h = [f EXCEPT ![c] = IF c \in live THEN @ + 1 ELSE @]
  PROVE  /\ h \in [Codes -> Nat]
         /\ \A d \in Codes : d # c \/ c \notin live => h[d] = f[d]
         /\ c \in live /\ c \in Codes => h[c] = f[c] + 1
<1>1. CASE c \in Codes /\ c \in live
  <2>1. f[c] + 1 \in Nat /\ h = [f EXCEPT ![c] = f[c] + 1]
    BY <1>1
  <2> QED
    BY <1>1, <2>1
<1>2. CASE c \notin live
  BY <1>2
<1>3. CASE c \notin Codes
  BY <1>3
<1> QED
  BY <1>1, <1>2, <1>3

LEMMA TypeInit == Init => TypeOK
<1> SUFFICES ASSUME Init PROVE TypeOK
  OBVIOUS
<1>2. rate \in 0 .. RateLimit + 1 /\ created \in 0 .. MaxCodes
  BY Constants DEF Init
<1>3. guess \in [Guessers -> [row : 0 .. created, given : 0 .. created]]
  BY <1>2 DEF Init, None, Wrong
<1>4. /\ attempts \in [Codes -> Nat] /\ tries \in [Codes -> Nat] /\ used \in [Codes -> Nat]
      /\ sender \in [Senders -> {"idle", "counted", "allowed", "cleared"}]
  BY DEF Init
<1> QED
  BY <1>2, <1>3, <1>4 DEF Init, TypeOK

LEMMA TypeNext == TypeOK /\ [Next]_vars => TypeOK'
<1> SUFFICES ASSUME TypeOK, [Next]_vars PROVE TypeOK'
  OBVIOUS
<1> USE Constants, CodesAreNumbers
<1>1. ASSUME NEW s \in Senders, SendCount(s) PROVE TypeOK'
  BY <1>1 DEF TypeOK, SendCount, Counted, codeVars
<1>2. ASSUME NEW s \in Senders, SendExpire(s) PROVE TypeOK'
  BY <1>2 DEF TypeOK, SendExpire, codeVars
<1>3. ASSUME NEW s \in Senders, SendClear(s) PROVE TypeOK'
  BY <1>3 DEF TypeOK, SendClear, rateVars
<1>4. ASSUME NEW s \in Senders, SendCreate(s) PROVE TypeOK'
  <2>1. created' \in 0 .. MaxCodes /\ created' = created + 1
    BY <1>4 DEF TypeOK, SendCreate
  <2>4. /\ created \in Nat /\ created + 1 \in 1 .. created'
        /\ 1 .. created \subseteq 1 .. created' /\ 0 .. created \subseteq 0 .. created'
    BY <2>1
  <2>2. live' \in SUBSET (1 .. created') /\ expired' \in SUBSET (1 .. created')
    BY <1>4, <2>1, <2>4 DEF TypeOK, SendCreate
  <2>3. guess' \in [Guessers -> [row : 0 .. created', given : 0 .. created']]
    BY <1>4, <2>1, <2>4 DEF TypeOK, SendCreate
  <2> QED
    BY <1>4, <2>1, <2>2, <2>3 DEF TypeOK, SendCreate, rateVars
<1>5. ASSUME NEW s \in Senders, SendDies(s) PROVE TypeOK'
  BY <1>5 DEF TypeOK, SendDies, codeVars
<1>6. ASSUME NEW g \in Guessers, NEW given \in 0 .. created, VerifyRead(g, given) PROVE TypeOK'
  <2>1. /\ UNCHANGED <<rate, ttl, stuck, sender, created, live, expired, attempts, used, failures>>
        /\ \E c \in live : /\ guess' = [guess EXCEPT ![g] = [row |-> c, given |-> given]]
                           /\ tries' = [tries EXCEPT ![c] = IF given = c THEN @ ELSE @ + 1]
    BY <1>6 DEF VerifyRead, rateVars, codeVars
  <2>2. PICK c \in live : /\ guess' = [guess EXCEPT ![g] = [row |-> c, given |-> given]]
                          /\ tries' = [tries EXCEPT ![c] = IF given = c THEN @ ELSE @ + 1]
    BY <2>1
  <2>3. c \in Codes /\ c \in 0 .. created
    BY DEF TypeOK
  <2>4. tries' \in [Codes -> Nat]
    BY <2>2, <2>3 DEF TypeOK
  <2>5. guess' \in [Guessers -> [row : 0 .. created', given : 0 .. created']]
    BY <2>1, <2>2, <2>3 DEF TypeOK
  <2> QED
    BY <2>1, <2>4, <2>5 DEF TypeOK
<1>7. ASSUME NEW g \in Guessers, VerifyWrong(g) PROVE TypeOK'
  <2>1. guess' \in [Guessers -> [row : 0 .. created', given : 0 .. created']]
    BY <1>7, GuessEnds DEF VerifyWrong, codeVars
  <2>3. attempts' = [attempts EXCEPT ![guess[g].row] = IF guess[g].row \in live THEN @ + 1 ELSE @]
    BY <1>7 DEF VerifyWrong
  <2>2. attempts' \in [Codes -> Nat]
    BY <2>3, CountsForLive DEF TypeOK
  <2> QED
    BY <1>7, <2>1, <2>2 DEF TypeOK, VerifyWrong, rateVars
<1>8. ASSUME NEW g \in Guessers, VerifyRight(g) PROVE TypeOK'
  <2>1. guess' \in [Guessers -> [row : 0 .. created', given : 0 .. created']]
    BY <1>8, GuessEnds DEF VerifyRight, codeVars
  <2>3. used' = [used EXCEPT ![guess[g].row] = IF guess[g].row \in live THEN @ + 1 ELSE @]
    BY <1>8 DEF VerifyRight
  <2>2. used' \in [Codes -> Nat]
    BY <2>3, CountsForLive DEF TypeOK
  <2> QED
    BY <1>8, <2>1, <2>2 DEF TypeOK, VerifyRight, rateVars
<1>9. ASSUME NEW g \in Guessers, VerifyDies(g) PROVE TypeOK'
  <2>1. guess' \in [Guessers -> [row : 0 .. created', given : 0 .. created']]
    BY <1>9, GuessEnds DEF VerifyDies, codeVars
  <2> QED
    BY <1>9, <2>1 DEF TypeOK, VerifyDies, rateVars, codeVars
<1>10. ASSUME NEW c \in Codes, CodeExpires(c) \/ VerifyExpired(c) PROVE TypeOK'
  BY <1>10 DEF TypeOK, CodeExpires, VerifyExpired, rateVars
<1>11. CASE WindowEnds
  <2>1. rate' \in 0 .. RateLimit + 1
    BY <1>11 DEF WindowEnds
  <2> QED
    BY <1>11, <2>1 DEF TypeOK, WindowEnds, codeVars
<1>12. CASE UNCHANGED vars
  BY <1>12 DEF TypeOK, vars, rateVars, codeVars
<1> QED
  BY <1>1, <1>2, <1>3, <1>4, <1>5, <1>6, <1>7, <1>8, <1>9, <1>10, <1>11, <1>12
  DEF Next, SenderStep, GuesserStep

\* However requests and attempts interleave, the state keeps its type.
THEOREM OtpTypeCorrect == Spec => []TypeOK
BY TypeInit, TypeNext, PTL DEF Spec

-------------------------------------------------------------------------------
(***************************************************************************)
(* Live codes.                                                             *)
(***************************************************************************)

LEMMA LiveFinite ==
  ASSUME TypeOK
  PROVE  /\ IsFiniteSet(live) /\ Cardinality(live) \in Nat
         /\ IsFiniteSet(Clearing) /\ Cardinality(Clearing) \in Nat
         /\ Cardinality(Clearing) <= Cardinality(Senders) /\ Cardinality(Senders) \in Nat
<1>1. IsFiniteSet(1 .. created)
  BY CodesAreNumbers, FS_Interval
<1>2. live \subseteq 1 .. created /\ Clearing \subseteq Senders
  BY DEF TypeOK, Clearing
<1> QED
  BY <1>1, <1>2, Constants, FS_Subset, FS_CardinalityType

\* Losing codes, or requests about to create one, keeps the bound.
LEMMA FewerLive ==
  ASSUME TypeOK, LiveCodesBounded, live' \subseteq live, Clearing' \subseteq Clearing
  PROVE  LiveCodesBounded'
<1>1. Cardinality(live') <= Cardinality(live) /\ Cardinality(live') \in Nat
  BY LiveFinite, FS_Subset, FS_CardinalityType
<1>2. Cardinality(Clearing') <= Cardinality(Clearing) /\ Cardinality(Clearing') \in Nat
  BY LiveFinite, FS_Subset, FS_CardinalityType
<1>3. Cardinality(live) + Cardinality(Clearing) <= Cardinality(Senders)
  BY DEF LiveCodesBounded, Clearing
<1>4. Cardinality(live') + Cardinality(Clearing') <= Cardinality(Senders)
  BY <1>1, <1>2, <1>3, LiveFinite
<1> QED
  BY <1>4 DEF LiveCodesBounded, Clearing

LEMMA LiveNext == TypeOK /\ TypeOK' /\ LiveCodesBounded /\ [Next]_vars => LiveCodesBounded'
<1> SUFFICES ASSUME TypeOK, TypeOK', LiveCodesBounded, [Next]_vars PROVE LiveCodesBounded'
  OBVIOUS
<1>1. ASSUME NEW s \in Senders, SendCount(s) \/ SendExpire(s) \/ SendDies(s)
      PROVE  LiveCodesBounded'
  <2>1. live' = live /\ sender' \in [Senders -> {"idle", "counted", "allowed", "cleared"}]
    BY <1>1 DEF SendCount, SendExpire, SendDies, codeVars, TypeOK
  <2>2. \A r \in Senders : sender'[r] = "cleared" => sender[r] = "cleared"
    BY <1>1 DEF SendCount, SendExpire, SendDies, TypeOK
  <2>3. Clearing' \subseteq Clearing
    BY <2>2 DEF Clearing
  <2> QED
    BY <2>1, <2>3, FewerLive
<1>2. ASSUME NEW s \in Senders, SendClear(s) PROVE LiveCodesBounded'
  <2>1. live' = {} /\ Cardinality(live') = 0
    BY <1>2, FS_EmptySet DEF SendClear
  <2>2. Clearing' \subseteq Senders
    BY DEF Clearing
  <2>3. Cardinality(Clearing') <= Cardinality(Senders) /\ Cardinality(Clearing') \in Nat
    BY <2>2, Constants, FS_Subset, FS_CardinalityType
  <2>4. Cardinality(live') + Cardinality(Clearing') <= Cardinality(Senders)
    BY <2>1, <2>3
  <2> QED
    BY <2>4 DEF LiveCodesBounded, Clearing
<1>3. ASSUME NEW s \in Senders, SendCreate(s) PROVE LiveCodesBounded'
  <2>1. /\ live' = live \union {created + 1} /\ created + 1 \notin live
        /\ s \in Clearing
    BY <1>3, CodesAreNumbers DEF SendCreate, TypeOK, Clearing
  <2>2. Clearing' = Clearing \ {s}
    BY <1>3 DEF SendCreate, TypeOK, Clearing
  <2>3. Cardinality(live') = Cardinality(live) + 1
    BY <2>1, LiveFinite, FS_AddElement
  <2>4. Cardinality(Clearing') = Cardinality(Clearing) - 1
    BY <2>1, <2>2, LiveFinite, FS_RemoveElement
  <2>5. Cardinality(live) + Cardinality(Clearing) <= Cardinality(Senders)
    BY DEF LiveCodesBounded, Clearing
  <2>6. Cardinality(live') + Cardinality(Clearing') <= Cardinality(Senders)
    BY <2>3, <2>4, <2>5, LiveFinite
  <2> QED
    BY <2>6 DEF LiveCodesBounded, Clearing
<1>4. ASSUME sender' = sender, live' \subseteq live PROVE LiveCodesBounded'
  <2>1. Clearing' = Clearing
    BY <1>4 DEF Clearing
  <2> QED
    BY <1>4, <2>1, FewerLive
<1>5. ASSUME NEW g \in Guessers, GuesserStep(g) PROVE sender' = sender /\ live' \subseteq live
  BY <1>5 DEF GuesserStep, VerifyRead, VerifyWrong, VerifyRight, VerifyDies, codeVars
<1>6. ASSUME NEW c \in Codes, CodeExpires(c) \/ VerifyExpired(c)
      PROVE  sender' = sender /\ live' \subseteq live
  BY <1>6 DEF CodeExpires, VerifyExpired
<1>7. CASE WindowEnds \/ UNCHANGED vars
  BY <1>4, <1>7 DEF WindowEnds, vars, codeVars
<1> QED
  BY <1>1, <1>2, <1>3, <1>4, <1>5, <1>6, <1>7 DEF Next, SenderStep

\* Requests that run at once leave no more live codes than there are requests.
THEOREM FewLiveCodes == Spec => []LiveCodesBounded
<1>1. Init => LiveCodesBounded
  <2> SUFFICES ASSUME Init PROVE LiveCodesBounded
    OBVIOUS
  <2>1. live = {} /\ Clearing = {}
    BY DEF Init, Clearing
  <2>2. Cardinality(live) = 0 /\ Cardinality(Clearing) = 0 /\ Cardinality(Senders) \in Nat
    BY <2>1, Constants, FS_EmptySet, FS_CardinalityType
  <2> QED
    BY <2>2 DEF LiveCodesBounded, Clearing
<1> QED
  BY <1>1, LiveNext, OtpTypeCorrect, PTL DEF Spec

-------------------------------------------------------------------------------
(***************************************************************************)
(* Guesses and sign-ins.                                                   *)
(***************************************************************************)

LEMMA ComparingFinite ==
  ASSUME NEW c
  PROVE  /\ IsFiniteSet(Comparing(c)) /\ Cardinality(Comparing(c)) \in Nat
         /\ Cardinality(Guessers) \in Nat
         /\ \A g \in Guessers \ Comparing(c) :
              Cardinality(Comparing(c)) + 1 <= Cardinality(Guessers)
<1>1. Comparing(c) \subseteq Guessers
  BY DEF Comparing
<1>2. /\ IsFiniteSet(Comparing(c)) /\ Cardinality(Comparing(c)) \in Nat
      /\ Cardinality(Guessers) \in Nat
  BY <1>1, Constants, FS_Subset, FS_CardinalityType
<1>3. ASSUME NEW g \in Guessers \ Comparing(c)
      PROVE  Cardinality(Comparing(c)) + 1 <= Cardinality(Guessers)
  <2>1. Cardinality(Comparing(c) \union {g}) = Cardinality(Comparing(c)) + 1
    BY <1>2, <1>3, FS_AddElement
  <2>2. Comparing(c) \union {g} \subseteq Guessers
    BY <1>1, <1>3
  <2>3. Cardinality(Comparing(c) \union {g}) <= Cardinality(Guessers)
    BY <2>2, Constants, FS_Subset
  <2> QED
    BY <2>1, <2>3
<1> QED
  BY <1>2, <1>3

\* An attempt that ends no longer compares its code; the others go on.
LEMMA ComparingEnds ==
  ASSUME TypeOK, NEW g \in Guessers, guess' = [guess EXCEPT ![g] = None], created' = created,
         NEW c \in Codes
  PROVE  Cardinality(Comparing(c)') =
           IF g \in Comparing(c) THEN Cardinality(Comparing(c)) - 1 ELSE Cardinality(Comparing(c))
<1>1. c # 0
  BY CodesAreNumbers
<1>2. Comparing(c)' = Comparing(c) \ {g}
  BY <1>1, GuessEnds DEF Comparing, None
<1>3. CASE g \in Comparing(c)
  BY <1>2, <1>3, ComparingFinite, FS_RemoveElement
<1>4. CASE g \notin Comparing(c)
  <2>1. Comparing(c) \ {g} = Comparing(c)
    BY <1>4
  <2> QED
    BY <1>2, <1>4, <2>1
<1> QED
  BY <1>3, <1>4

\* What the bound on guesses needs of a step that compares no code.
LEMMA SameTries ==
  ASSUME TypeOK, TypeOK', GuessesBounded, tries' = tries, failures' >= failures
  PROVE  GuessesBounded'
<1> SUFFICES ASSUME NEW c \in Codes
             PROVE  tries'[c] <= MaxAttempts + (Cardinality(Guessers) - 1) + failures'
  BY DEF GuessesBounded
<1>1. tries[c] <= MaxAttempts + (Cardinality(Guessers) - 1) + failures
  BY DEF GuessesBounded
<1>2. tries[c] \in Nat /\ failures \in Nat /\ failures' \in Nat
  BY DEF TypeOK
<1> QED
  BY <1>1, <1>2, Constants, ComparingFinite

\* Steps that leave codes' counts and the attempts alone keep the invariant.
LEMMA Calm ==
  ASSUME OtpInv, TypeOK', live' \subseteq live, failures' >= failures,
         UNCHANGED <<created, attempts, guess, tries, used>>
  PROVE  OtpInv'
<1> USE DEF OtpInv
<1>1. Untouched' /\ CodeUsedOnce'
  BY DEF Untouched, CodeUsedOnce
<1>2. GuessesBounded'
  BY SameTries
<1>3. CountedWhileLive'
  <2> SUFFICES ASSUME NEW c \in live'
               PROVE  /\ tries'[c] <= attempts'[c] + Cardinality(Comparing(c)') + failures'
                      /\ used'[c] = 0
    BY DEF CountedWhileLive
  <2>1. c \in live /\ c \in Codes
    BY CodesAreNumbers
  <2>2. Comparing(c)' = Comparing(c)
    BY DEF Comparing
  <2>3. tries[c] <= attempts[c] + Cardinality(Comparing(c)) + failures /\ used[c] = 0
    BY <2>1 DEF CountedWhileLive
  <2>4. tries[c] \in Nat /\ attempts[c] \in Nat /\ failures \in Nat /\ failures' \in Nat
    BY <2>1 DEF TypeOK
  <2> QED
    BY <2>2, <2>3, <2>4, ComparingFinite
<1> QED
  BY <1>1, <1>2, <1>3

\* A new code has neither been compared nor used.
LEMMA CreateKeeps ==
  ASSUME OtpInv, TypeOK', NEW s \in Senders, SendCreate(s)
  PROVE  OtpInv'
<1> USE DEF OtpInv
<1>1. /\ created' = created + 1 /\ live' = live \union {created + 1}
      /\ UNCHANGED <<attempts, guess, tries, used, failures>>
  BY DEF SendCreate
<1>2. created \in Nat /\ created + 1 \in Codes
  BY <1>1, CodesAreNumbers, Constants DEF TypeOK, SendCreate, Codes
<1>3. Untouched' /\ CodeUsedOnce'
  BY <1>1, <1>2, CodesAreNumbers DEF Untouched, CodeUsedOnce
<1>4. failures \in Nat
  BY DEF TypeOK
<1>5. GuessesBounded'
  BY <1>1, <1>4, SameTries
<1>6. CountedWhileLive'
  <2> SUFFICES ASSUME NEW c \in live'
               PROVE  /\ tries[c] <= attempts[c] + Cardinality(Comparing(c)) + failures
                      /\ used[c] = 0
    BY <1>1 DEF CountedWhileLive, Comparing
  <2>1. CASE c \in live
    BY <2>1 DEF CountedWhileLive
  <2>2. CASE c = created + 1
    <3>1. tries[c] = 0 /\ used[c] = 0
      BY <2>2, <1>2 DEF Untouched
    <3>2. attempts[c] \in Nat
      BY <2>2, <1>2 DEF TypeOK
    <3> QED
      BY <3>1, <3>2, <1>4, ComparingFinite
  <2> QED
    BY <1>1, <2>1, <2>2
<1> QED
  BY <1>3, <1>5, <1>6

\* Reading the row: a wrong code is compared only below the limit, and the
\* attempts that have yet to count theirs do not include the one that reads.
LEMMA ReadKeeps ==
  ASSUME OtpInv, TypeOK', NEW g \in Guessers, NEW given \in 0 .. created, VerifyRead(g, given)
  PROVE  OtpInv'
<1> USE DEF OtpInv
<1>1. /\ guess[g] = None
      /\ UNCHANGED <<created, live, attempts, used, failures>>
      /\ \E c \in live : /\ attempts[c] < MaxAttempts
                         /\ guess' = [guess EXCEPT ![g] = [row |-> c, given |-> given]]
                         /\ tries' = [tries EXCEPT ![c] = IF given = c THEN @ ELSE @ + 1]
  BY DEF VerifyRead, codeVars
<1>2. PICK c \in live : /\ attempts[c] < MaxAttempts
                        /\ guess' = [guess EXCEPT ![g] = [row |-> c, given |-> given]]
                        /\ tries' = [tries EXCEPT ![c] = IF given = c THEN @ ELSE @ + 1]
  BY <1>1
<1>3. c \in Codes /\ c # 0 /\ c <= created
  BY CodesAreNumbers DEF TypeOK
<1>4. /\ \A d \in Codes : d # c => tries'[d] = tries[d]
      /\ given = c => tries'[c] = tries[c]
      /\ given # c => tries'[c] = tries[c] + 1
  BY <1>2, <1>3 DEF TypeOK
<1>5. /\ guess'[g] = [row |-> c, given |-> given]
      /\ \A h \in Guessers \ {g} : guess'[h] = guess[h]
  BY <1>2 DEF TypeOK
<1>6. g \notin Comparing(c)
  BY <1>1, <1>3 DEF Comparing, None
<1>7. Untouched' /\ CodeUsedOnce'
  <2>1. \A d \in Codes : d > created => d # c
    BY <1>3, CodesAreNumbers
  <2> QED
    BY <1>1, <1>4, <2>1 DEF Untouched, CodeUsedOnce
<1>8. /\ tries[c] <= attempts[c] + Cardinality(Comparing(c)) + failures
      /\ tries[c] \in Nat /\ attempts[c] \in Nat /\ failures \in Nat
      /\ Cardinality(Comparing(c)) + 1 <= Cardinality(Guessers)
  BY <1>3, <1>6, ComparingFinite DEF CountedWhileLive, TypeOK
<1>9. GuessesBounded'
  <2> SUFFICES ASSUME NEW d \in Codes
               PROVE  tries'[d] <= MaxAttempts + (Cardinality(Guessers) - 1) + failures
    BY <1>1 DEF GuessesBounded
  <2>1. CASE d = c /\ given # c
    BY <1>2, <1>4, <1>8, <2>1, Constants, ComparingFinite
  <2>2. CASE ~(d = c /\ given # c)
    BY <1>4, <2>2 DEF GuessesBounded
  <2> QED
    BY <2>1, <2>2
<1>10. CountedWhileLive'
  <2> SUFFICES ASSUME NEW d \in live
               PROVE  /\ tries'[d] <= attempts[d] + Cardinality(Comparing(d)') + failures
                      /\ used[d] = 0
    BY <1>1 DEF CountedWhileLive
  <2>1. d \in Codes /\ d # 0
    BY CodesAreNumbers
  <2>2. tries[d] <= attempts[d] + Cardinality(Comparing(d)) + failures /\ used[d] = 0
    BY DEF CountedWhileLive
  <2>3. CASE d = c /\ given # c
    <3>1. Comparing(d)' = Comparing(d) \union {g}
      BY <1>5, <2>3 DEF Comparing
    <3>2. Cardinality(Comparing(d)') = Cardinality(Comparing(d)) + 1
      BY <1>6, <2>3, <3>1, ComparingFinite, FS_AddElement
    <3> QED
      BY <1>4, <1>8, <2>2, <2>3, <3>2, ComparingFinite
  <2>4. CASE ~(d = c /\ given # c)
    <3>1. g \notin Comparing(d)
      BY <1>1, <2>1 DEF Comparing, None
    <3>2. Comparing(d)' = Comparing(d)
      BY <1>5, <2>4, <3>1 DEF Comparing
    <3>3. tries'[d] = tries[d]
      BY <1>4, <2>1, <2>4
    <3> QED
      BY <2>2, <3>2, <3>3
  <2> QED
    BY <2>3, <2>4
<1> QED
  BY <1>7, <1>9, <1>10

\* Counting a wrong code: what the attempt compared is now in the row's count.
LEMMA WrongKeeps ==
  ASSUME OtpInv, TypeOK', NEW g \in Guessers, VerifyWrong(g)
  PROVE  OtpInv'
<1> USE DEF OtpInv
<1>1. /\ guess' = [guess EXCEPT ![g] = None]
      /\ guess[g].given # guess[g].row
      /\ attempts' = [attempts EXCEPT ![guess[g].row] = IF guess[g].row \in live THEN @ + 1 ELSE @]
      /\ UNCHANGED <<created, live, tries, used, failures>>
  BY DEF VerifyWrong
<1>2. Untouched' /\ CodeUsedOnce'
  BY <1>1 DEF Untouched, CodeUsedOnce
<1>3. GuessesBounded'
  BY <1>1, SameTries DEF TypeOK
<1>4. CountedWhileLive'
  <2> SUFFICES ASSUME NEW d \in live
               PROVE  /\ tries[d] <= attempts'[d] + Cardinality(Comparing(d)') + failures
                      /\ used[d] = 0
    BY <1>1 DEF CountedWhileLive
  <2>1. d \in Codes
    BY CodesAreNumbers
  <2>2. tries[d] <= attempts[d] + Cardinality(Comparing(d)) + failures /\ used[d] = 0
    BY DEF CountedWhileLive
  <2>3. tries[d] \in Nat /\ attempts[d] \in Nat /\ failures \in Nat
    BY <2>1 DEF TypeOK
  <2>4. g \in Comparing(d) <=> guess[g].row = d
    BY <1>1 DEF Comparing
  <2>5. attempts'[d] = IF guess[g].row = d THEN attempts[d] + 1 ELSE attempts[d]
    BY <1>1, <2>1, CountsForLive DEF TypeOK
  <2>6. Cardinality(Comparing(d)') =
          IF g \in Comparing(d) THEN Cardinality(Comparing(d)) - 1 ELSE Cardinality(Comparing(d))
    BY <1>1, <2>1, ComparingEnds
  <2> QED
    BY <2>2, <2>3, <2>4, <2>5, <2>6, ComparingFinite
<1> QED
  BY <1>2, <1>3, <1>4

\* Signing in: only the attempt that deletes the row signs in with it.
LEMMA RightKeeps ==
  ASSUME OtpInv, TypeOK', NEW g \in Guessers, VerifyRight(g)
  PROVE  OtpInv'
<1> USE DEF OtpInv
<1>1. /\ guess' = [guess EXCEPT ![g] = None]
      /\ guess[g].given = guess[g].row
      /\ live' = live \ {guess[g].row}
      /\ used' = [used EXCEPT ![guess[g].row] = IF guess[g].row \in live THEN @ + 1 ELSE @]
      /\ UNCHANGED <<created, attempts, tries, failures>>
  BY DEF VerifyRight
<1>2. /\ \A d \in Codes : d # guess[g].row \/ guess[g].row \notin live => used'[d] = used[d]
      /\ guess[g].row \in live => used'[guess[g].row] = 1
  BY <1>1, CountsForLive, CodesAreNumbers DEF TypeOK, CountedWhileLive
<1>3. CodeUsedOnce'
  BY <1>2 DEF CodeUsedOnce
<1>4. Untouched'
  <2>1. \A d \in Codes : d > created => d \notin live
    BY CodesAreNumbers DEF TypeOK
  <2> QED
    BY <1>1, <1>2, <2>1 DEF Untouched
<1>5. GuessesBounded'
  BY <1>1, SameTries DEF TypeOK
<1>6. CountedWhileLive'
  <2> SUFFICES ASSUME NEW d \in live, d # guess[g].row
               PROVE  /\ tries[d] <= attempts[d] + Cardinality(Comparing(d)') + failures
                      /\ used'[d] = 0
    BY <1>1 DEF CountedWhileLive
  <2>1. d \in Codes /\ g \notin Comparing(d)
    BY CodesAreNumbers DEF Comparing
  <2>2. Cardinality(Comparing(d)') = Cardinality(Comparing(d))
    BY <1>1, <2>1, ComparingEnds
  <2> QED
    BY <1>2, <2>1, <2>2 DEF CountedWhileLive
<1> QED
  BY <1>3, <1>4, <1>5, <1>6

\* An attempt that dies may leave one comparison uncounted.
LEMMA DiesKeeps ==
  ASSUME OtpInv, TypeOK', NEW g \in Guessers, VerifyDies(g)
  PROVE  OtpInv'
<1> USE DEF OtpInv
<1>1. /\ guess' = [guess EXCEPT ![g] = None]
      /\ failures' = failures + 1
      /\ UNCHANGED <<created, live, attempts, tries, used>>
  BY DEF VerifyDies, codeVars
<1>2. Untouched' /\ CodeUsedOnce'
  BY <1>1 DEF Untouched, CodeUsedOnce
<1>3. GuessesBounded'
  BY <1>1, SameTries DEF TypeOK
<1>4. CountedWhileLive'
  <2> SUFFICES ASSUME NEW d \in live
               PROVE  /\ tries[d] <= attempts[d] + Cardinality(Comparing(d)') + failures'
                      /\ used[d] = 0
    BY <1>1 DEF CountedWhileLive
  <2>1. d \in Codes
    BY CodesAreNumbers
  <2>2. tries[d] <= attempts[d] + Cardinality(Comparing(d)) + failures /\ used[d] = 0
    BY DEF CountedWhileLive
  <2>3. tries[d] \in Nat /\ attempts[d] \in Nat /\ failures \in Nat
    BY <2>1 DEF TypeOK
  <2>4. Cardinality(Comparing(d)') =
          IF g \in Comparing(d) THEN Cardinality(Comparing(d)) - 1 ELSE Cardinality(Comparing(d))
    BY <1>1, <2>1, ComparingEnds
  <2> QED
    BY <1>1, <2>2, <2>3, <2>4, ComparingFinite
<1> QED
  BY <1>2, <1>3, <1>4

LEMMA InvInit == Init => OtpInv
<1> SUFFICES ASSUME Init PROVE OtpInv
  OBVIOUS
<1>1. TypeOK
  BY TypeInit
<1>2. Untouched /\ CodeUsedOnce /\ CountedWhileLive
  BY DEF Init, Untouched, CodeUsedOnce, CountedWhileLive
<1>3. GuessesBounded
  <2>1. Cardinality(Guessers) \in Nat
    BY ComparingFinite
  <2>2. \A c \in Codes : tries[c] = 0
    BY DEF Init
  <2>3. 0 <= MaxAttempts + (Cardinality(Guessers) - 1) + failures
    BY <2>1, Constants DEF Init
  <2> QED
    BY <2>2, <2>3 DEF GuessesBounded
<1> QED
  BY <1>1, <1>2, <1>3 DEF OtpInv

LEMMA InvNext == OtpInv /\ TypeOK' /\ [Next]_vars => OtpInv'
<1> SUFFICES ASSUME OtpInv, TypeOK', [Next]_vars PROVE OtpInv'
  OBVIOUS
<1>0. failures \in Nat /\ failures + 1 >= failures /\ failures >= failures
  BY DEF OtpInv, TypeOK
<1>1. ASSUME NEW s \in Senders, SendCount(s) \/ SendExpire(s) \/ SendClear(s) \/ SendDies(s)
      PROVE  OtpInv'
  <2>1. live' \subseteq live /\ failures' >= failures
        /\ UNCHANGED <<created, attempts, guess, tries, used>>
    BY <1>0, <1>1 DEF SendCount, SendExpire, SendClear, SendDies, codeVars
  <2> QED
    BY <2>1, Calm
<1>2. ASSUME NEW c \in Codes, CodeExpires(c) \/ VerifyExpired(c) PROVE OtpInv'
  <2>1. live' \subseteq live /\ failures' >= failures
        /\ UNCHANGED <<created, attempts, guess, tries, used>>
    BY <1>0, <1>2 DEF CodeExpires, VerifyExpired
  <2> QED
    BY <2>1, Calm
<1>3. CASE WindowEnds \/ UNCHANGED vars
  <2>1. live' \subseteq live /\ failures' >= failures
        /\ UNCHANGED <<created, attempts, guess, tries, used>>
    BY <1>0, <1>3 DEF WindowEnds, vars, codeVars
  <2> QED
    BY <2>1, Calm
<1> QED
  BY <1>1, <1>2, <1>3, CreateKeeps, ReadKeeps, WrongKeeps, RightKeeps, DiesKeeps
  DEF Next, SenderStep, GuesserStep

LEMMA OtpInvariant == Spec => []OtpInv
BY InvInit, InvNext, OtpTypeCorrect, PTL DEF Spec

\* Attempts that run at once share an attempt, but only one each: the wrong
\* codes compared with a code are bounded, whatever the interleaving.
THEOREM GuessesLimited == Spec => []GuessesBounded
BY OtpInvariant, PTL DEF OtpInv

\* A code signs in at most once.
THEOREM SignsInOnce == Spec => []CodeUsedOnce
BY OtpInvariant, PTL DEF OtpInv

-------------------------------------------------------------------------------
(***************************************************************************)
(* The counter's time to live.                                             *)
(***************************************************************************)

\* A counter that is not there has no time to live left.
CounterInv == TypeOK /\ TimeToLiveIsOwed /\ (ttl => rate > 0)

\* Steps that leave the counter, and the requests that owe it a time to live.
LEMMA SameOwing ==
  ASSUME CounterInv, Owing' = Owing, UNCHANGED rateVars
  PROVE  TimeToLiveIsOwed' /\ (ttl' => rate' > 0)
<1>1. UNCHANGED <<rate, ttl, stuck>>
  BY DEF rateVars
<1> QED
  BY <1>1 DEF CounterInv, TimeToLiveIsOwed

\* Only a request that finds the counter at zero comes to owe a time to live, and
\* then nobody else does.
LEMMA CountOwes ==
  ASSUME CounterInv, NEW s \in Senders, SendCount(s)
  PROVE  TimeToLiveIsOwed' /\ (ttl' => rate' > 0)
<1>1. /\ rate \in Nat /\ RateLimit \in Nat /\ RateLimit > 0
      /\ rate' = Counted /\ UNCHANGED <<ttl, stuck>> /\ s \notin Owing
  BY Constants DEF CounterInv, TypeOK, SendCount, Owing
<1>2. CASE rate = 0
  <2>1. Counted = 1
    BY <1>1, <1>2 DEF Counted
  <2>2. sender' = [sender EXCEPT ![s] = "counted"]
    BY <2>1 DEF SendCount
  <2>3. ~ttl /\ ~stuck /\ Owing = {}
    BY <1>2 DEF CounterInv, TimeToLiveIsOwed
  <2>4. Owing' = {s}
    BY <2>2, <2>3 DEF Owing, CounterInv, TypeOK
  <2> QED
    BY <1>1, <2>1, <2>3, <2>4 DEF TimeToLiveIsOwed
<1>3. CASE rate > 0
  <2>1. Counted \in Nat /\ Counted > 1
    BY <1>1, <1>3 DEF Counted
  <2>2. Owing' = Owing
    BY <1>1, <2>1 DEF Owing, SendCount, CounterInv, TypeOK
  <2>3. rate' > 0 /\ ttl' = ttl /\ stuck' = stuck
    BY <1>1, <2>1
  <2> QED
    BY <1>3, <2>2, <2>3 DEF CounterInv, TimeToLiveIsOwed
<1> QED
  BY <1>1, <1>2, <1>3

\* The request that owes it gives it, or dies owing it.
LEMMA OwedOrLost ==
  ASSUME CounterInv, NEW s \in Senders, SendExpire(s) \/ SendDies(s)
  PROVE  TimeToLiveIsOwed' /\ (ttl' => rate' > 0)
<1>1. rate' = rate /\ Owing' = Owing \ {s}
  BY DEF Owing, SendExpire, SendDies, CounterInv, TypeOK
<1>2. CASE s \in Owing
  <2>1. rate > 0 /\ ~ttl /\ ~stuck /\ Owing' = {}
    BY <1>1, <1>2 DEF CounterInv, TimeToLiveIsOwed
  <2>2. \/ ttl' /\ ~stuck'
        \/ ~ttl' /\ stuck'
    BY <1>2, <2>1 DEF SendExpire, SendDies, Owing
  <2> QED
    BY <1>1, <2>1, <2>2 DEF TimeToLiveIsOwed
<1>3. CASE s \notin Owing
  <2>1. Owing' = Owing /\ UNCHANGED rateVars
    BY <1>1, <1>3 DEF SendExpire, SendDies, Owing, rateVars, CounterInv, TypeOK
  <2> QED
    BY <2>1, SameOwing
<1> QED
  BY <1>2, <1>3

LEMMA CounterNext == CounterInv /\ TypeOK' /\ [Next]_vars => CounterInv'
<1> SUFFICES ASSUME CounterInv, TypeOK', [Next]_vars
             PROVE  TimeToLiveIsOwed' /\ (ttl' => rate' > 0)
  BY DEF CounterInv
<1>1. ASSUME NEW s \in Senders, SendClear(s) \/ SendCreate(s)
      PROVE  Owing' = Owing /\ UNCHANGED rateVars
  BY <1>1 DEF SendClear, SendCreate, Owing, CounterInv, TypeOK
<1>2. ASSUME UNCHANGED <<rateVars, sender>> PROVE Owing' = Owing /\ UNCHANGED rateVars
  BY <1>2 DEF Owing
<1>3. ASSUME NEW g \in Guessers, GuesserStep(g) PROVE UNCHANGED <<rateVars, sender>>
  BY <1>3 DEF GuesserStep, VerifyRead, VerifyWrong, VerifyRight, VerifyDies
<1>4. ASSUME NEW c \in Codes, CodeExpires(c) \/ VerifyExpired(c)
      PROVE  UNCHANGED <<rateVars, sender>>
  BY <1>4 DEF CodeExpires, VerifyExpired
<1>5. CASE WindowEnds
  <2>1. ttl /\ rate' = 0 /\ ~ttl' /\ stuck' = stuck /\ Owing' = Owing
    BY <1>5 DEF WindowEnds, Owing
  <2>2. ~stuck /\ Owing = {}
    BY <2>1 DEF CounterInv, TimeToLiveIsOwed
  <2> QED
    BY <2>1, <2>2 DEF TimeToLiveIsOwed
<1>6. CASE UNCHANGED vars
  BY <1>2, <1>6, SameOwing DEF vars
<1> QED
  BY <1>1, <1>2, <1>3, <1>4, <1>5, <1>6, SameOwing, CountOwes, OwedOrLost DEF Next, SenderStep

\* A counter that has no time to live gets it from exactly one request, unless that
\* one died: then the counter stays for ever.
THEOREM CounterGoesOrStays == Spec => []TimeToLiveIsOwed
<1>1. Init => CounterInv
  <2> SUFFICES ASSUME Init PROVE CounterInv
    OBVIOUS
  <2>1. Owing = {} /\ rate = 0 /\ ~stuck /\ ~ttl
    BY DEF Init, Owing
  <2> QED
    BY <2>1, TypeInit DEF CounterInv, TimeToLiveIsOwed
<1>2. CounterInv => TimeToLiveIsOwed
  BY DEF CounterInv
<1> QED
  BY <1>1, <1>2, CounterNext, OtpTypeCorrect, PTL DEF Spec

-------------------------------------------------------------------------------
(***************************************************************************)
(* The codes keep the promise of OneTimeCodes.                             *)
(***************************************************************************)

\* The codes of OneTimeCodes somebody has signed in with.
Spent == {c \in Codes : used[c] > 0}

FewFailures == failures <= MaxFailures

LEMMA FailuresNext == TypeOK /\ FewFailures /\ [Next]_vars => FewFailures'
<1> SUFFICES ASSUME TypeOK, FewFailures, [Next]_vars PROVE FewFailures'
  OBVIOUS
<1>1. failures \in Nat /\ MaxFailures \in Nat /\ failures <= MaxFailures
  BY Constants DEF TypeOK, FewFailures
<1>2. failures' = failures \/ (failures < MaxFailures /\ failures' = failures + 1)
  BY DEF Next, SenderStep, GuesserStep, SendCount, SendExpire, SendClear, SendCreate, SendDies,
         VerifyRead, VerifyWrong, VerifyRight, VerifyDies, CodeExpires, VerifyExpired, WindowEnds, vars
<1> QED
  BY <1>1, <1>2 DEF FewFailures

LEMMA FailuresInvariant == Spec => []FewFailures
<1>1. Init => FewFailures
  BY Constants DEF Init, FewFailures
<1> QED
  BY <1>1, FailuresNext, OtpTypeCorrect, PTL DEF Spec

\* Steps that leave the codes' rows, comparisons and sign-ins alone stutter.
LEMMA CodesStutter ==
  ASSUME UNCHANGED <<created, live, tries, used>>
  PROVE  UNCHANGED Promised!codesVars
BY DEF Promised!codesVars

\* Rows that go without a sign-in are withdrawn.
LEMMA RowsWithdrawn ==
  ASSUME live' \subseteq live, UNCHANGED <<created, tries, used>>
  PROVE  Promised!Next
<1>1. UNCHANGED <<created, tries, Spent>>
  BY DEF Spent
<1> QED
  BY <1>1 DEF Promised!Next, Promised!Withdraw, Spent

\* OneTimeCodes counts its codes as OtpLogin does.
LEMMA SameCount == \A X : Promised!Cardinality(X) = Cardinality(X)
BY DEF Promised!Cardinality, Cardinality

\* The request that creates its row counted among those about to, so fewer codes
\* were good than requests can run at once.
LEMMA CreateIssues ==
  ASSUME TypeOK, LiveCodesBounded, NEW s \in Senders, SendCreate(s)
  PROVE  Promised!Next
<1>1. /\ created' = created + 1 /\ live' = live \union {created'}
      /\ UNCHANGED <<tries, used>>
  BY DEF SendCreate
<1>2. s \in Clearing
  BY DEF SendCreate, Clearing
<1>3. Cardinality(Clearing) # 0
  BY <1>2, LiveFinite, FS_EmptySet
<1>4. Cardinality(live) + Cardinality(Clearing) <= Cardinality(Senders)
  BY DEF LiveCodesBounded, Clearing
<1>5. Cardinality(live) < Cardinality(Senders)
  BY <1>3, <1>4, LiveFinite
<1>6. UNCHANGED Spent
  BY <1>1 DEF Spent
<1> QED
  BY <1>1, <1>5, <1>6, SameCount DEF Promised!Next, Promised!Issue, Spent

\* An attempt given the right code compares nothing that counts; any other one
\* compares the newest code, which can still take a wrong one.
LEMMA ReadCompares ==
  ASSUME TypeOK, TypeOK', GuessesBounded', FewFailures',
         NEW g \in Guessers, NEW given \in 0 .. created, VerifyRead(g, given)
  PROVE  Promised!Next \/ UNCHANGED Promised!codesVars
<1>1. /\ UNCHANGED <<created, live, used>>
      /\ \E c \in live : tries' = [tries EXCEPT ![c] = IF given = c THEN @ ELSE @ + 1]
  BY DEF VerifyRead, codeVars
<1>2. PICK c \in live : tries' = [tries EXCEPT ![c] = IF given = c THEN @ ELSE @ + 1]
  BY <1>1
<1>3. c \in Codes
  BY CodesAreNumbers
<1>4. CASE given = c
  <2>1. tries' = tries
    BY <1>2, <1>4 DEF TypeOK
  <2> QED
    BY <1>1, <2>1, CodesStutter
<1>5. CASE given # c
  <2>1. tries' = [tries EXCEPT ![c] = @ + 1] /\ tries'[c] = tries[c] + 1
    BY <1>2, <1>3, <1>5 DEF TypeOK
  <2>2. tries'[c] <= MaxAttempts + (Cardinality(Guessers) - 1) + failures'
    BY <1>3 DEF GuessesBounded
  <2>3. failures' <= MaxFailures /\ failures' \in Nat /\ tries[c] \in Nat
    BY <1>3 DEF FewFailures, TypeOK
  <2>4. Cardinality(Guessers) \in Nat
    BY ComparingFinite
  <2>5. tries[c] < MaxAttempts + (Cardinality(Guessers) - 1) + MaxFailures
    BY <2>1, <2>2, <2>3, <2>4, Constants
  <2>6. UNCHANGED Spent
    BY <1>1 DEF Spent
  <2>7. Promised!Compare(c)
    BY <1>1, <2>1, <2>5, <2>6 DEF Promised!Compare, Spent
  <2> QED
    BY <1>3, <2>7 DEF Promised!Next
<1> QED
  BY <1>4, <1>5

\* The attempt that deletes the row signs in; one that finds it gone does nothing.
LEMMA RightSignsIn ==
  ASSUME TypeOK, TypeOK', CountedWhileLive, NEW g \in Guessers, VerifyRight(g)
  PROVE  Promised!Next \/ UNCHANGED Promised!codesVars
<1> DEFINE c == guess[g].row
<1>1. /\ live' = live \ {c}
      /\ used' = [used EXCEPT ![c] = IF c \in live THEN @ + 1 ELSE @]
      /\ UNCHANGED <<created, tries>>
  BY DEF VerifyRight
<1>2. used \in [Codes -> Nat] /\ used' \in [Codes -> Nat]
  BY DEF TypeOK
<1> HIDE DEF c
<1>3. CASE c \in live
  <2>1. c \in Codes /\ used[c] = 0
    BY <1>3, CodesAreNumbers DEF CountedWhileLive
  <2>2. used'[c] = 1 /\ \A d \in Codes : d # c => used'[d] = used[d]
    BY <1>1, <1>2, <1>3, <2>1
  <2>3. c \notin Spent
    BY <2>1 DEF Spent
  <2>4. Spent' = Spent \union {c}
    BY <2>1, <2>2 DEF Spent
  <2>5. /\ c \in live \ Spent /\ live' = live \ {c}
        /\ Spent' = Spent \union {c} /\ UNCHANGED <<created, tries>>
    BY <1>1, <1>3, <2>3, <2>4
  <2>6. \E d \in Codes : Promised!SignIn(d)
    BY <2>1, <2>5 DEF Promised!SignIn, Spent
  <2> QED
    BY <2>6 DEF Promised!Next
<1>4. CASE c \notin live
  <2>1. live' = live /\ used' = used
    BY <1>1, <1>2, <1>4
  <2> QED
    BY <1>1, <2>1, CodesStutter
<1> QED
  BY <1>3, <1>4

\* However requests and attempts overlap or die, the sign-in implements
\* OneTimeCodes: a code is issued once, signs in at most once and only while its
\* row is there, and is compared with a limited number of wrong codes.
THEOREM CodesKeepTheirPromise == Spec => ImplementsCodes
<1>1. Init => Promised!Init
  <2> SUFFICES ASSUME Init PROVE Promised!Init
    OBVIOUS
  <2>1. Spent = {}
    BY DEF Init, Spent
  <2> QED
    BY <2>1 DEF Init, Promised!Init, Spent
<1>2. /\ TypeOK /\ TypeOK' /\ OtpInv /\ OtpInv' /\ LiveCodesBounded /\ FewFailures'
      /\ [Next]_vars
      => [Promised!Next]_(Promised!codesVars)
  <2> SUFFICES ASSUME TypeOK, TypeOK', OtpInv, OtpInv', LiveCodesBounded, FewFailures', [Next]_vars
               PROVE  Promised!Next \/ UNCHANGED Promised!codesVars
    OBVIOUS
  <2>1. ASSUME NEW s \in Senders, SendCount(s) \/ SendExpire(s) \/ SendDies(s)
        PROVE  UNCHANGED Promised!codesVars
    BY <2>1, CodesStutter DEF SendCount, SendExpire, SendDies, codeVars
  <2>2. ASSUME NEW s \in Senders, SendClear(s) PROVE Promised!Next
    BY <2>2, RowsWithdrawn DEF SendClear
  <2>3. ASSUME NEW s \in Senders, SendCreate(s) PROVE Promised!Next
    BY <2>3, CreateIssues
  <2>4. ASSUME NEW g \in Guessers, NEW given \in 0 .. created, VerifyRead(g, given)
        PROVE  Promised!Next \/ UNCHANGED Promised!codesVars
    BY <2>4, ReadCompares DEF OtpInv
  <2>5. ASSUME NEW g \in Guessers, VerifyRight(g)
        PROVE  Promised!Next \/ UNCHANGED Promised!codesVars
    BY <2>5, RightSignsIn DEF OtpInv
  <2>6. ASSUME NEW g \in Guessers, VerifyWrong(g) \/ VerifyDies(g)
        PROVE  UNCHANGED Promised!codesVars
    BY <2>6, CodesStutter DEF VerifyWrong, VerifyDies, codeVars
  <2>7. ASSUME NEW c \in Codes, CodeExpires(c) PROVE UNCHANGED Promised!codesVars
    BY <2>7, CodesStutter DEF CodeExpires
  <2>8. ASSUME NEW c \in Codes, VerifyExpired(c) PROVE Promised!Next
    BY <2>8, RowsWithdrawn DEF VerifyExpired
  <2>9. CASE WindowEnds \/ UNCHANGED vars
    BY <2>9, CodesStutter DEF WindowEnds, vars, codeVars
  <2> QED
    BY <2>1, <2>2, <2>3, <2>4, <2>5, <2>6, <2>7, <2>8, <2>9 DEF Next, SenderStep, GuesserStep
<1> QED
  BY <1>1, <1>2, OtpTypeCorrect, OtpInvariant, FewLiveCodes, FailuresInvariant, PTL
  DEF Spec, ImplementsCodes, Promised!Spec

-------------------------------------------------------------------------------
(***************************************************************************)
(* Sessions: what a tab's request has in hand depends on how far it came,  *)
(* and every token it has in hand is of one session.                       *)
(***************************************************************************)

TabShape(i) ==
  /\ tab[i].at \in {"get", "del", "revoke", "clear"} => tab[i].token # 0
  /\ tab[i].at # "answer" => tab[i].new = 0
  /\ At(i, "answer") => tab[i].new # 0
  /\ tab[i].token # 0 /\ tab[i].new # 0 => session[tab[i].token] = session[tab[i].new]

Shape ==
  /\ \A t \in 1 .. issued : session[t] \in 1 .. logins
  /\ \A i \in Tabs : TabShape(i)

\* The session that tab i's request is about; none, if it is a login or nothing.
About(i) ==
  IF tab[i].token # 0 THEN session[tab[i].token]
  ELSE IF tab[i].new # 0 THEN session[tab[i].new] ELSE 0

\* The tokens that may still be good while tab i's request is where it is.
Shown(i) ==
  IF tab[i].at \in {"get", "del", "revoke"} THEN {tab[i].token}
  ELSE IF At(i, "answer") THEN {tab[i].new} ELSE {}

JarOf(s) == jar # 0 /\ session[jar] = s
GoodOf(s) == {t \in stored : session[t] = s}
NoneAbout(s) == \A i \in Tabs : About(i) # s

\* As long as tabs do not overlap, one request and one good token at most, and
\* no good token from the deletion of the old one to the issue of the new one.
OneByOne(s) == "overlap" \notin why[s] =>
  /\ \A i, j \in Tabs : About(i) = s /\ About(j) = s => i = j
  /\ \A t, u \in GoodOf(s) : t = u
  /\ \A i \in Tabs, t \in GoodOf(s) : About(i) = s =>
       /\ At(i, "del") => t = tab[i].token
       /\ tab[i].at \notin {"check", "issue"}

\* If, moreover, no answer was lost, the good token is the one that the request
\* in progress has in hand, or the browser's; and a session that was left has none.
InHand(s) == why[s] \intersect {"overlap", "lost"} = {} =>
  /\ JarOf(s) /\ NoneAbout(s) => GoodOf(s) \subseteq {jar}
  /\ \A i \in Tabs : About(i) = s => GoodOf(s) \subseteq Shown(i)
  /\ s \in out => GoodOf(s) = {} /\ NoneAbout(s) /\ ~JarOf(s)

\* If nothing at all has happened to a session that was not left, the token that
\* the browser will show next is good.
StillGood(s) == why[s] = {} /\ s \notin out =>
  /\ JarOf(s) /\ NoneAbout(s) => jar \in stored
  /\ \A i \in Tabs : About(i) = s =>
       /\ At(i, "get") => tab[i].token \in stored
       /\ At(i, "answer") => tab[i].new \in stored

SessionsInv ==
  /\ SessionsTypeOK
  /\ Shape
  /\ \A s \in 1 .. logins : OneByOne(s) /\ InHand(s) /\ StillGood(s)
  /\ RefusalIsExplained

-------------------------------------------------------------------------------

LEMMA SessionsConstants ==
  /\ IsFiniteSet(Tabs)
  /\ MaxTokens \in Nat /\ MaxSessions \in Nat /\ MaxBans \in Nat /\ MaxLosses \in Nat
BY SessionsAssumption DEF SessionsAssumption

\* What the type says of the tabs and the numbers.
LEMMA TabFields ==
  ASSUME SessionsTypeOK
  PROVE  /\ issued \in Nat /\ logins \in Nat /\ issued <= MaxTokens /\ logins <= MaxSessions
         /\ 1 .. issued \subseteq Tokens /\ 1 .. logins \subseteq Known
         /\ \A i \in Tabs : /\ tab[i].at \in Steps \union {"idle"}
                            /\ tab[i].token \in 0 .. issued /\ tab[i].new \in 0 .. issued
                            /\ At(i, "idle") => tab[i] = Quiet
<1>1. issued \in Nat /\ logins \in Nat /\ issued <= MaxTokens /\ logins <= MaxSessions
  BY SessionsConstants DEF SessionsTypeOK
<1>2. 1 .. issued \subseteq Tokens /\ 1 .. logins \subseteq Known
  BY <1>1, SessionsConstants DEF Tokens, Known
<1>3. ASSUME NEW i \in Tabs
      PROVE  /\ tab[i].at \in Steps \union {"idle"}
             /\ tab[i].token \in 0 .. issued /\ tab[i].new \in 0 .. issued
             /\ At(i, "idle") => tab[i] = Quiet
  <2>1. tab[i] \in [at : Steps, token : 0 .. issued, new : 0 .. issued] \union {Quiet}
    BY DEF SessionsTypeOK
  <2> QED
    BY <1>1, <2>1 DEF Steps, Quiet, At
<1> QED
  BY <1>1, <1>2, <1>3

\* A tab that moves on stays well typed, and has in hand what it had.
LEMMA MovesType ==
  ASSUME SessionsTypeOK, NEW i \in Tabs, NEW step \in Steps, ~At(i, "idle"),
         MovesTo(i, step), issued' = issued
  PROVE  /\ tab' \in [Tabs -> [at : Steps, token : 0 .. issued', new : 0 .. issued'] \union {Quiet}]
         /\ tab'[i].at = step /\ tab'[i].token = tab[i].token /\ tab'[i].new = tab[i].new
         /\ \A j \in Tabs \ {i} : tab'[j] = tab[j]
<1>1. tab[i] \in [at : Steps, token : 0 .. issued, new : 0 .. issued]
  BY DEF SessionsTypeOK, At, Quiet
<1>2. [tab[i] EXCEPT !.at = step] \in [at : Steps, token : 0 .. issued, new : 0 .. issued]
  BY <1>1
<1>3. tab' = [tab EXCEPT ![i] = [tab[i] EXCEPT !.at = step]]
  BY DEF MovesTo
<1>4. tab'[i] = [tab[i] EXCEPT !.at = step]
  BY <1>3 DEF SessionsTypeOK
<1> QED
  BY <1>1, <1>2, <1>3, <1>4 DEF SessionsTypeOK

\* A tab that is done is quiet.
LEMMA EndsType ==
  ASSUME SessionsTypeOK, NEW i \in Tabs, Ends(i), issued' = issued
  PROVE  /\ tab' \in [Tabs -> [at : Steps, token : 0 .. issued', new : 0 .. issued'] \union {Quiet}]
         /\ tab'[i] = Quiet
         /\ \A j \in Tabs \ {i} : tab'[j] = tab[j]
BY DEF SessionsTypeOK, Ends

\* A note is one of the four, about one session.
LEMMA NotesType ==
  ASSUME SessionsTypeOK, NEW t \in 1 .. issued, session[t] \in 1 .. logins,
         NEW reason \in Reasons, Notes(t, reason)
  PROVE  /\ why' \in [Known -> SUBSET Reasons]
         /\ why'[session[t]] = why[session[t]] \union {reason}
         /\ \A s \in Known \ {session[t]} : why'[s] = why[s]
BY TabFields DEF SessionsTypeOK, Notes

LEMMA SessionsTypeInit == SessionsInit => SessionsTypeOK /\ Shape
<1> SUFFICES ASSUME SessionsInit PROVE SessionsTypeOK /\ Shape
  OBVIOUS
<1>1. SessionsTypeOK
  <2>1. tab \in [Tabs -> [at : Steps, token : 0 .. issued, new : 0 .. issued] \union {Quiet}]
    BY DEF SessionsInit
  <2>2. why \in [Known -> SUBSET Reasons] /\ session \in [Tokens -> 0 .. logins]
    BY DEF SessionsInit
  <2>3. /\ issued \in 0 .. MaxTokens /\ logins \in 0 .. MaxSessions /\ bans \in 0 .. MaxBans
        /\ jar \in 0 .. issued /\ losses \in Nat
    BY SessionsConstants DEF SessionsInit
  <2>4. stored = {} /\ out = {} /\ refused = {} /\ banned \in BOOLEAN
    BY DEF SessionsInit
  <2> QED
    BY <2>1, <2>2, <2>3, <2>4 DEF SessionsTypeOK
<1>2. Shape
  BY DEF SessionsInit, Shape, TabShape, Quiet, At
<1> QED
  BY <1>1, <1>2

LEMMA SessionsTypeNext ==
  SessionsTypeOK /\ Shape /\ [SessionsNext]_sessionsVars => SessionsTypeOK'
<1> SUFFICES ASSUME SessionsTypeOK, Shape, [SessionsNext]_sessionsVars PROVE SessionsTypeOK'
  OBVIOUS
<1> USE SessionsConstants
<1> DEFINE Request == [at : Steps, token : 0 .. issued, new : 0 .. issued] \union {Quiet}
<1>1. ASSUME NEW i \in Tabs, NEW step \in {"get", "revoke"}, Sends(i, step) PROVE SessionsTypeOK'
  <2>1. jar \in 1 .. issued /\ session[jar] \in 1 .. logins
    BY <1>1 DEF Sends, SessionsTypeOK, Shape
  <2>2. [at |-> step, token |-> jar, new |-> 0] \in Request
    BY <2>1, TabFields DEF Steps
  <2>3. tab' \in [Tabs -> Request]
    BY <1>1, <2>2 DEF Sends, SessionsTypeOK
  <2>4. why' \in [Known -> SUBSET Reasons]
    <3>1. CASE UNCHANGED why
      BY <3>1 DEF SessionsTypeOK
    <3>2. CASE Notes(jar, "overlap")
      BY <2>1, <3>2, NotesType DEF Reasons
    <3> QED
      BY <1>1, <3>1, <3>2 DEF Sends
  <2> QED
    BY <1>1, <2>3, <2>4 DEF Sends, SessionsTypeOK, tokenVars, banVars
<1>2. ASSUME NEW i \in Tabs, Login(i) PROVE SessionsTypeOK'
  <2>1. [at |-> "check", token |-> 0, new |-> 0] \in Request
    BY TabFields DEF Steps
  <2>2. tab' \in [Tabs -> Request]
    BY <1>2, <2>1 DEF Login, SessionsTypeOK
  <2> QED
    BY <1>2, <2>2 DEF Login, SessionsTypeOK, tokenVars, banVars, notes
<1>3. ASSUME NEW i \in Tabs, RefreshGet(i) PROVE SessionsTypeOK'
  <2>1. ~At(i, "idle") /\ "del" \in Steps /\ UNCHANGED issued
    BY <1>3 DEF RefreshGet, At, Steps, tokenVars
  <2>2. tab' \in [Tabs -> Request]
    BY <1>3, <2>1, MovesType, EndsType DEF RefreshGet
  <2>3. session[tab[i].token] \in 1 .. logins
    BY <1>3, TabFields DEF RefreshGet, Shape, TabShape, At
  <2> QED
    BY <1>3, <2>2, <2>3 DEF RefreshGet, SessionsTypeOK, tokenVars, banVars
<1>4. ASSUME NEW i \in Tabs, RefreshDel(i) PROVE SessionsTypeOK'
  <2>1. ~At(i, "idle") /\ "check" \in Steps /\ UNCHANGED issued
    BY <1>4 DEF RefreshDel, At, Steps
  <2>2. tab' \in [Tabs -> Request]
    BY <1>4, <2>1, MovesType DEF RefreshDel
  <2> QED
    BY <1>4, <2>2 DEF RefreshDel, SessionsTypeOK, banVars, notes
<1>5. ASSUME NEW i \in Tabs, Check(i) PROVE SessionsTypeOK'
  <2>1. ~At(i, "idle") /\ "issue" \in Steps /\ UNCHANGED issued
    BY <1>5 DEF Check, At, Steps, tokenVars
  <2>2. tab' \in [Tabs -> Request]
    BY <1>5, <2>1, MovesType, EndsType DEF Check
  <2>3. why' \in [Known -> SUBSET Reasons]
    <3>1. CASE UNCHANGED why
      BY <3>1 DEF SessionsTypeOK
    <3>2. CASE tab[i].token # 0 /\ Notes(tab[i].token, "banned")
      <4>1. tab[i].token \in 1 .. issued
        BY <3>2, TabFields
      <4> QED
        BY <3>2, <4>1, NotesType DEF Shape, Reasons
    <3> QED
      BY <1>5, <3>1, <3>2 DEF Check
  <2> QED
    BY <1>5, <2>2, <2>3 DEF Check, SessionsTypeOK, tokenVars, banVars
<1>6. ASSUME NEW i \in Tabs, Issue(i) PROVE SessionsTypeOK'
  <2> DEFINE s == IF tab[i].token = 0 THEN logins + 1 ELSE session[tab[i].token]
             new == issued + 1
  <2>1. /\ issued' = new /\ new \in Tokens /\ new \in 1 .. issued'
        /\ 1 .. issued \subseteq 1 .. issued' /\ 0 .. issued \subseteq 0 .. issued'
        /\ stored' = stored \union {new} /\ session' = [session EXCEPT ![new] = s]
    BY <1>6, TabFields DEF Issue
  <2>2. s \in Known /\ s \in 1 .. logins' /\ logins' \in 0 .. MaxSessions /\ logins <= logins'
    <3>1. s \in Known /\ logins' = IF s > logins THEN s ELSE logins
      BY <1>6 DEF Issue
    <3> HIDE DEF s
    <3> QED
      BY <3>1, TabFields DEF Known
  <2>3. /\ session' \in [Tokens -> 0 .. logins']
        /\ 1 .. logins \subseteq 1 .. logins'
    <3>1. 0 .. logins \subseteq 0 .. logins' /\ 1 .. logins' \subseteq 0 .. logins'
          /\ 1 .. logins \subseteq 1 .. logins'
      BY <2>2, TabFields
    <3> HIDE DEF s, new
    <3> QED
      BY <2>1, <2>2, <3>1 DEF SessionsTypeOK
  <2>4. tab' \in [Tabs -> [at : Steps, token : 0 .. issued', new : 0 .. issued'] \union {Quiet}]
    <3>1. tab[i] \in [at : Steps, token : 0 .. issued, new : 0 .. issued]
      BY <1>6 DEF Issue, At, SessionsTypeOK, Quiet
    <3>2. PICK r : r = [tab[i] EXCEPT !.at = "answer", !.new = new]
      OBVIOUS
    <3>3. r \in [at : Steps, token : 0 .. issued', new : 0 .. issued']
      <4>1. r = [at |-> "answer", token |-> tab[i].token, new |-> new]
        BY <3>1, <3>2
      <4>2. new \in 0 .. issued' /\ tab[i].token \in 0 .. issued'
        BY <2>1, <3>1, TabFields
      <4> HIDE DEF new
      <4> QED
        BY <4>1, <4>2 DEF Steps
    <3>4. tab' = [tab EXCEPT ![i] = r]
      BY <1>6, <3>2 DEF Issue, SessionsTypeOK
    <3>5. \A j \in Tabs : tab[j] \in [at : Steps, token : 0 .. issued', new : 0 .. issued'] \union {Quiet}
      <4>1. Request \subseteq [at : Steps, token : 0 .. issued', new : 0 .. issued'] \union {Quiet}
        BY <2>1
      <4> QED
        BY <4>1 DEF SessionsTypeOK
    <3> QED
      BY <3>3, <3>4, <3>5 DEF SessionsTypeOK
  <2>5. stored' \in SUBSET (1 .. issued') /\ jar' \in 0 .. issued'
    BY <1>6, <2>1 DEF Issue, SessionsTypeOK
  <2>6. issued' \in 0 .. MaxTokens
    BY <2>1, TabFields DEF Tokens
  <2> QED
    BY <1>6, <2>2, <2>3, <2>4, <2>5, <2>6 DEF Issue, SessionsTypeOK, banVars, notes
<1>7. ASSUME NEW i \in Tabs, Answer(i) PROVE SessionsTypeOK'
  <2>1. tab' \in [Tabs -> Request]
    BY <1>7, EndsType DEF Answer, tokenVars
  <2> QED
    BY <1>7, <2>1, TabFields DEF Answer, SessionsTypeOK, tokenVars, banVars, notes
<1>8. ASSUME NEW i \in Tabs, Revoke(i) PROVE SessionsTypeOK'
  <2>1. ~At(i, "idle") /\ "clear" \in Steps /\ UNCHANGED issued
    BY <1>8 DEF Revoke, At, Steps
  <2>2. tab' \in [Tabs -> Request]
    BY <1>8, <2>1, MovesType DEF Revoke
  <2> QED
    BY <1>8, <2>2 DEF Revoke, SessionsTypeOK, banVars, notes
<1>9. ASSUME NEW i \in Tabs, Clear(i) PROVE SessionsTypeOK'
  <2>1. tab' \in [Tabs -> Request]
    BY <1>9, EndsType DEF Clear, tokenVars
  <2>2. session[tab[i].token] \in 1 .. logins
    BY <1>9, TabFields DEF Clear, Shape, TabShape, At
  <2>3. jar' \in 0 .. issued
    BY <1>9, TabFields DEF Clear
  <2> QED
    BY <1>9, <2>1, <2>2, <2>3 DEF Clear, SessionsTypeOK, tokenVars, banVars
<1>10. ASSUME NEW i \in Tabs, RequestLost(i) PROVE SessionsTypeOK'
  <2>1. tab' \in [Tabs -> Request]
    BY <1>10, EndsType DEF RequestLost, tokenVars
  <2>2. why' \in [Known -> SUBSET Reasons]
    <3> DEFINE Gone(s) == \E t \in {tab[i].token, tab[i].new} \ {0} : session[t] = s
    <3>1. why' = [s \in Known |-> IF Gone(s) THEN why[s] \union {"lost"} ELSE why[s]]
      BY <1>10 DEF RequestLost
    <3> HIDE DEF Gone
    <3> QED
      BY <3>1 DEF SessionsTypeOK, Reasons
  <2>3. losses' \in Nat
    BY <1>10 DEF RequestLost, Fails, SessionsTypeOK
  <2> QED
    BY <1>10, <2>1, <2>2, <2>3 DEF RequestLost, SessionsTypeOK, tokenVars, banVars
<1>11. ASSUME NEW t \in Tokens, TokenEnds(t) PROVE SessionsTypeOK'
  <2>1. t \in 1 .. issued /\ session[t] \in 1 .. logins
    BY <1>11 DEF TokenEnds, SessionsTypeOK, Shape
  <2>2. why' \in [Known -> SUBSET Reasons]
    BY <1>11, <2>1, NotesType DEF TokenEnds, Reasons
  <2>3. losses' \in Nat
    BY <1>11 DEF TokenEnds, Fails, SessionsTypeOK
  <2> QED
    BY <1>11, <2>2, <2>3 DEF TokenEnds, SessionsTypeOK, banVars
<1>12. CASE SetBanned \/ UNCHANGED sessionsVars
  <2>1. bans' \in 0 .. MaxBans /\ banned' \in BOOLEAN
    <3>1. bans \in 0 .. MaxBans /\ banned \in BOOLEAN
      BY DEF SessionsTypeOK
    <3>2. bans' \in 0 .. MaxBans
      BY <1>12, <3>1 DEF SetBanned, sessionsVars, banVars
    <3>3. banned' = ~banned \/ banned' = banned
      BY <1>12 DEF SetBanned, sessionsVars, banVars
    <3> QED
      BY <3>1, <3>2, <3>3, Zenon
  <2>2. UNCHANGED <<tokenVars, jar, tab, notes, losses>>
    BY <1>12 DEF SetBanned, sessionsVars
  <2> QED
    BY <2>1, <2>2 DEF SessionsTypeOK, tokenVars, notes
<1> QED
  BY <1>1, <1>2, <1>3, <1>4, <1>5, <1>6, <1>7, <1>8, <1>9, <1>10, <1>11, <1>12
  DEF SessionsNext, TabStep, Refresh, Logout

-------------------------------------------------------------------------------
(***************************************************************************)
(* A session that a step has nothing to do with stays as it is.            *)
(***************************************************************************)

Fine(s) == OneByOne(s) /\ InHand(s) /\ StillGood(s)

\* A tab, and tokens issued before, are about what they were about.
LEMMA AboutSame ==
  ASSUME SessionsTypeOK, NEW j \in Tabs, tab'[j] = tab[j],
         \A t \in 1 .. issued : session'[t] = session[t]
  PROVE  About(j)' = About(j)
BY TabFields DEF About

\* The tokens a request has in hand are of the session it is about.
LEMMA HandOf ==
  ASSUME SessionsTypeOK, Shape, NEW i \in Tabs
  PROVE  /\ tab[i].token # 0 => session[tab[i].token] = About(i)
         /\ tab[i].new # 0 => session[tab[i].new] = About(i)
         /\ About(i) \in 0 .. logins
         /\ About(i) = 0 <=> tab[i].token = 0 /\ tab[i].new = 0
         /\ tab[i].at \in {"idle"} => About(i) = 0
         /\ tab[i].at \in {"get", "del", "revoke", "clear", "answer"} => About(i) \in 1 .. logins
<1>1. /\ tab[i].token # 0 => session[tab[i].token] \in 1 .. logins
      /\ tab[i].new # 0 => session[tab[i].new] \in 1 .. logins
  BY TabFields DEF Shape
<1>2. TabShape(i)
  BY DEF Shape
<1>3. tab[i].at = "idle" => tab[i].token = 0 /\ tab[i].new = 0
  BY TabFields DEF At, Quiet
<1> QED
  BY <1>1, <1>2, <1>3, TabFields DEF About, TabShape, At

LEMMA OtherSession ==
  ASSUME SessionsTypeOK, Shape, NEW s \in 1 .. logins, Fine(s),
         why'[s] = why[s],
         \A j \in Tabs : About(j) = s => About(j)' = s /\ tab'[j] = tab[j],
         \A j \in Tabs : About(j)' = s => About(j) = s,
         GoodOf(s)' = GoodOf(s),
         JarOf(s)' => JarOf(s) /\ jar' = jar,
         s \in out' <=> s \in out
  PROVE  Fine(s)'
<1>1. NoneAbout(s)' <=> NoneAbout(s)
  BY DEF NoneAbout
<1>2. OneByOne(s)'
  BY DEF Fine, OneByOne, At
<1>3. InHand(s)'
  BY <1>1 DEF Fine, InHand, Shown, At
<1>4. StillGood(s)'
  <2>1. SUFFICES ASSUME why[s] = {}, s \notin out PROVE /\ JarOf(s)' /\ NoneAbout(s)' => jar' \in stored'
                 /\ \A i \in Tabs : About(i)' = s =>
                      /\ At(i, "get")' => tab'[i].token \in stored'
                      /\ At(i, "answer")' => tab'[i].new \in stored'
    BY DEF StillGood
  <2>2. \A t : t \in stored /\ session[t] = s => t \in stored'
    BY DEF GoodOf
  <2>3. ASSUME JarOf(s)', NoneAbout(s)' PROVE jar' \in stored'
    BY <1>1, <2>1, <2>2, <2>3 DEF Fine, StillGood, JarOf
  <2>4. ASSUME NEW i \in Tabs, About(i)' = s
        PROVE  /\ At(i, "get")' => tab'[i].token \in stored'
               /\ At(i, "answer")' => tab'[i].new \in stored'
    <3>1. About(i) = s /\ tab'[i] = tab[i] /\ TabShape(i)
      BY <2>4 DEF Shape
    <3>2. /\ At(i, "get") => tab[i].token \in stored /\ session[tab[i].token] = s
          /\ At(i, "answer") => tab[i].new \in stored /\ session[tab[i].new] = s
      BY <2>1, <3>1, HandOf DEF Fine, StillGood, TabShape, At
    <3> QED
      BY <2>2, <3>1, <3>2 DEF At
  <2> QED
    BY <2>3, <2>4
<1> QED
  BY <1>2, <1>3, <1>4 DEF Fine

\* The shape is kept while no token is issued, if the tab that moved is right.
LEMMA ShapeKept ==
  ASSUME Shape, UNCHANGED <<issued, session, logins>>, NEW i \in Tabs, TabShape(i)',
         \A j \in Tabs \ {i} : tab'[j] = tab[j]
  PROVE  Shape'
<1>1. \A t \in 1 .. issued' : session'[t] \in 1 .. logins'
  BY DEF Shape
<1>2. ASSUME NEW j \in Tabs \ {i} PROVE TabShape(j)'
  <2>1. TabShape(j) /\ tab'[j] = tab[j]
    BY DEF Shape
  <2> QED
    BY <2>1 DEF TabShape, At
<1> QED
  BY <1>1, <1>2 DEF Shape

\* A refusal that was explained stays so while logouts and notes only grow.
LEMMA ExplainedKept ==
  ASSUME RefusalIsExplained, refused' = refused, out \subseteq out',
         \A s \in refused : why[s] \subseteq why'[s]
  PROVE  RefusalIsExplained'
BY DEF RefusalIsExplained

-------------------------------------------------------------------------------
(***************************************************************************)
(* Each step keeps the invariant.                                          *)
(***************************************************************************)

LEMMA SendsKeeps ==
  ASSUME SessionsInv, SessionsTypeOK', NEW i \in Tabs, NEW step \in {"get", "revoke"}, Sends(i, step)
  PROVE  SessionsInv'
<1> USE DEF SessionsInv
<1>1. /\ UNCHANGED <<issued, session, logins, stored, jar, out, refused>>
      /\ jar \in 1 .. issued /\ session[jar] \in 1 .. logins
  BY DEF Sends, tokenVars, SessionsTypeOK, Shape
<1>2. PICK s0 : s0 = session[jar]
  OBVIOUS
<1>3. s0 \in 1 .. logins /\ s0 \in Known /\ issued' = issued
  BY <1>1, <1>2, TabFields
<1>4. /\ tab'[i].at = step /\ tab'[i].token = jar /\ tab'[i].new = 0
      /\ \A j \in Tabs \ {i} : tab'[j] = tab[j]
  BY DEF Sends, SessionsTypeOK
<1>5. About(i) = 0 /\ About(i)' = s0 /\ \A j \in Tabs \ {i} : About(j)' = About(j)
  <2>1. About(i)' = s0
    BY <1>1, <1>2, <1>4 DEF About
  <2>2. About(i) = 0
    BY HandOf DEF Sends, At
  <2> QED
    BY <1>1, <1>4, <2>1, <2>2, AboutSame
<1>6. /\ \A s \in Known \ {s0} : why'[s] = why[s]
      /\ why[s0] \subseteq why'[s0]
      /\ "overlap" \notin why'[s0] => NoneAbout(s0) /\ why'[s0] = why[s0]
  <2>1. CASE Busy(session[jar]) = {} /\ UNCHANGED why
    <3>1. \A j \in Tabs : About(j) # s0
      <4>1. SUFFICES ASSUME NEW j \in Tabs, About(j) = s0 PROVE FALSE
        OBVIOUS
      <4>2. tab[j].at # "idle" /\ (tab[j].token # 0 \/ tab[j].new # 0)
        BY <1>3, <4>1, HandOf
      <4>3. tab[j].token \in TokensOf(s0) \/ tab[j].new \in TokensOf(s0)
        BY <1>3, <4>1, <4>2, HandOf, TabFields DEF TokensOf
      <4> QED
        BY <1>2, <2>1, <4>2, <4>3 DEF Busy, Involves
    <3> QED
      BY <2>1, <3>1 DEF NoneAbout
  <2>2. CASE Notes(jar, "overlap")
    BY <1>1, <1>2, <2>2, NotesType DEF Reasons
  <2> QED
    BY <2>1, <2>2 DEF Sends
<1>7. Shape'
  <2>1. TabShape(i)'
    BY <1>1, <1>4 DEF TabShape, At
  <2> QED
    BY <1>1, <1>4, <2>1, ShapeKept
<1>8. ASSUME NEW s \in 1 .. logins \ {s0} PROVE Fine(s)'
  <2>1. s \in Known \ {s0} /\ Fine(s) /\ s # 0
    BY TabFields DEF Fine
  <2>2. GoodOf(s)' = GoodOf(s) /\ (JarOf(s)' => JarOf(s) /\ jar' = jar)
    BY <1>1 DEF GoodOf, JarOf
  <2>3. \A j \in Tabs : /\ About(j) = s => About(j)' = s /\ tab'[j] = tab[j]
                        /\ About(j)' = s => About(j) = s
    BY <1>4, <1>5, <2>1
  <2> QED
    BY <1>1, <1>6, <2>1, <2>2, <2>3, OtherSession
<1>9. Fine(s0)'
  <2>1. CASE "overlap" \in why'[s0]
    BY <2>1 DEF Fine, OneByOne, InHand, StillGood
  <2>2. CASE "overlap" \notin why'[s0]
    <3>1. /\ NoneAbout(s0) /\ why'[s0] = why[s0] /\ Fine(s0) /\ JarOf(s0)
      BY <1>1, <1>2, <1>3, <1>6, <2>2 DEF Fine, JarOf
    <3>2. \A j \in Tabs : About(j)' = s0 => j = i
      BY <1>5, <3>1 DEF NoneAbout
    <3>3. GoodOf(s0)' = GoodOf(s0)
      BY <1>1 DEF GoodOf
    <3>4. OneByOne(s0)'
      BY <1>4, <3>1, <3>2, <3>3 DEF Fine, OneByOne, At
    <3>5. InHand(s0)'
      BY <1>1, <1>4, <1>5, <3>1, <3>2, <3>3 DEF Fine, InHand, Shown, NoneAbout, At
    <3>6. StillGood(s0)'
      BY <1>1, <1>4, <1>5, <3>1, <3>2, <3>3 DEF Fine, StillGood, NoneAbout, At
    <3> QED
      BY <3>4, <3>5, <3>6 DEF Fine
  <2> QED
    BY <2>1, <2>2
<1>10. RefusalIsExplained'
  BY <1>1, <1>6, ExplainedKept, TabFields DEF SessionsTypeOK
<1> QED
  BY <1>1, <1>7, <1>8, <1>9, <1>10 DEF Fine

\* A login's request is about no session yet.
LEMMA LoginKeeps ==
  ASSUME SessionsInv, SessionsTypeOK', NEW i \in Tabs, Login(i)
  PROVE  SessionsInv'
<1> USE DEF SessionsInv
<1>1. UNCHANGED <<issued, session, logins, stored, jar, out, refused, why>>
  BY DEF Login, tokenVars, notes
<1>2. /\ tab'[i].at = "check" /\ tab'[i].token = 0 /\ tab'[i].new = 0
      /\ \A j \in Tabs \ {i} : tab'[j] = tab[j]
  BY DEF Login, SessionsTypeOK
<1>3. About(i) = 0 /\ About(i)' = 0 /\ \A j \in Tabs \ {i} : About(j)' = About(j)
  <2>1. About(i)' = 0
    BY <1>2 DEF About
  <2>2. About(i) = 0
    BY HandOf DEF Login, At
  <2> QED
    BY <1>1, <1>2, <2>1, <2>2, AboutSame
<1>4. Shape'
  <2>1. TabShape(i)'
    BY <1>2 DEF TabShape, At
  <2> QED
    BY <1>1, <1>2, <2>1, ShapeKept
<1>5. ASSUME NEW s \in 1 .. logins PROVE Fine(s)'
  <2>1. Fine(s) /\ s # 0
    BY TabFields DEF Fine
  <2>2. GoodOf(s)' = GoodOf(s) /\ (JarOf(s)' => JarOf(s) /\ jar' = jar)
    BY <1>1 DEF GoodOf, JarOf
  <2>3. \A j \in Tabs : /\ About(j) = s => About(j)' = s /\ tab'[j] = tab[j]
                        /\ About(j)' = s => About(j) = s
    BY <1>2, <1>3, <2>1
  <2> QED
    BY <1>1, <2>1, <2>2, <2>3, OtherSession
<1>6. RefusalIsExplained'
  BY <1>1, ExplainedKept
<1> QED
  BY <1>1, <1>4, <1>5, <1>6 DEF Fine

\* A tab that moves on is about what it was about; only its own session can be
\* touched, by a token that it deletes.
LEMMA MovesKeeps ==
  ASSUME SessionsInv, NEW i \in Tabs, NEW step \in {"del", "check", "issue", "clear"},
         tab[i].at \in {"get", "del", "check", "revoke"}, MovesTo(i, step),
         step \in {"del", "clear"} => tab[i].token # 0,
         UNCHANGED <<issued, session, logins, jar, out, refused, why>>,
         stored' = stored \/ (tab[i].token # 0 /\ stored' = stored \ {tab[i].token})
  PROVE  /\ Shape' /\ RefusalIsExplained'
         /\ tab'[i].at = step /\ tab'[i].token = tab[i].token /\ tab'[i].new = 0
         /\ \A j \in Tabs \ {i} : tab'[j] = tab[j]
         /\ \A j \in Tabs : About(j)' = About(j)
         /\ \A s \in 1 .. logins : s # About(i) => Fine(s)'
<1> USE DEF SessionsInv
<1>1. /\ tab'[i].at = step /\ tab'[i].token = tab[i].token /\ tab'[i].new = tab[i].new
      /\ \A j \in Tabs \ {i} : tab'[j] = tab[j]
      /\ issued' = issued
  <2>1. step \in Steps /\ ~At(i, "idle")
    BY DEF Steps, At
  <2> QED
    BY <2>1, MovesType
<1>2. tab[i].new = 0
  BY DEF Shape, TabShape
<1>3. \A j \in Tabs : About(j)' = About(j)
  <2>1. About(i)' = About(i)
    BY <1>1, <1>2, TabFields DEF About
  <2> QED
    BY <1>1, <2>1, AboutSame
<1>4. Shape'
  <2>1. TabShape(i)'
    BY <1>1, <1>2 DEF TabShape, At, Shape
  <2> QED
    BY <1>1, <2>1, ShapeKept
<1>5. ASSUME NEW s \in 1 .. logins, s # About(i) PROVE Fine(s)'
  <2>1. Fine(s)
    BY DEF Fine
  <2>2. GoodOf(s)' = GoodOf(s)
    <3>1. tab[i].token # 0 => session[tab[i].token] # s
      BY <1>5, HandOf
    <3>2. \A t : t \in GoodOf(s)' <=> t \in GoodOf(s)
      BY <3>1 DEF GoodOf
    <3> QED
      BY <3>2
  <2>3. JarOf(s)' => JarOf(s) /\ jar' = jar
    BY DEF JarOf
  <2>4. \A j \in Tabs : /\ About(j) = s => About(j)' = s /\ tab'[j] = tab[j]
                        /\ About(j)' = s => About(j) = s
    BY <1>1, <1>3, <1>5
  <2> QED
    BY <2>1, <2>2, <2>3, <2>4, OtherSession
<1>6. RefusalIsExplained'
  BY ExplainedKept
<1> QED
  BY <1>1, <1>2, <1>3, <1>4, <1>5, <1>6

\* A request that ends without an answer touches its own session alone; that one
\* stays fine if an answer was lost, or if it had no good token and a reason.
LEMMA LeavesKeeps ==
  ASSUME SessionsInv, NEW i \in Tabs, Ends(i),
         UNCHANGED <<issued, session, logins, stored, jar, out>>,
         \A s \in 1 .. logins : why[s] \subseteq why'[s] /\ (s # About(i) => why'[s] = why[s]),
         About(i) # 0 =>
           /\ why'[About(i)] \intersect {"overlap", "lost"} = {} => GoodOf(About(i)) = {}
           /\ why'[About(i)] = {} => About(i) \in out
  PROVE  Shape' /\ \A s \in 1 .. logins : Fine(s)'
<1> USE DEF SessionsInv
<1>1. tab'[i] = Quiet /\ issued' = issued /\ \A j \in Tabs \ {i} : tab'[j] = tab[j]
  BY EndsType
<1>2. About(i)' = 0 /\ \A j \in Tabs \ {i} : About(j)' = About(j)
  <2>1. About(i)' = 0
    BY <1>1 DEF About, Quiet
  <2> QED
    BY <1>1, <2>1, AboutSame
<1>3. Shape'
  <2>1. TabShape(i)'
    BY <1>1 DEF TabShape, At, Quiet
  <2> QED
    BY <1>1, <2>1, ShapeKept
<1>4. ASSUME NEW s \in 1 .. logins PROVE Fine(s)'
  <2>1. /\ Fine(s) /\ s # 0 /\ GoodOf(s)' = GoodOf(s) /\ (JarOf(s)' => JarOf(s) /\ jar' = jar)
        /\ why[s] \subseteq why'[s]
    BY TabFields DEF Fine, GoodOf, JarOf
  <2>2. CASE s # About(i)
    <3>1. \A j \in Tabs : /\ About(j) = s => About(j)' = s /\ tab'[j] = tab[j]
                          /\ About(j)' = s => About(j) = s
      BY <1>1, <1>2, <2>1, <2>2
    <3> QED
      BY <2>1, <2>2, <3>1, OtherSession
  <2>3. CASE s = About(i)
    <3>1. \A j \in Tabs : About(j)' = s => j # i /\ About(j) = s /\ tab'[j] = tab[j]
      BY <1>1, <1>2, <2>1
    <3>2. OneByOne(s)'
      BY <2>1, <2>3, <3>1 DEF Fine, OneByOne, At
    <3>3. InHand(s)'
      BY <2>1, <2>3, <3>1 DEF Fine, InHand, OneByOne, NoneAbout
    <3>4. StillGood(s)'
      BY <2>1, <2>3 DEF StillGood
    <3> QED
      BY <3>2, <3>3, <3>4 DEF Fine
  <2> QED
    BY <2>2, <2>3
<1> QED
  BY <1>3, <1>4

LEMMA RefreshGetKeeps ==
  ASSUME SessionsInv, SessionsTypeOK', NEW i \in Tabs, RefreshGet(i)
  PROVE  SessionsInv'
<1> USE DEF SessionsInv
<1> DEFINE t == tab[i].token
<1>1. /\ tab[i].at = "get" /\ t # 0
      /\ UNCHANGED <<issued, session, logins, stored, jar, out, why>>
  BY DEF RefreshGet, At, Shape, TabShape, tokenVars
<1>2. PICK s0 \in 1 .. logins : s0 = About(i) /\ s0 = session[t]
  BY <1>1, HandOf
<1>3. Fine(s0)
  BY DEF Fine
<1>4. CASE t \in stored
  <2>1. MovesTo(i, "del") /\ UNCHANGED refused
    BY <1>4 DEF RefreshGet
  <2>2. /\ Shape' /\ RefusalIsExplained'
        /\ tab'[i].at = "del" /\ tab'[i].token = t /\ tab'[i].new = 0
        /\ \A j \in Tabs \ {i} : tab'[j] = tab[j]
        /\ \A j \in Tabs : About(j)' = About(j)
        /\ \A s \in 1 .. logins : s # About(i) => Fine(s)'
    BY <1>1, <2>1, MovesKeeps
  <2>3. t \in GoodOf(s0) /\ GoodOf(s0)' = GoodOf(s0)
    BY <1>1, <1>2, <1>4 DEF GoodOf
  <2>4. OneByOne(s0)'
    BY <1>1, <1>2, <1>3, <2>2, <2>3 DEF Fine, OneByOne, At
  <2>5. InHand(s0)'
    BY <1>1, <1>2, <1>3, <2>2, <2>3 DEF Fine, InHand, Shown, NoneAbout, JarOf, At
  <2>6. StillGood(s0)'
    BY <1>1, <1>2, <1>3, <2>2, <2>3 DEF Fine, StillGood, NoneAbout, JarOf, At
  <2> QED
    BY <1>1, <1>2, <2>2, <2>4, <2>5, <2>6 DEF Fine
<1>5. CASE t \notin stored
  <2>1. Ends(i) /\ refused' = refused \union {s0}
    BY <1>2, <1>5 DEF RefreshGet
  <2>2. why[s0] \intersect {"overlap", "lost"} = {} => GoodOf(s0) = {}
    <3>1. Shown(i) = {t} /\ t \notin GoodOf(s0)
      BY <1>1, <1>5 DEF Shown, GoodOf
    <3> QED
      BY <1>2, <1>3, <3>1 DEF Fine, InHand
  <2>3. why[s0] = {} => s0 \in out
    BY <1>1, <1>2, <1>3, <1>5 DEF Fine, StillGood, At
  <2>4. Shape' /\ \A s \in 1 .. logins : Fine(s)'
    BY <1>1, <1>2, <2>1, <2>2, <2>3, LeavesKeeps
  <2>5. RefusalIsExplained'
    BY <1>1, <2>1, <2>3 DEF RefusalIsExplained
  <2> QED
    BY <1>1, <2>4, <2>5 DEF Fine
<1> QED
  BY <1>4, <1>5

\* The old token goes, by a refresh or a logout: the session has no good token.
LEMMA DeletesKeeps ==
  ASSUME SessionsInv, SessionsTypeOK', NEW i \in Tabs, RefreshDel(i) \/ Revoke(i)
  PROVE  SessionsInv'
<1> USE DEF SessionsInv
<1> DEFINE t == tab[i].token
<1>1. PICK step \in {"check", "clear"} :
        /\ MovesTo(i, step) /\ tab[i].at = (IF step = "check" THEN "del" ELSE "revoke")
        /\ stored' = stored \ {t} /\ t # 0
        /\ UNCHANGED <<issued, session, logins, jar, out, refused, why>>
  BY DEF RefreshDel, Revoke, At, Shape, TabShape, notes
<1>2. PICK s0 \in 1 .. logins : s0 = About(i) /\ s0 = session[t]
  BY <1>1, HandOf
<1>3. Fine(s0)
  BY DEF Fine
<1>4. /\ Shape' /\ RefusalIsExplained'
      /\ tab'[i].at = step /\ tab'[i].token = t /\ tab'[i].new = 0
      /\ \A j \in Tabs \ {i} : tab'[j] = tab[j]
      /\ \A j \in Tabs : About(j)' = About(j)
      /\ \A s \in 1 .. logins : s # About(i) => Fine(s)'
  BY <1>1, MovesKeeps
<1>5. GoodOf(s0)' = GoodOf(s0) \ {t}
  BY <1>1 DEF GoodOf
<1>6. OneByOne(s0)'
  BY <1>1, <1>2, <1>3, <1>4, <1>5 DEF Fine, OneByOne, At
<1>7. InHand(s0)'
  <2>1. SUFFICES ASSUME why[s0] \intersect {"overlap", "lost"} = {}
                 PROVE  InHand(s0)'
    BY <1>1 DEF InHand
  <2>2. GoodOf(s0) \subseteq {t} /\ s0 \notin out
    BY <1>1, <1>2, <1>3, <2>1 DEF Fine, InHand, Shown, NoneAbout
  <2>3. GoodOf(s0)' = {}
    BY <1>5, <2>2
  <2> QED
    BY <1>1, <2>2, <2>3 DEF InHand
<1>8. StillGood(s0)'
  <2>1. SUFFICES ASSUME why[s0] = {} PROVE StillGood(s0)'
    BY <1>1 DEF StillGood
  <2>2. \A j \in Tabs : About(j)' = s0 => j = i
    <3>1. "overlap" \notin why[s0] /\ OneByOne(s0)
      BY <1>3, <2>1 DEF Fine
    <3>2. \A j, k \in Tabs : About(j) = s0 /\ About(k) = s0 => j = k
      BY <3>1 DEF OneByOne
    <3> QED
      BY <1>2, <1>4, <3>2
  <2>3. About(i)' = s0 /\ ~At(i, "get")' /\ ~At(i, "answer")'
    BY <1>1, <1>2, <1>4 DEF At
  <2> QED
    BY <2>2, <2>3 DEF StillGood, NoneAbout
<1> QED
  BY <1>1, <1>2, <1>4, <1>6, <1>7, <1>8 DEF Fine

LEMMA CheckKeeps ==
  ASSUME SessionsInv, SessionsTypeOK', NEW i \in Tabs, Check(i)
  PROVE  SessionsInv'
<1> USE DEF SessionsInv
<1> DEFINE t == tab[i].token
<1>1. /\ tab[i].at = "check" /\ tab[i].new = 0
      /\ UNCHANGED <<issued, session, logins, stored, jar, out, refused>>
  BY DEF Check, At, Shape, TabShape, tokenVars
<1>2. CASE ~banned
  <2>1. MovesTo(i, "issue") /\ UNCHANGED why
    BY <1>2 DEF Check
  <2>2. /\ Shape' /\ RefusalIsExplained'
        /\ tab'[i].at = "issue" /\ tab'[i].token = t /\ tab'[i].new = 0
        /\ \A j \in Tabs \ {i} : tab'[j] = tab[j]
        /\ \A j \in Tabs : About(j)' = About(j)
        /\ \A s \in 1 .. logins : s # About(i) => Fine(s)'
    BY <1>1, <2>1, MovesKeeps
  <2>3. ASSUME NEW s \in 1 .. logins, s = About(i) PROVE Fine(s)'
    <3>1. Fine(s) /\ GoodOf(s)' = GoodOf(s) /\ (JarOf(s)' <=> JarOf(s)) /\ (NoneAbout(s)' <=> NoneAbout(s))
      BY <1>1, <2>2 DEF Fine, GoodOf, JarOf, NoneAbout
    <3>2. OneByOne(s)'
      BY <1>1, <2>1, <2>2, <2>3, <3>1 DEF Fine, OneByOne, At
    <3>3. InHand(s)'
      BY <1>1, <2>1, <2>2, <2>3, <3>1 DEF Fine, InHand, Shown, At
    <3>4. StillGood(s)'
      BY <1>1, <2>1, <2>2, <2>3, <3>1 DEF Fine, StillGood, At
    <3> QED
      BY <3>2, <3>3, <3>4 DEF Fine
  <2> QED
    BY <1>1, <2>2, <2>3 DEF Fine
<1>3. CASE banned
  <2>1. Ends(i) /\ IF t = 0 THEN UNCHANGED why ELSE Notes(t, "banned")
    BY <1>3 DEF Check
  <2>2. t # 0 => /\ About(i) = session[t] /\ About(i) \in 1 .. logins
                 /\ why'[About(i)] = why[About(i)] \union {"banned"}
                 /\ \A s \in Known \ {About(i)} : why'[s] = why[s]
    <3>1. t # 0 => t \in 1 .. issued
      BY TabFields
    <3> QED
      BY <2>1, <3>1, HandOf, NotesType DEF Shape, Reasons
  <2>3. t = 0 => About(i) = 0 /\ why' = why
    BY <1>1, <2>1 DEF About
  <2>4. \A s \in 1 .. logins : why[s] \subseteq why'[s] /\ (s # About(i) => why'[s] = why[s])
    BY <2>2, <2>3, TabFields
  <2>5. ASSUME About(i) # 0, why'[About(i)] \intersect {"overlap", "lost"} = {}
        PROVE  GoodOf(About(i)) = {}
    <3>1. About(i) \in 1 .. logins /\ why[About(i)] \intersect {"overlap", "lost"} = {}
      BY <2>2, <2>3, <2>5
    <3> QED
      BY <1>1, <3>1 DEF InHand, Shown, At
  <2>6. Shape' /\ \A s \in 1 .. logins : Fine(s)'
    BY <1>1, <2>1, <2>2, <2>3, <2>4, <2>5, LeavesKeeps
  <2>7. RefusalIsExplained'
    BY <1>1, <2>4, ExplainedKept DEF SessionsTypeOK
  <2> QED
    BY <1>1, <2>6, <2>7 DEF Fine
<1> QED
  BY <1>2, <1>3

LEMMA IssueKeeps ==
  ASSUME SessionsInv, SessionsTypeOK', NEW i \in Tabs, Issue(i)
  PROVE  SessionsInv'
<1> USE DEF SessionsInv
<1>1. PICK new, s0 :
        /\ new = issued + 1 /\ new \in Tokens
        /\ s0 = (IF tab[i].token = 0 THEN logins + 1 ELSE session[tab[i].token]) /\ s0 \in Known
        /\ issued' = new /\ logins' = (IF s0 > logins THEN s0 ELSE logins)
        /\ session' = [session EXCEPT ![new] = s0] /\ stored' = stored \union {new}
        /\ tab' = [tab EXCEPT ![i].at = "answer", ![i].new = new]
        /\ UNCHANGED <<jar, out, refused, why>>
  BY DEF Issue, notes
<1>2. tab[i].at = "issue" /\ tab[i].new = 0
  BY DEF Issue, At, Shape, TabShape
<1>3. /\ new \in 1 .. issued' /\ new # 0 /\ 1 .. issued' = (1 .. issued) \union {new}
      /\ new \notin 0 .. issued
  BY <1>1, TabFields
<1>4. /\ session'[new] = s0 /\ \A t \in 1 .. issued : session'[t] = session[t]
      /\ \A t \in stored : t # new /\ t \in 1 .. issued
  BY <1>1, <1>3, TabFields DEF SessionsTypeOK
<1>5. /\ tab'[i].at = "answer" /\ tab'[i].token = tab[i].token /\ tab'[i].new = new
      /\ \A j \in Tabs \ {i} : tab'[j] = tab[j]
  <2>1. tab[i] \in [at : Steps, token : 0 .. issued, new : 0 .. issued]
    BY <1>2 DEF SessionsTypeOK, Quiet
  <2> QED
    BY <1>1, <2>1 DEF SessionsTypeOK
<1>6. /\ s0 \in 1 .. logins' /\ logins \in Nat /\ s0 \in Nat
      /\ tab[i].token = 0 => s0 = logins + 1 /\ About(i) = 0 /\ logins' = s0
      /\ tab[i].token # 0 => s0 \in 1 .. logins /\ About(i) = s0 /\ logins' = logins
      /\ 1 .. logins' = (1 .. logins) \union {s0}
  <2>1. tab[i].token # 0 => s0 \in 1 .. logins /\ About(i) = s0
    BY <1>1, TabFields DEF About, Shape
  <2>2. tab[i].token = 0 => s0 = logins + 1 /\ About(i) = 0
    BY <1>1, <1>2 DEF About
  <2> QED
    BY <1>1, <2>1, <2>2, TabFields
<1>7. /\ About(i)' = s0 /\ \A j \in Tabs \ {i} : About(j)' = About(j)
  <2>1. About(i)' = s0
    BY <1>1, <1>3, <1>4, <1>5, <1>6, TabFields DEF About
  <2> QED
    BY <1>4, <1>5, <2>1, AboutSame
<1>8. Shape'
  <2>1. \A t \in 1 .. issued' : session'[t] \in 1 .. logins'
    BY <1>3, <1>4, <1>6 DEF Shape
  <2>2. TabShape(i)'
    BY <1>3, <1>4, <1>5, <1>6, TabFields DEF TabShape, At, About
  <2>3. ASSUME NEW j \in Tabs \ {i} PROVE TabShape(j)'
    <3>1. TabShape(j) /\ tab'[j] = tab[j] /\ tab[j].token \in 0 .. issued /\ tab[j].new \in 0 .. issued
      BY <1>5, TabFields DEF Shape
    <3>2. /\ tab[j].token # 0 => session'[tab[j].token] = session[tab[j].token]
          /\ tab[j].new # 0 => session'[tab[j].new] = session[tab[j].new]
      BY <1>4, <3>1, TabFields
    <3> QED
      BY <3>1, <3>2 DEF TabShape, At
  <2> QED
    BY <2>1, <2>2, <2>3 DEF Shape
<1>9. \A s \in 1 .. logins' : /\ s # s0 => GoodOf(s)' = GoodOf(s)
                              /\ JarOf(s)' <=> JarOf(s)
  <2>1. ASSUME NEW s \in 1 .. logins' PROVE JarOf(s)' <=> JarOf(s)
    BY <1>1, <1>4, TabFields DEF JarOf, SessionsTypeOK
  <2>2. ASSUME NEW s \in 1 .. logins', s # s0 PROVE GoodOf(s)' = GoodOf(s)
    <3>1. \A t : t \in GoodOf(s)' <=> t \in GoodOf(s)
      BY <1>1, <1>4, <2>2 DEF GoodOf
    <3> QED
      BY <3>1
  <2> QED
    BY <2>1, <2>2
<1>10. ASSUME NEW s \in 1 .. logins', s # s0 PROVE Fine(s)'
  <2>1. s \in 1 .. logins /\ Fine(s) /\ s # 0
    BY <1>6, <1>10 DEF Fine
  <2>2. \A j \in Tabs : /\ About(j) = s => About(j)' = s /\ tab'[j] = tab[j]
                        /\ About(j)' = s => About(j) = s
    BY <1>5, <1>6, <1>7, <1>10, <2>1
  <2> QED
    BY <1>1, <1>9, <1>10, <2>1, <2>2, OtherSession
<1>11. Fine(s0)'
  <2>1. tab[i].token = 0 =>
          /\ GoodOf(s0) = {} /\ s0 \notin out /\ \A j \in Tabs : About(j) # s0
    <3>1. tab[i].token = 0 => s0 \notin 0 .. logins /\ s0 \notin 1 .. logins
      BY <1>6
    <3>2. \A t \in stored : session[t] \in 1 .. logins
      BY <1>4 DEF Shape
    <3>3. tab[i].token = 0 => GoodOf(s0) = {} /\ s0 \notin out
      <4>1. out \subseteq 1 .. logins
        BY DEF SessionsTypeOK
      <4> QED
        BY <3>1, <3>2, <4>1 DEF GoodOf
    <3>4. \A j \in Tabs : About(j) \in 0 .. logins
      BY HandOf
    <3> QED
      BY <3>1, <3>3, <3>4
  <2>2. GoodOf(s0)' = GoodOf(s0) \union {new}
    <3>1. \A t : t \in GoodOf(s0)' <=> t \in GoodOf(s0) \/ t = new
      BY <1>1, <1>4 DEF GoodOf
    <3> QED
      BY <3>1
  <2>3. tab[i].token # 0 => Fine(s0)
    BY <1>6 DEF Fine
  <2>4. "overlap" \notin why[s0] => GoodOf(s0) = {} /\ \A j \in Tabs : About(j) = s0 => j = i
    BY <1>2, <1>6, <2>1, <2>3 DEF Fine, OneByOne
  <2>5. "overlap" \notin why[s0] => GoodOf(s0)' = {new} /\ \A j \in Tabs : About(j)' = s0 => j = i
    BY <1>7, <2>2, <2>4
  <2>6. why[s0] \intersect {"overlap", "lost"} = {} => s0 \notin out
    BY <1>6, <2>1, <2>3 DEF Fine, InHand, NoneAbout
  <2>7. OneByOne(s0)'
    BY <1>1, <1>5, <2>5 DEF OneByOne, At
  <2>8. InHand(s0)'
    <3>1. SUFFICES ASSUME why[s0] \intersect {"overlap", "lost"} = {} PROVE InHand(s0)'
      BY <1>1 DEF InHand
    <3>2. Shown(i)' = {new} /\ GoodOf(s0)' = {new} /\ s0 \notin out' /\ ~NoneAbout(s0)'
      BY <1>1, <1>5, <1>7, <2>5, <2>6, <3>1 DEF Shown, NoneAbout, At
    <3>3. \A j \in Tabs : About(j)' = s0 => j = i
      BY <2>5, <3>1
    <3> QED
      BY <3>2, <3>3 DEF InHand
  <2>9. StillGood(s0)'
    <3>1. SUFFICES ASSUME why[s0] = {} PROVE StillGood(s0)'
      BY <1>1 DEF StillGood
    <3>2. new \in stored' /\ ~NoneAbout(s0)' /\ tab'[i].new = new /\ ~At(i, "get")'
      BY <1>1, <1>5, <1>7 DEF NoneAbout, At
    <3>3. \A j \in Tabs : About(j)' = s0 => j = i
      BY <2>5, <3>1
    <3> QED
      BY <3>2, <3>3 DEF StillGood
  <2> QED
    BY <2>7, <2>8, <2>9 DEF Fine
<1>12. RefusalIsExplained'
  BY <1>1, ExplainedKept
<1> QED
  BY <1>8, <1>10, <1>11, <1>12 DEF Fine

LEMMA AnswerKeeps ==
  ASSUME SessionsInv, SessionsTypeOK', NEW i \in Tabs, Answer(i)
  PROVE  SessionsInv'
<1> USE DEF SessionsInv
<1> DEFINE new == tab[i].new
<1>1. /\ tab[i].at = "answer" /\ new # 0 /\ jar' = new /\ Ends(i)
      /\ UNCHANGED <<issued, session, logins, stored, out, refused, why>>
  BY DEF Answer, At, Shape, TabShape, tokenVars, notes
<1>2. PICK s0 \in 1 .. logins : s0 = About(i) /\ s0 = session[new]
  BY <1>1, HandOf
<1>3. tab'[i] = Quiet /\ issued' = issued /\ \A j \in Tabs \ {i} : tab'[j] = tab[j]
  BY <1>1, EndsType
<1>4. About(i)' = 0 /\ \A j \in Tabs \ {i} : About(j)' = About(j)
  <2>1. About(i)' = 0
    BY <1>3 DEF About, Quiet
  <2> QED
    BY <1>1, <1>3, <2>1, AboutSame
<1>5. Shape'
  <2>1. TabShape(i)'
    BY <1>3 DEF TabShape, At, Quiet
  <2> QED
    BY <1>1, <1>3, <2>1, ShapeKept
<1>6. ASSUME NEW s \in 1 .. logins, s # s0 PROVE Fine(s)'
  <2>1. Fine(s) /\ GoodOf(s)' = GoodOf(s) /\ ~JarOf(s)' /\ s # 0
    BY <1>1, <1>2, <1>6, TabFields DEF Fine, GoodOf, JarOf
  <2>2. \A j \in Tabs : /\ About(j) = s => About(j)' = s /\ tab'[j] = tab[j]
                        /\ About(j)' = s => About(j) = s
    BY <1>2, <1>3, <1>4, <1>6, <2>1
  <2> QED
    BY <1>1, <2>1, <2>2, OtherSession
<1>7. Fine(s0)'
  <2>1. Fine(s0) /\ GoodOf(s0)' = GoodOf(s0) /\ s0 # 0
    BY <1>1, TabFields DEF Fine, GoodOf
  <2>2. \A j \in Tabs : About(j)' = s0 => j # i /\ About(j) = s0 /\ tab'[j] = tab[j]
    BY <1>3, <1>4, <2>1
  <2>3. OneByOne(s0)'
    BY <1>1, <2>1, <2>2 DEF Fine, OneByOne, At
  <2>4. InHand(s0)'
    <3>1. SUFFICES ASSUME why[s0] \intersect {"overlap", "lost"} = {} PROVE InHand(s0)'
      BY <1>1 DEF InHand
    <3>2. GoodOf(s0) \subseteq {new} /\ s0 \notin out
      BY <1>1, <1>2, <2>1, <3>1 DEF Fine, InHand, Shown, NoneAbout, At
    <3>3. \A j \in Tabs : About(j)' # s0
      BY <1>2, <2>1, <2>2, <3>1 DEF Fine, OneByOne
    <3> QED
      BY <1>1, <2>1, <3>2, <3>3 DEF InHand
  <2>5. StillGood(s0)'
    <3>1. SUFFICES ASSUME why[s0] = {}, s0 \notin out PROVE StillGood(s0)'
      BY <1>1 DEF StillGood
    <3>2. new \in stored
      BY <1>1, <1>2, <2>1, <3>1 DEF Fine, StillGood, At
    <3>3. \A j \in Tabs : About(j)' # s0
      BY <1>2, <2>1, <2>2, <3>1 DEF Fine, OneByOne
    <3> QED
      BY <1>1, <3>2, <3>3 DEF StillGood
  <2> QED
    BY <2>3, <2>4, <2>5 DEF Fine
<1>8. RefusalIsExplained'
  BY <1>1, ExplainedKept
<1> QED
  BY <1>1, <1>5, <1>6, <1>7, <1>8 DEF Fine

LEMMA ClearKeeps ==
  ASSUME SessionsInv, SessionsTypeOK', NEW i \in Tabs, Clear(i)
  PROVE  SessionsInv'
<1> USE DEF SessionsInv
<1>1. /\ tab[i].at = "clear" /\ tab[i].token # 0 /\ jar' = 0 /\ Ends(i)
      /\ out' = out \union {session[tab[i].token]}
      /\ UNCHANGED <<issued, session, logins, stored, refused, why>>
  BY DEF Clear, At, Shape, TabShape, tokenVars
<1>2. PICK s0 \in 1 .. logins : s0 = About(i) /\ s0 = session[tab[i].token]
  BY <1>1, HandOf
<1>3. tab'[i] = Quiet /\ issued' = issued /\ \A j \in Tabs \ {i} : tab'[j] = tab[j]
  BY <1>1, EndsType
<1>4. About(i)' = 0 /\ \A j \in Tabs \ {i} : About(j)' = About(j)
  <2>1. About(i)' = 0
    BY <1>3 DEF About, Quiet
  <2> QED
    BY <1>1, <1>3, <2>1, AboutSame
<1>5. Shape'
  <2>1. TabShape(i)'
    BY <1>3 DEF TabShape, At, Quiet
  <2> QED
    BY <1>1, <1>3, <2>1, ShapeKept
<1>6. ASSUME NEW s \in 1 .. logins, s # s0 PROVE Fine(s)'
  <2>1. Fine(s) /\ GoodOf(s)' = GoodOf(s) /\ ~JarOf(s)' /\ s # 0 /\ (s \in out' <=> s \in out)
    BY <1>1, <1>2, <1>6, TabFields DEF Fine, GoodOf, JarOf
  <2>2. \A j \in Tabs : /\ About(j) = s => About(j)' = s /\ tab'[j] = tab[j]
                        /\ About(j)' = s => About(j) = s
    BY <1>2, <1>3, <1>4, <1>6, <2>1
  <2> QED
    BY <1>1, <2>1, <2>2, OtherSession
<1>7. Fine(s0)'
  <2>1. Fine(s0) /\ GoodOf(s0)' = GoodOf(s0) /\ s0 # 0 /\ ~JarOf(s0)' /\ s0 \in out'
    BY <1>1, <1>2, TabFields DEF Fine, GoodOf, JarOf
  <2>2. \A j \in Tabs : About(j)' = s0 => j # i /\ About(j) = s0 /\ tab'[j] = tab[j]
    BY <1>3, <1>4, <2>1
  <2>3. OneByOne(s0)'
    BY <1>1, <2>1, <2>2 DEF Fine, OneByOne, At
  <2>4. InHand(s0)'
    <3>1. SUFFICES ASSUME why[s0] \intersect {"overlap", "lost"} = {} PROVE InHand(s0)'
      BY <1>1 DEF InHand
    <3>2. GoodOf(s0) = {}
      BY <1>1, <1>2, <2>1, <3>1 DEF Fine, InHand, Shown, At
    <3>3. \A j \in Tabs : About(j)' # s0
      BY <1>2, <2>1, <2>2, <3>1 DEF Fine, OneByOne
    <3> QED
      BY <2>1, <3>2, <3>3 DEF InHand, NoneAbout
  <2>5. StillGood(s0)'
    BY <2>1 DEF StillGood
  <2> QED
    BY <2>3, <2>4, <2>5 DEF Fine
<1>8. RefusalIsExplained'
  BY <1>1, ExplainedKept
<1> QED
  BY <1>1, <1>5, <1>6, <1>7, <1>8 DEF Fine

LEMMA RequestLostKeeps ==
  ASSUME SessionsInv, SessionsTypeOK', NEW i \in Tabs, RequestLost(i)
  PROVE  SessionsInv'
<1> USE DEF SessionsInv
<1>1. Ends(i) /\ UNCHANGED <<issued, session, logins, stored, jar, out, refused>>
  BY DEF RequestLost, tokenVars
<1>2. \A s \in Known :
        why'[s] = IF \E t \in {tab[i].token, tab[i].new} \ {0} : session[t] = s
                  THEN why[s] \union {"lost"} ELSE why[s]
  BY DEF RequestLost
<1>3. ASSUME NEW s \in 1 .. logins
      PROVE  why'[s] = IF s = About(i) THEN why[s] \union {"lost"} ELSE why[s]
  <2>1. s \in Known /\ s # 0
    BY TabFields
  <2>2. (\E t \in {tab[i].token, tab[i].new} \ {0} : session[t] = s) <=> s = About(i)
    BY <2>1, HandOf
  <2> QED
    BY <1>2, <2>1, <2>2
<1>4. About(i) # 0 => About(i) \in 1 .. logins
  BY HandOf, TabFields
<1>5. Shape' /\ \A s \in 1 .. logins : Fine(s)'
  BY <1>1, <1>3, <1>4, LeavesKeeps
<1>6. RefusalIsExplained'
  BY <1>1, <1>3, ExplainedKept DEF SessionsTypeOK
<1> QED
  BY <1>1, <1>5, <1>6 DEF Fine

LEMMA TokenEndsKeeps ==
  ASSUME SessionsInv, SessionsTypeOK', NEW t \in Tokens, TokenEnds(t)
  PROVE  SessionsInv'
<1> USE DEF SessionsInv
<1>1. /\ stored' = stored \ {t} /\ t \in 1 .. issued
      /\ UNCHANGED <<issued, session, logins, jar, tab, out, refused>>
  BY DEF TokenEnds, SessionsTypeOK
<1>2. PICK s0 \in 1 .. logins : s0 = session[t]
  BY <1>1 DEF Shape
<1>3. /\ why'[s0] = why[s0] \union {"ended"}
      /\ \A s \in Known \ {s0} : why'[s] = why[s]
  BY <1>1, <1>2, NotesType DEF TokenEnds, Reasons
<1>4. Shape' /\ (\A j \in Tabs : About(j)' = About(j))
  BY <1>1 DEF Shape, TabShape, At, About
<1>5. ASSUME NEW s \in 1 .. logins, s # s0 PROVE Fine(s)'
  <2>1. Fine(s) /\ (JarOf(s)' => JarOf(s) /\ jar' = jar) /\ s \in Known
    BY <1>1, TabFields DEF Fine, JarOf
  <2>2. GoodOf(s)' = GoodOf(s)
    <3>1. \A u : u \in GoodOf(s)' <=> u \in GoodOf(s)
      BY <1>1, <1>2, <1>5 DEF GoodOf
    <3> QED
      BY <3>1
  <2> QED
    BY <1>1, <1>3, <1>4, <1>5, <2>1, <2>2, OtherSession
<1>6. Fine(s0)'
  <2>1. /\ Fine(s0) /\ GoodOf(s0)' \subseteq GoodOf(s0)
        /\ (JarOf(s0)' <=> JarOf(s0)) /\ (NoneAbout(s0)' <=> NoneAbout(s0))
    BY <1>1, <1>4 DEF Fine, GoodOf, JarOf, NoneAbout
  <2>2. OneByOne(s0)'
    BY <1>1, <1>3, <1>4, <2>1 DEF Fine, OneByOne, At
  <2>3. InHand(s0)'
    BY <1>1, <1>3, <1>4, <2>1 DEF Fine, InHand, Shown, At
  <2>4. StillGood(s0)'
    BY <1>3 DEF StillGood
  <2> QED
    BY <2>2, <2>3, <2>4 DEF Fine
<1>7. RefusalIsExplained'
  BY <1>1, <1>3, ExplainedKept, TabFields DEF SessionsTypeOK
<1> QED
  BY <1>1, <1>4, <1>5, <1>6, <1>7 DEF Fine

LEMMA SessionsInvInit == SessionsInit => SessionsInv
<1> SUFFICES ASSUME SessionsInit PROVE SessionsInv
  OBVIOUS
<1>1. 1 .. logins = {}
  BY DEF SessionsInit
<1>2. RefusalIsExplained
  BY DEF SessionsInit, RefusalIsExplained
<1> QED
  BY <1>1, <1>2, SessionsTypeInit DEF SessionsInv

LEMMA SessionsInvNext == SessionsInv /\ [SessionsNext]_sessionsVars => SessionsInv'
<1> SUFFICES ASSUME SessionsInv, [SessionsNext]_sessionsVars PROVE SessionsInv'
  OBVIOUS
<1>1. SessionsTypeOK'
  BY SessionsTypeNext DEF SessionsInv
<1>2. CASE SetBanned \/ UNCHANGED sessionsVars
  <2>1. UNCHANGED <<issued, session, logins, stored, jar, tab, out, refused, why>>
    BY <1>2 DEF SetBanned, sessionsVars, tokenVars, notes
  <2> QED
    BY <1>1, <2>1 DEF SessionsInv, Shape, TabShape, OneByOne, InHand, StillGood, RefusalIsExplained,
                      About, Shown, JarOf, GoodOf, NoneAbout, At
<1> QED
  BY <1>1, <1>2, SendsKeeps, LoginKeeps, RefreshGetKeeps, DeletesKeeps, CheckKeeps, IssueKeeps,
     AnswerKeeps, ClearKeeps, RequestLostKeeps, TokenEndsKeeps
  DEF SessionsNext, TabStep, Refresh, Logout

LEMMA SessionsInvariant == SessionsSpec => []SessionsInv
BY SessionsInvInit, SessionsInvNext, PTL DEF SessionsSpec

\* Every reachable state of the sessions is well typed.
THEOREM SessionsTypeCorrect == SessionsSpec => []SessionsTypeOK
BY SessionsInvariant, PTL DEF SessionsInv

-------------------------------------------------------------------------------

\* The good tokens and the requests of a session, as the invariants count them.
LEMMA CountedAs ==
  ASSUME SessionsInv, NEW s \in 1 .. logins
  PROVE  /\ stored \intersect TokensOf(s) = GoodOf(s)
         /\ Busy(s) = {i \in Tabs : About(i) = s}
         /\ jar \in TokensOf(s) <=> JarOf(s)
<1> USE DEF SessionsInv
<1>1. s # 0 /\ issued \in Nat
  BY TabFields
<1>2. stored \intersect TokensOf(s) = GoodOf(s)
  <2>1. stored \subseteq 1 .. issued
    BY DEF SessionsTypeOK
  <2> QED
    BY <2>1 DEF TokensOf, GoodOf
<1>3. jar \in TokensOf(s) <=> JarOf(s)
  BY <1>1 DEF TokensOf, JarOf, SessionsTypeOK
<1>4. ASSUME NEW i \in Tabs PROVE Involves(i, s) <=> About(i) = s
  <2>1. /\ tab[i].token \in TokensOf(s) <=> tab[i].token # 0 /\ session[tab[i].token] = s
        /\ tab[i].new \in TokensOf(s) <=> tab[i].new # 0 /\ session[tab[i].new] = s
    BY <1>1, TabFields DEF TokensOf
  <2>2. Involves(i, s) <=> /\ tab[i].at # "idle"
                           /\ tab[i].token \in TokensOf(s) \/ tab[i].new \in TokensOf(s)
    BY DEF Involves
  <2> QED
    BY <1>1, <2>1, <2>2, HandOf
<1> QED
  BY <1>2, <1>3, <1>4 DEF Busy

\* A set whose members are all the same has at most one.
LEMMA AtMostOne ==
  ASSUME NEW S, \A x, y \in S : x = y
  PROVE  Cardinality(S) \in {0, 1} /\ (S = {} => Cardinality(S) = 0)
<1>1. CASE S = {}
  BY <1>1, FS_EmptySet
<1>2. CASE S # {}
  <2>1. PICK x : S = {x}
    BY <1>2
  <2> QED
    BY <2>1, FS_Singleton
<1> QED
  BY <1>1, <1>2

\* As long as the tabs do not overlap, a session has one token, in the store or
\* about to be: rotation never leaves two that work.
THEOREM OneTokenPerSession == SessionsSpec => []OneLiveToken
<1>1. SessionsInv => OneLiveToken
  <2> SUFFICES ASSUME SessionsInv, NEW s \in 1 .. logins, "overlap" \notin why[s]
               PROVE  Cardinality(stored \intersect TokensOf(s)) + Cardinality(Rotating(s)) <= 1
    BY DEF OneLiveToken
  <2>1. OneByOne(s)
    BY DEF SessionsInv
  <2>2. Rotating(s) = {i \in Tabs : About(i) = s /\ tab[i].at \in {"check", "issue"}}
    BY CountedAs DEF Rotating
  <2>3. \A i, j \in Rotating(s) : i = j
    BY <2>1, <2>2 DEF OneByOne
  <2>4. Rotating(s) = {} \/ GoodOf(s) = {}
    BY <2>1, <2>2 DEF OneByOne
  <2>5. \A t, u \in GoodOf(s) : t = u
    BY <2>1 DEF OneByOne
  <2>6. PICK m, n \in {0, 1} : /\ m = Cardinality(GoodOf(s)) /\ n = Cardinality(Rotating(s))
                               /\ m = 0 \/ n = 0
    BY <2>3, <2>4, <2>5, AtMostOne
  <2>7. m + n <= 1
    BY <2>6
  <2> QED
    BY <2>6, <2>7, CountedAs
<1> QED
  BY <1>1, SessionsInvariant, PTL

\* A logout lasts: no token of the session is good or will be, and the browser
\* has none, unless requests overlapped or an answer was lost.
THEOREM LogoutLasts == SessionsSpec => []LogoutSticks
<1>1. SessionsInv => LogoutSticks
  <2> SUFFICES ASSUME SessionsInv, NEW s \in out, why[s] \intersect {"overlap", "lost"} = {}
               PROVE  /\ stored \intersect TokensOf(s) = {}
                      /\ Busy(s) = {} /\ jar \notin TokensOf(s)
    BY DEF LogoutSticks
  <2>1. s \in 1 .. logins
    BY DEF SessionsInv, SessionsTypeOK
  <2>2. InHand(s)
    BY <2>1 DEF SessionsInv
  <2>3. GoodOf(s) = {} /\ NoneAbout(s) /\ ~JarOf(s)
    BY <2>2 DEF InHand
  <2> QED
    BY <2>1, <2>3, CountedAs DEF NoneAbout
<1> QED
  BY <1>1, SessionsInvariant, PTL

\* Nobody is signed out for no reason: a refused session was left, or banned, or
\* at the end of its life, or lost an answer, or its tabs overlapped.
THEOREM RefusalsExplained == SessionsSpec => []RefusalIsExplained
BY SessionsInvariant, PTL DEF SessionsInv
================================================================================

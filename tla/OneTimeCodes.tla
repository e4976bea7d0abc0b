------------------------------ MODULE OneTimeCodes -----------------------------
(***************************************************************************)
(* What a phone's codes promise, whoever sends them and however attempts   *)
(* overlap: a code is good from its issue until it is used or withdrawn,   *)
(* is never good again, signs in at most once and only while it is good,   *)
(* and is compared with a limited number of wrong codes.  An abstraction   *)
(* of OtpLogin: requests, counters, lifetimes and crashes are gone.        *)
(***************************************************************************)
EXTENDS Naturals, FiniteSets

CONSTANTS
  Codes,      \* the codes, numbered as they are issued
  MaxGood,    \* how many may be good at once
  MaxWrong    \* how many wrong codes one is compared with

VARIABLES
  issued,     \* number of codes issued so far
  good,       \* the codes one can sign in with
  wrong,      \* wrong[c]: wrong codes that were compared with c
  spent       \* the codes somebody has signed in with

codesVars == <<issued, good, wrong, spent>>

Init ==
  /\ issued = 0
  /\ good = {}
  /\ wrong = [c \in Codes |-> 0]
  /\ spent = {}

Issue ==
  /\ Cardinality(good) < MaxGood
  /\ issued' = issued + 1
  /\ good' = good \union {issued'}
  /\ UNCHANGED <<wrong, spent>>

Withdraw ==
  /\ good' \in SUBSET good
  /\ UNCHANGED <<issued, wrong, spent>>

Compare(c) ==
  /\ c \in good
  /\ wrong[c] < MaxWrong
  /\ wrong' = [wrong EXCEPT ![c] = @ + 1]
  /\ UNCHANGED <<issued, good, spent>>

SignIn(c) ==
  /\ c \in good \ spent
  /\ good' = good \ {c}
  /\ spent' = spent \union {c}
  /\ UNCHANGED <<issued, wrong>>

Next ==
  \/ Issue
  \/ Withdraw
  \/ \E c \in Codes : Compare(c) \/ SignIn(c)

Spec == Init /\ [][Next]_codesVars
================================================================================

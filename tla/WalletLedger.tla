----------------------------- MODULE WalletLedger -----------------------------
(***************************************************************************)
(* What the wallet promises, seen as a bookkeeper would: a balance moves   *)
(* only by posting an entry, by voiding one, or by an explicit adjustment, *)
(* each in the same step as the balance, and no entry is ever posted or    *)
(* voided twice.  An abstraction of Payments: callbacks, claims, crashes   *)
(* and statuses are gone.                                                  *)
(***************************************************************************)
EXTENDS Integers

CONSTANTS
  Users,
  Entries,      \* everything that may be posted: credits, reversals, payouts
  Voidable,     \* the entries that may be taken back
  Adjustments   \* the amounts of a manual adjustment, of either sign

VARIABLES
  terms,        \* whose entry it is and what posting it adds to the balance
  balance,
  posted,
  voided,
  adjusted

ledgerVars == <<terms, balance, posted, voided, adjusted>>

Init ==
  /\ terms \in [Entries -> [user : Users, amount : Int]]
  /\ balance = [u \in Users |-> 0]
  /\ posted = {}
  /\ voided = {}
  /\ adjusted = [u \in Users |-> 0]

Post(e) ==
  /\ e \notin posted
  /\ posted' = posted \union {e}
  /\ balance' = [balance EXCEPT ![terms[e].user] = @ + terms[e].amount]
  /\ UNCHANGED <<terms, voided, adjusted>>

Void(e) ==
  /\ e \in (posted \intersect Voidable) \ voided
  /\ voided' = voided \union {e}
  /\ balance' = [balance EXCEPT ![terms[e].user] = @ - terms[e].amount]
  /\ UNCHANGED <<terms, posted, adjusted>>

Adjust(u, n) ==
  /\ balance' = [balance EXCEPT ![u] = @ + n]
  /\ adjusted' = [adjusted EXCEPT ![u] = @ + n]
  /\ UNCHANGED <<terms, posted, voided>>

Next ==
  \/ \E e \in Entries : Post(e) \/ Void(e)
  \/ \E u \in Users, n \in Adjustments : Adjust(u, n)

Spec == Init /\ [][Next]_ledgerVars
===============================================================================

------------------------------- MODULE Payments -------------------------------
(***************************************************************************)
(* The money of the platform: gateway payments, the wallet, payouts and    *)
(* the admin's wallet operations.                                          *)
(*                                                                         *)
(* A handler is cut where it awaits: each action is one statement (or one  *)
(* database transaction) of it, and any number of handlers interleave.     *)
(* PostgreSQL runs at READ COMMITTED, so what a handler read at one await  *)
(* may be stale at the next; a guarded updateMany is atomic.               *)
(*                                                                         *)
(* The boost and business-account effects are last-writer assignments of   *)
(* other tables and appear here only through delivered; the wallet top-up  *)
(* effect is kept in full.  Ad charges are in AdBilling.                   *)
(***************************************************************************)
EXTENDS Integers, FiniteSets

CONSTANTS
  Users,        \* owners of a wallet
  Payments,     \* ids of gateway payments (authorities)
  Verifiers,    \* the callback calls that may serve one payment at a time
  Payouts,      \* createPayout calls
  MaxAmount,    \* bound on every single amount of money
  MaxAdjusted   \* bound on what an admin credits to a wallet, net of debits

ASSUME PayoutsAssumption  == IsFiniteSet(Payouts)
ASSUME PaymentsAssumption == IsFiniteSet(Payments)
ASSUME AmountsAssumption  == MaxAmount \in Nat /\ MaxAdjusted \in Nat

VARIABLES
  payment,    \* the payment rows
  gateway,    \* ZarinPal's own view of each authority
  verifier,   \* where each callback call of each payment stands
  delivered,  \* history: how often the effect of a payment was applied
  orphaned,   \* history: payments claimed by a call that died before the effect
  wallet,     \* user.walletBalance
  payout,     \* the createPayout calls with the row each one creates
  approving,  \* payouts an admin's approvePayout has read as pending
  shown,      \* payouts an open page of the admin panel shows as approved
  adjusted    \* history: walletCredit minus walletDebit, per user

paymentVars == <<payment, gateway, verifier, delivered, orphaned>>
payoutVars  == <<payout, approving, shown>>
vars        == <<paymentVars, wallet, payoutVars, adjusted>>

Amounts  == 1..MaxAmount
Purposes == {"boost", "businessAccount", "walletTopup"}

PaymentStatus == {"none", "pending", "success", "failed", "refunded"}
PayoutStatus  == {"none", "pending", "approved", "rejected", "paid", "deleted"}
VerifierPC    == {"idle", "ask", "cancel", "fail", "claim", "effect"}
PayoutPC      == {"idle", "counted", "taken", "short", "done", "lost"}

\* A status of "none" is a row that does not exist (yet).
PaymentRow == [status : PaymentStatus, purpose : Purposes, user : Users, amount : Amounts]
PayoutRow  == [pc : PayoutPC, status : PayoutStatus, user : Users, amount : Amounts]

TypeOK ==
  /\ payment   \in [Payments -> PaymentRow]
  /\ gateway   \in [Payments -> {"none", "open", "paid", "verified"}]
  /\ verifier  \in [Payments -> [Verifiers -> VerifierPC]]
  /\ delivered \in [Payments -> Nat]
  /\ orphaned  \in SUBSET Payments
  /\ wallet    \in [Users -> Int]
  /\ payout    \in [Payouts -> PayoutRow]
  /\ approving \in SUBSET Payouts
  /\ shown     \in SUBSET Payouts
  /\ adjusted  \in [Users -> Int]

\* What each call will ask for is chosen here, once and for all.
Init ==
  /\ payment   \in [Payments -> {row \in PaymentRow : row.status = "none"}]
  /\ gateway   = [p \in Payments |-> "none"]
  /\ verifier  = [p \in Payments |-> [v \in Verifiers |-> "idle"]]
  /\ delivered = [p \in Payments |-> 0]
  /\ orphaned  = {}
  /\ wallet    = [u \in Users |-> 0]
  /\ payout    \in [Payouts -> {row \in PayoutRow : row.status = "none" /\ row.pc = "idle"}]
  /\ approving = {}
  /\ shown     = {}
  /\ adjusted  = [u \in Users |-> 0]

(***************************************************************************)
(* initiate: the authority is opened at the gateway first, the row is      *)
(* written afterwards, and only then does the user get the payment URL.    *)
(***************************************************************************)
InitiateRequest(p) ==
  /\ gateway[p] = "none"
  /\ gateway' = [gateway EXCEPT ![p] = "open"]
  /\ UNCHANGED <<payment, verifier, delivered, orphaned, wallet, payoutVars, adjusted>>

InitiateCreate(p) ==
  /\ gateway[p] = "open"
  /\ payment[p].status = "none"
  /\ payment' = [payment EXCEPT ![p].status = "pending"]
  /\ UNCHANGED <<gateway, verifier, delivered, orphaned, wallet, payoutVars, adjusted>>

\* The user pays on the gateway's page, whatever the row says meanwhile.
GatewayPay(p) ==
  /\ gateway[p] = "open"
  /\ payment[p].status # "none"
  /\ gateway' = [gateway EXCEPT ![p] = "paid"]
  /\ UNCHANGED <<payment, verifier, delivered, orphaned, wallet, payoutVars, adjusted>>

(***************************************************************************)
(* verify, the public callback.  A row that is no longer pending is        *)
(* answered at once and changes nothing.                                   *)
(***************************************************************************)
Goes(p, v, from, to) ==
  /\ verifier[p][v] = from
  /\ verifier' = [verifier EXCEPT ![p][v] = to]

VerifyRead(p, v) ==
  /\ payment[p].status = "pending"
  /\ \E next \in {"ask", "cancel"} : Goes(p, v, "idle", next)   \* Status = OK or not
  /\ UNCHANGED <<payment, gateway, delivered, orphaned, wallet, payoutVars, adjusted>>

\* Mutant: a plain update instead of the guarded updateMany.
VerifyMarkFailed_Unguarded(p, v) ==
  /\ Goes(p, v, "cancel", "idle") \/ Goes(p, v, "fail", "idle")
  /\ payment' = [payment EXCEPT ![p].status = "failed"]
  /\ UNCHANGED <<gateway, delivered, orphaned, wallet, payoutVars, adjusted>>

\* updateMany where status = pending, set to failed: after a callback that says
\* the user gave up, and after the gateway's refusal.
VerifyMarkFailed(p, v) ==
  /\ Goes(p, v, "cancel", "idle") \/ Goes(p, v, "fail", "idle")
  /\ payment' = [payment EXCEPT ![p].status = IF @ = "pending" THEN "failed" ELSE @]
  /\ UNCHANGED <<gateway, delivered, orphaned, wallet, payoutVars, adjusted>>

\* Mutant: any answer of the gateway counts as success.
VerifyAsk_AnyCode(p, v) ==
  /\ Goes(p, v, "ask", "claim")
  /\ gateway' = [gateway EXCEPT ![p] = IF @ = "paid" THEN "verified" ELSE @]
  /\ UNCHANGED <<payment, delivered, orphaned, wallet, payoutVars, adjusted>>

\* The gateway accepts a paid authority (code 100) and one it has already
\* verified (code 101); both count as success.
VerifyAsk(p, v) ==
  /\ \/ /\ gateway[p] \in {"paid", "verified"}
        /\ Goes(p, v, "ask", "claim")
        /\ gateway' = [gateway EXCEPT ![p] = "verified"]
     \/ /\ gateway[p] = "open"
        /\ Goes(p, v, "ask", "fail")
        /\ UNCHANGED gateway
  /\ UNCHANGED <<payment, delivered, orphaned, wallet, payoutVars, adjusted>>

\* The network loses the gateway's answer and the call throws.
VerifyAnswerLost(p, v) ==
  /\ Goes(p, v, "ask", "idle")
  /\ gateway' = [gateway EXCEPT ![p] = IF @ = "paid" THEN "verified" ELSE @]
  /\ UNCHANGED <<payment, delivered, orphaned, wallet, payoutVars, adjusted>>

\* Mutant: the count of the updateMany is not looked at.
VerifyClaim_NoCount(p, v) ==
  /\ Goes(p, v, "claim", "effect")
  /\ payment' = [payment EXCEPT ![p].status = IF @ = "pending" THEN "success" ELSE @]
  /\ UNCHANGED <<gateway, delivered, orphaned, wallet, payoutVars, adjusted>>

\* Mutant: the call that wins the claim returns as the others do.
VerifyClaim_Returns(p, v) ==
  /\ Goes(p, v, "claim", "idle")
  /\ payment' = [payment EXCEPT ![p].status = IF @ = "pending" THEN "success" ELSE @]
  /\ UNCHANGED <<gateway, delivered, orphaned, wallet, payoutVars, adjusted>>

\* The claim: updateMany where status = pending, set to success.  The call whose
\* update affected the row goes on to the effect, any other returns.
VerifyClaim(p, v) ==
  /\ IF payment[p].status = "pending"
     THEN /\ Goes(p, v, "claim", "effect")
          /\ payment' = [payment EXCEPT ![p].status = "success"]
     ELSE /\ Goes(p, v, "claim", "idle")
          /\ UNCHANGED payment
  /\ UNCHANGED <<gateway, delivered, orphaned, wallet, payoutVars, adjusted>>

Plus(u, n) == wallet' = [wallet EXCEPT ![u] = @ + n]

\* A boost or a business account writes the post or the user; a top-up
\* increments the balance.
VerifyEffect(p, v) ==
  /\ Goes(p, v, "effect", "idle")
  /\ delivered' = [delivered EXCEPT ![p] = @ + 1]
  /\ IF payment[p].purpose = "walletTopup"
     THEN Plus(payment[p].user, payment[p].amount)
     ELSE UNCHANGED wallet
  /\ UNCHANGED <<payment, gateway, orphaned, payoutVars, adjusted>>

\* The process dies, or the statement the call is at throws.
VerifyAbort(p, v) ==
  /\ verifier[p][v] # "idle"
  /\ verifier' = [verifier EXCEPT ![p][v] = "idle"]
  /\ orphaned' = IF verifier[p][v] = "effect" THEN orphaned \union {p} ELSE orphaned
  /\ UNCHANGED <<payment, gateway, delivered, wallet, payoutVars, adjusted>>

\* Mutant: the wallet is decremented without the balance guard.
MarkRefunded_NoBalance(p) ==
  LET u == payment[p].user
      a == payment[p].amount
  IN /\ payment[p].status = "success"
     /\ payment' = [payment EXCEPT ![p].status = "refunded"]
     /\ IF payment[p].purpose = "walletTopup" THEN Plus(u, -a) ELSE UNCHANGED wallet
     /\ UNCHANGED <<gateway, verifier, delivered, orphaned, payoutVars, adjusted>>

\* Mutant: the claim of the refund does not ask for status = success.
MarkRefunded_NoClaim(p) ==
  LET u == payment[p].user
      a == payment[p].amount
  IN /\ payment[p].status \in {"success", "refunded"}
     /\ payment' = [payment EXCEPT ![p].status = "refunded"]
     /\ IF payment[p].purpose = "walletTopup"
        THEN wallet[u] >= a /\ Plus(u, -a)
        ELSE UNCHANGED wallet
     /\ UNCHANGED <<gateway, verifier, delivered, orphaned, payoutVars, adjusted>>

\* markRefunded: the claim and the wallet reversal commit together, and the
\* transaction rolls back when a top-up has already been spent.
MarkRefunded(p) ==
  LET u == payment[p].user
      a == payment[p].amount
  IN /\ payment[p].status = "success"
     /\ payment' = [payment EXCEPT ![p].status = "refunded"]
     /\ IF payment[p].purpose = "walletTopup"
        THEN wallet[u] >= a /\ Plus(u, -a)
        ELSE UNCHANGED wallet
     /\ UNCHANGED <<gateway, verifier, delivered, orphaned, payoutVars, adjusted>>

(***************************************************************************)
(* createPayout: count the outstanding requests; take the money and write  *)
(* the row in one transaction; read the balance back; undo both when it is *)
(* negative.                                                               *)
(***************************************************************************)
Outstanding == {"pending", "approved"}

PayoutCount(r) ==
  /\ payout[r].pc = "idle"
  /\ \A s \in Payouts : payout[s].user = payout[r].user => payout[s].status \notin Outstanding
  /\ payout' = [payout EXCEPT ![r].pc = "counted"]
  /\ UNCHANGED <<paymentVars, wallet, approving, shown, adjusted>>

PayoutTake(r) ==
  /\ payout[r].pc = "counted"
  /\ payout' = [payout EXCEPT ![r].pc = "taken", ![r].status = "pending"]
  /\ Plus(payout[r].user, -payout[r].amount)
  /\ UNCHANGED <<paymentVars, approving, shown, adjusted>>

PayoutCheck(r) ==
  /\ payout[r].pc = "taken"
  /\ payout' = [payout EXCEPT ![r].pc = IF wallet[payout[r].user] < 0 THEN "short" ELSE "done"]
  /\ UNCHANGED <<paymentVars, wallet, approving, shown, adjusted>>

\* Mutant: the compensation returns the money and keeps the row.
PayoutUndo_KeepsRow(r) ==
  /\ payout[r].pc = "short"
  /\ payout' = [payout EXCEPT ![r].pc = "done"]
  /\ Plus(payout[r].user, payout[r].amount)
  /\ UNCHANGED <<paymentVars, approving, shown, adjusted>>

PayoutUndo(r) ==
  /\ payout[r].pc = "short"
  /\ payout' = [payout EXCEPT ![r].pc = "done", ![r].status = "deleted"]
  /\ Plus(payout[r].user, payout[r].amount)
  /\ UNCHANGED <<paymentVars, approving, shown, adjusted>>

\* A call that dies before the transaction leaves nothing; one that dies after
\* it is never undone.
PayoutAbort(r) ==
  /\ payout[r].pc \in {"counted", "taken", "short"}
  /\ payout' = [payout EXCEPT ![r].pc = IF @ = "counted" THEN "done" ELSE "lost"]
  /\ UNCHANGED <<paymentVars, wallet, approving, shown, adjusted>>

(***************************************************************************)
(* The admin's handling of a payout.  The panel offers approve and reject  *)
(* on a row it shows as pending and "paid" on one it shows as approved,    *)
(* and may have been loaded long ago.  On the server only approvePayout    *)
(* looks at the status, and it does so before its own update; an update of *)
(* a deleted row throws.                                                   *)
(***************************************************************************)
RowExists(r) == payout[r].status \notin {"none", "deleted"}

ApproveRead(r) ==
  /\ payout[r].status = "pending"
  /\ approving' = approving \union {r}
  /\ UNCHANGED <<paymentVars, wallet, payout, shown, adjusted>>

ApproveWrite(r) ==
  /\ r \in approving
  /\ approving' = approving \ {r}
  /\ payout' = [payout EXCEPT ![r].status = IF RowExists(r) THEN "approved" ELSE @]
  /\ UNCHANGED <<paymentVars, wallet, shown, adjusted>>

RejectPayout(r) ==
  /\ RowExists(r)
  /\ payout' = [payout EXCEPT ![r].status = "rejected"]
  /\ UNCHANGED <<paymentVars, wallet, approving, shown, adjusted>>

ShowApproved(r) ==
  /\ payout[r].status = "approved"
  /\ shown' = shown \union {r}
  /\ UNCHANGED <<paymentVars, wallet, payout, approving, adjusted>>

MarkPayoutPaid(r) ==
  /\ r \in shown
  /\ RowExists(r)
  /\ payout' = [payout EXCEPT ![r].status = "paid"]
  /\ UNCHANGED <<paymentVars, wallet, approving, shown, adjusted>>

(***************************************************************************)
(* The admin's direct operations on a wallet.                              *)
(***************************************************************************)
WalletCredit(u, a) ==
  /\ adjusted[u] + a <= MaxAdjusted       \* bound of the model
  /\ Plus(u, a)
  /\ adjusted' = [adjusted EXCEPT ![u] = @ + a]
  /\ UNCHANGED <<paymentVars, payoutVars>>

\* The balance guard is in the update's WHERE clause.
WalletDebit(u, a) ==
  /\ wallet[u] >= a
  /\ Plus(u, -a)
  /\ adjusted' = [adjusted EXCEPT ![u] = @ - a]
  /\ UNCHANGED <<paymentVars, payoutVars>>

-------------------------------------------------------------------------------

VerifyStep(p, v) ==
  \/ VerifyRead(p, v)
  \/ VerifyMarkFailed(p, v)
  \/ VerifyAsk(p, v)
  \/ VerifyAnswerLost(p, v)
  \/ VerifyClaim(p, v)
  \/ VerifyEffect(p, v)
  \/ VerifyAbort(p, v)

PaymentStep(p) ==
  \/ InitiateRequest(p)
  \/ InitiateCreate(p)
  \/ GatewayPay(p)
  \/ MarkRefunded(p)
  \/ \E v \in Verifiers : VerifyStep(p, v)

PayoutStep(r) ==
  \/ PayoutCount(r)
  \/ PayoutTake(r)
  \/ PayoutCheck(r)
  \/ PayoutUndo(r)
  \/ PayoutAbort(r)
  \/ ApproveRead(r)
  \/ ApproveWrite(r)
  \/ RejectPayout(r)
  \/ ShowApproved(r)
  \/ MarkPayoutPaid(r)

AdminStep(u, a) == WalletCredit(u, a) \/ WalletDebit(u, a)

Next ==
  \/ \E p \in Payments : PaymentStep(p)
  \/ \E r \in Payouts : PayoutStep(r)
  \/ \E u \in Users, a \in Amounts : AdminStep(u, a)

Spec == Init /\ [][Next]_vars

(***************************************************************************)
(* Money as a set: one element per unit of money, so that a sum of amounts *)
(* is a cardinality.  Units(S, row) stands for the amounts of the rows S.  *)
(***************************************************************************)
Units(S, row) == {x \in S \X Amounts : x[2] <= row[x[1]].amount}
Total(S, row) == Cardinality(Units(S, row))

\* Payouts whose money is taken and whose balance check is not over yet, or
\* never will be because the call died.
Unsettled(u) == {r \in Payouts : payout[r].user = u /\ payout[r].pc \in {"taken", "short", "lost"}}

\* A wallet is overdrawn by at most the payouts of its owner that are still
\* being checked: markRefunded, walletDebit and the compensation of
\* createPayout never let a balance stay below zero on their own.
Solvent == \A u \in Users : wallet[u] + Total(Unsettled(u), payout) >= 0

TopUps(u)    == {p \in Payments : payment[p].user = u /\ payment[p].purpose = "walletTopup"}
Credited(u)  == {p \in TopUps(u) : delivered[p] > 0}
Reversed(u)  == {p \in TopUps(u) : payment[p].status = "refunded"}
Withdrawn(u) == {r \in Payouts : payout[r].user = u /\ RowExists(r)}

\* What the code takes and does not give back: a rejected payout, for rejectPayout
\* writes the status only; and the refund of a top-up that was claimed and not (or
\* not yet) credited, for markRefunded looks at the status only.
Rejected(u)      == {r \in Withdrawn(u) : payout[r].status = "rejected"}
NeverCredited(u) == Reversed(u) \ Credited(u)

\* Every unit in a wallet is explained by a row or an adjustment: top-ups that were
\* credited and not refunded, plus the admin's net adjustment, less the payouts that
\* wait, are approved or are paid, less the two kinds of money not given back.  That
\* a payout taken back by its own call, a replay or a lost race moves anything else
\* would show here; that users lose nothing is not said, and false of the code.
Balanced ==
  \A u \in Users :
    wallet[u] = Total(Credited(u) \ Reversed(u), payment) + adjusted[u]
                - Total(Withdrawn(u) \ Rejected(u), payout)
                - Total(Rejected(u), payout) - Total(NeverCredited(u), payment)

\* However often the callback is replayed and however many calls race, the
\* effect of a payment is applied at most once.
DeliveredOnce == \A p \in Payments : delivered[p] <= 1

\* An effect is only ever applied for money the gateway has handed over, and
\* its row is then successful (or was, before a refund).
DeliveredIsPaid ==
  \A p \in Payments : delivered[p] > 0 =>
    gateway[p] = "verified" /\ payment[p].status \in {"success", "refunded"}

\* A payment that was claimed and whose effect is missing has one call that is
\* about to apply it, unless the call that owed it died.
OwedIsInFlight ==
  \A p \in Payments :
    payment[p].status \in {"success", "refunded"} /\ delivered[p] = 0 /\ p \notin orphaned
      => \E v \in Verifiers : verifier[p][v] = "effect"

\* A payment's status only moves forward: a settled row is never reopened, a
\* failed one never succeeds and a refund is final, whatever call comes late.
StatusSettles ==
  [][\A p \in Payments :
       LET from == payment[p].status
           to   == payment'[p].status
       IN from # to => <<from, to>> \in {<<"none", "pending">>, <<"pending", "success">>,
                                         <<"pending", "failed">>, <<"success", "refunded">>}]_vars
===============================================================================

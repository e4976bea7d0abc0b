---------------------------- MODULE PaymentsLedger ----------------------------
(***************************************************************************)
(* Payments implements WalletLedger.  A top-up is posted when its effect   *)
(* runs, its reversal when the payment is refunded, a payout when its row  *)
(* is created; a payout is voided when its row is deleted.                 *)
(***************************************************************************)
EXTENDS Payments

TopUpEntries  == {"topup"}  \X Payments
RefundEntries == {"refund"} \X Payments
PayoutEntries == {"payout"} \X Payouts
LedgerEntries == TopUpEntries \union RefundEntries \union PayoutEntries

LedgerTerms ==
  [e \in LedgerEntries |->
     IF e \in PayoutEntries
     THEN [user |-> payout[e[2]].user, amount |-> -payout[e[2]].amount]
     ELSE [user   |-> payment[e[2]].user,
           amount |-> IF e \in TopUpEntries THEN payment[e[2]].amount
                                            ELSE -payment[e[2]].amount]]

IsTopUp(p) == payment[p].purpose = "walletTopup"

LedgerPosted ==
  {e \in LedgerEntries :
     \/ e \in TopUpEntries  /\ IsTopUp(e[2]) /\ delivered[e[2]] > 0
     \/ e \in RefundEntries /\ IsTopUp(e[2]) /\ payment[e[2]].status = "refunded"
     \/ e \in PayoutEntries /\ payout[e[2]].status # "none"}

LedgerVoided == {e \in PayoutEntries : payout[e[2]].status = "deleted"}

Ledger == INSTANCE WalletLedger WITH
            Entries     <- LedgerEntries,
            Voidable    <- PayoutEntries,
            Adjustments <- (-MaxAmount)..MaxAmount,
            terms       <- LedgerTerms,
            balance     <- wallet,
            posted      <- LedgerPosted,
            voided      <- LedgerVoided

\* The wallet is a ledger: a replayed callback, a late approval, a refund and a
\* compensation that race each other still post and void every entry at most
\* once, and the balance moves in the same step as the row that explains it.
ImplementsLedger == Ledger!Spec
===============================================================================

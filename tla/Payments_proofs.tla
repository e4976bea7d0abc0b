--------------------------- MODULE Payments_proofs ---------------------------
(***************************************************************************)
(* Proofs about Payments, for every set of users, payments, callback calls *)
(* and payout calls and every bound on the amounts.                        *)
(***************************************************************************)
EXTENDS PaymentsLedger, FiniteSetTheorems, TLAPS

-------------------------------------------------------------------------------
(* Type correctness.                                                       *)

LEMMA PaymentRowUpdate ==
  ASSUME payment \in [Payments -> PaymentRow], NEW p \in Payments, NEW s \in PaymentStatus
  PROVE  [payment EXCEPT ![p].status = s] \in [Payments -> PaymentRow]
BY DEF PaymentRow

LEMMA PayoutRowUpdate ==
  ASSUME payout \in [Payouts -> PayoutRow], NEW r \in Payouts,
         NEW c \in PayoutPC, NEW s \in PayoutStatus
  PROVE  /\ [payout EXCEPT ![r].pc = c] \in [Payouts -> PayoutRow]
         /\ [payout EXCEPT ![r].status = s] \in [Payouts -> PayoutRow]
         /\ [payout EXCEPT ![r].pc = c, ![r].status = s] \in [Payouts -> PayoutRow]
BY DEF PayoutRow

LEMMA VerifierUpdate ==
  ASSUME verifier \in [Payments -> [Verifiers -> VerifierPC]],
         NEW p \in Payments, NEW v \in Verifiers, NEW c \in VerifierPC
  PROVE  [verifier EXCEPT ![p][v] = c] \in [Payments -> [Verifiers -> VerifierPC]]
OBVIOUS

LEMMA GoesType ==
  ASSUME verifier \in [Payments -> [Verifiers -> VerifierPC]],
         NEW p \in Payments, NEW v \in Verifiers, NEW from, NEW to \in VerifierPC,
         Goes(p, v, from, to)
  PROVE  verifier' \in [Payments -> [Verifiers -> VerifierPC]]
BY VerifierUpdate DEF Goes

LEMMA WalletUpdate ==
  ASSUME wallet \in [Users -> Int], NEW u \in Users, NEW n \in Int
  PROVE  [wallet EXCEPT ![u] = @ + n] \in [Users -> Int]
OBVIOUS

\* Every amount of a row, and its negation, is an integer.
LEMMA RowAmounts ==
  ASSUME TypeOK
  PROVE  /\ \A p \in Payments : /\ payment[p].user \in Users
                               /\ payment[p].amount \in Int /\ -payment[p].amount \in Int
                               /\ payment[p].amount > 0
         /\ \A r \in Payouts : /\ payout[r].user \in Users
                              /\ payout[r].amount \in Int /\ -payout[r].amount \in Int
                              /\ payout[r].amount > 0
         /\ \A a \in Amounts : a \in Int /\ -a \in Int
BY AmountsAssumption DEF TypeOK, PaymentRow, PayoutRow, Amounts

\* Every variable keeps its shape: no step of any handler leaves the row
\* statuses, the program counters or the money outside their ranges.
THEOREM TypeCorrect == Spec => []TypeOK
<1>1. Init => TypeOK
  BY DEF Init, TypeOK, VerifierPC
<1>2. TypeOK /\ [Next]_vars => TypeOK'
  <2> SUFFICES ASSUME TypeOK, [Next]_vars PROVE TypeOK'
    OBVIOUS
  <2> USE DEF TypeOK
  <2>a. /\ {"pending", "success", "failed", "refunded"} \subseteq PaymentStatus
        /\ {"pending", "approved", "rejected", "paid", "deleted"} \subseteq PayoutStatus
        /\ {"idle", "ask", "cancel", "fail", "claim", "effect"} \subseteq VerifierPC
        /\ {"counted", "taken", "short", "done", "lost"} \subseteq PayoutPC
    BY DEF PaymentStatus, PayoutStatus, VerifierPC, PayoutPC
  <2>b. \A p \in Payments : payment[p].status \in PaymentStatus
    BY DEF PaymentRow
  <2>c. \A r \in Payouts : payout[r].status \in PayoutStatus /\ payout[r].pc \in PayoutPC
    BY DEF PayoutRow
  <2>1. ASSUME NEW p \in Payments, InitiateRequest(p) PROVE TypeOK'
    BY <2>1 DEF InitiateRequest, payoutVars
  <2>2. ASSUME NEW p \in Payments, InitiateCreate(p) PROVE TypeOK'
    BY <2>2, <2>a, PaymentRowUpdate DEF InitiateCreate, payoutVars
  <2>3. ASSUME NEW p \in Payments, GatewayPay(p) PROVE TypeOK'
    BY <2>3 DEF GatewayPay, payoutVars
  <2>4. ASSUME NEW p \in Payments, MarkRefunded(p) PROVE TypeOK'
    <3>1. payment' \in [Payments -> PaymentRow]
      BY <2>4, <2>a, PaymentRowUpdate DEF MarkRefunded
    <3>2. wallet' \in [Users -> Int]
      BY <2>4, RowAmounts, WalletUpdate DEF MarkRefunded, Plus
    <3> QED
      BY <2>4, <3>1, <3>2 DEF MarkRefunded, payoutVars
  <2>5. ASSUME NEW p \in Payments, NEW v \in Verifiers, VerifyStep(p, v) PROVE TypeOK'
    <3>1. CASE VerifyRead(p, v)
      BY <3>1, <2>a, VerifierUpdate DEF VerifyRead, Goes, payoutVars
    <3>2. CASE VerifyMarkFailed(p, v)
      <4>1. payment' \in [Payments -> PaymentRow]
        BY <3>2, <2>a, <2>b, PaymentRowUpdate DEF VerifyMarkFailed
      <4>2. verifier' \in [Payments -> [Verifiers -> VerifierPC]]
        BY <3>2, <2>a, GoesType DEF VerifyMarkFailed
      <4> QED
        BY <3>2, <4>1, <4>2 DEF VerifyMarkFailed, payoutVars
    <3>3. CASE VerifyAsk(p, v)
      <4>1. verifier' \in [Payments -> [Verifiers -> VerifierPC]]
        BY <3>3, <2>a, GoesType DEF VerifyAsk
      <4> QED
        BY <3>3, <4>1 DEF VerifyAsk, payoutVars
    <3>4. CASE VerifyAnswerLost(p, v)
      BY <3>4, <2>a, VerifierUpdate DEF VerifyAnswerLost, Goes, payoutVars
    <3>5. CASE VerifyClaim(p, v)
      <4>1. payment' \in [Payments -> PaymentRow]
        BY <3>5, <2>a, PaymentRowUpdate DEF VerifyClaim
      <4>2. verifier' \in [Payments -> [Verifiers -> VerifierPC]]
        BY <3>5, <2>a, GoesType DEF VerifyClaim
      <4> QED
        BY <3>5, <4>1, <4>2 DEF VerifyClaim, payoutVars
    <3>6. CASE VerifyEffect(p, v)
      <4>1. verifier' \in [Payments -> [Verifiers -> VerifierPC]]
        BY <3>6, <2>a, VerifierUpdate DEF VerifyEffect, Goes
      <4>2. wallet' \in [Users -> Int]
        BY <3>6, RowAmounts, WalletUpdate DEF VerifyEffect, Plus
      <4>3. delivered' \in [Payments -> Nat]
        BY <3>6 DEF VerifyEffect
      <4> QED
        BY <3>6, <4>1, <4>2, <4>3 DEF VerifyEffect, payoutVars
    <3>7. CASE VerifyAbort(p, v)
      BY <3>7, <2>a, VerifierUpdate DEF VerifyAbort, payoutVars
    <3> QED
      BY <2>5, <3>1, <3>2, <3>3, <3>4, <3>5, <3>6, <3>7 DEF VerifyStep
  <2>6. ASSUME NEW r \in Payouts, PayoutStep(r) PROVE TypeOK'
    <3>1. payout' \in [Payouts -> PayoutRow]
      <4>1. CASE PayoutCount(r)
        BY <4>1, <2>a, PayoutRowUpdate DEF PayoutCount
      <4>2. CASE PayoutTake(r)
        BY <4>2, <2>a, PayoutRowUpdate DEF PayoutTake
      <4>3. CASE PayoutCheck(r)
        BY <4>3, <2>a, PayoutRowUpdate DEF PayoutCheck
      <4>4. CASE PayoutUndo(r)
        BY <4>4, <2>a, PayoutRowUpdate DEF PayoutUndo
      <4>5. CASE PayoutAbort(r)
        BY <4>5, <2>a, PayoutRowUpdate DEF PayoutAbort
      <4>6. CASE ApproveRead(r) \/ ShowApproved(r)
        BY <4>6 DEF ApproveRead, ShowApproved
      <4>7. CASE ApproveWrite(r)
        BY <4>7, <2>a, <2>c, PayoutRowUpdate DEF ApproveWrite
      <4>8. CASE RejectPayout(r)
        BY <4>8, <2>a, PayoutRowUpdate DEF RejectPayout
      <4>9. CASE MarkPayoutPaid(r)
        BY <4>9, <2>a, PayoutRowUpdate DEF MarkPayoutPaid
      <4> QED
        BY <2>6, <4>1, <4>2, <4>3, <4>4, <4>5, <4>6, <4>7, <4>8, <4>9 DEF PayoutStep
    <3>2. wallet' \in [Users -> Int]
      BY <2>6, RowAmounts, WalletUpdate
      DEF PayoutStep, PayoutCount, PayoutTake, PayoutCheck, PayoutUndo, PayoutAbort,
          ApproveRead, ApproveWrite, RejectPayout, ShowApproved, MarkPayoutPaid, Plus
    <3>3. /\ UNCHANGED <<paymentVars, adjusted>>
          /\ approving' \in SUBSET Payouts
          /\ shown' \in SUBSET Payouts
      BY <2>6
      DEF PayoutStep, PayoutCount, PayoutTake, PayoutCheck, PayoutUndo, PayoutAbort,
          ApproveRead, ApproveWrite, RejectPayout, ShowApproved, MarkPayoutPaid
    <3> QED
      BY <3>1, <3>2, <3>3 DEF paymentVars
  <2>7. ASSUME NEW u \in Users, NEW a \in Amounts, AdminStep(u, a) PROVE TypeOK'
    BY <2>7, RowAmounts DEF AdminStep, WalletCredit, WalletDebit, Plus, paymentVars, payoutVars
  <2>8. CASE UNCHANGED vars
    BY <2>8 DEF vars, paymentVars, payoutVars
  <2> QED
    BY <2>1, <2>2, <2>3, <2>4, <2>5, <2>6, <2>7, <2>8 DEF Next, PaymentStep
<1> QED
  BY <1>1, <1>2, PTL DEF Spec

-------------------------------------------------------------------------------
(* A payment's effect is applied at most once.                             *)

Settled(p) == payment[p].status \in {"success", "refunded"}

\* The inductive strengthening of DeliveredOnce: the call standing before the
\* effect is the only one, its payment is settled and nothing is delivered yet.
OwnerInv ==
  \A p \in Payments :
    /\ delivered[p] <= 1
    /\ delivered[p] > 0 => Settled(p) /\ gateway[p] = "verified"
    /\ \A v \in Verifiers :
         /\ verifier[p][v] \in {"claim", "effect"} => gateway[p] = "verified"
         /\ verifier[p][v] = "effect" => Settled(p) /\ delivered[p] = 0
         /\ \A w \in Verifiers : verifier[p][v] = "effect" /\ verifier[p][w] = "effect" => v = w
    /\ Settled(p) /\ delivered[p] = 0 /\ p \notin orphaned
         => \E v \in Verifiers : verifier[p][v] = "effect"

\* OwnerInv speaks of these variables only.
LEMMA OwnerInvFrame ==
  ASSUME OwnerInv, UNCHANGED paymentVars
  PROVE  OwnerInv'
BY DEF OwnerInv, Settled, paymentVars

LEMMA OwnerInvStep ==
  ASSUME TypeOK, OwnerInv, [Next]_vars
  PROVE  OwnerInv'
<1> USE DEF OwnerInv, Settled, TypeOK
<1>1. ASSUME NEW p \in Payments, InitiateRequest(p) PROVE OwnerInv'
  BY <1>1 DEF InitiateRequest
<1>2. ASSUME NEW p \in Payments, InitiateCreate(p) PROVE OwnerInv'
  BY <1>2 DEF InitiateCreate
<1>3. ASSUME NEW p \in Payments, GatewayPay(p) PROVE OwnerInv'
  BY <1>3 DEF GatewayPay
<1>4. ASSUME NEW p \in Payments, MarkRefunded(p) PROVE OwnerInv'
  BY <1>4 DEF MarkRefunded
<1>5. ASSUME NEW p \in Payments, NEW v \in Verifiers, VerifyStep(p, v) PROVE OwnerInv'
  <2>1. CASE VerifyRead(p, v)
    BY <2>1 DEF VerifyRead, Goes
  <2>2. CASE VerifyMarkFailed(p, v)
    BY <2>2 DEF VerifyMarkFailed, Goes
  <2>3. CASE VerifyAsk(p, v)
    <3>1. CASE Goes(p, v, "ask", "claim") /\ gateway' = [gateway EXCEPT ![p] = "verified"]
      BY <2>3, <3>1 DEF VerifyAsk, Goes
    <3>2. CASE Goes(p, v, "ask", "fail") /\ UNCHANGED gateway
      BY <2>3, <3>2 DEF VerifyAsk, Goes
    <3> QED
      BY <2>3, <3>1, <3>2 DEF VerifyAsk
  <2>4. CASE VerifyAnswerLost(p, v)
    BY <2>4 DEF VerifyAnswerLost, Goes
  <2>5. CASE VerifyClaim(p, v)
    <3>1. CASE payment[p].status = "pending"
      <4>1. /\ verifier[p][v] = "claim"
            /\ verifier' = [verifier EXCEPT ![p][v] = "effect"]
            /\ payment' = [payment EXCEPT ![p].status = "success"]
            /\ UNCHANGED <<gateway, delivered, orphaned>>
        BY <2>5, <3>1 DEF VerifyClaim, Goes
      <4>2. gateway[p] = "verified"
        BY <4>1
      <4>3. delivered[p] = 0
        <5>1. ~(delivered[p] > 0) /\ delivered[p] \in Nat
          BY <3>1
        <5> QED
          BY <5>1
      <4>4. \A w \in Verifiers : verifier[p][w] # "effect"
        BY <3>1
      <4>5. payment'[p].status = "success"
        BY <4>1 DEF PaymentRow
      <4>6. \A w \in Verifiers : verifier'[p][w] = "effect" <=> w = v
        BY <4>1, <4>4
      <4>7. \A q \in Payments \ {p} : payment'[q] = payment[q] /\ verifier'[q] = verifier[q]
        BY <4>1
      <4> QED
        BY <4>1, <4>2, <4>3, <4>5, <4>6, <4>7
    <3>2. CASE payment[p].status # "pending"
      <4>1. /\ verifier' = [verifier EXCEPT ![p][v] = "idle"]
            /\ verifier[p][v] = "claim"
            /\ UNCHANGED <<payment, gateway, delivered, orphaned>>
        BY <2>5, <3>2 DEF VerifyClaim, Goes
      <4> QED
        BY <4>1
    <3> QED
      BY <3>1, <3>2
  <2>6. CASE VerifyEffect(p, v)
    BY <2>6 DEF VerifyEffect, Goes
  <2>7. CASE VerifyAbort(p, v)
    BY <2>7 DEF VerifyAbort
  <2> QED
    BY <1>5, <2>1, <2>2, <2>3, <2>4, <2>5, <2>6, <2>7 DEF VerifyStep
<1>6. ASSUME NEW r \in Payouts, PayoutStep(r) PROVE UNCHANGED paymentVars
  BY <1>6 DEF PayoutStep, PayoutCount, PayoutTake, PayoutCheck, PayoutUndo, PayoutAbort,
              ApproveRead, ApproveWrite, RejectPayout, ShowApproved, MarkPayoutPaid
<1>7. ASSUME NEW u \in Users, NEW a \in Amounts, AdminStep(u, a) PROVE UNCHANGED paymentVars
  BY <1>7 DEF AdminStep, WalletCredit, WalletDebit
<1>8. CASE UNCHANGED vars
  BY <1>8, OwnerInvFrame DEF vars
<1> QED
  BY <1>1, <1>2, <1>3, <1>4, <1>5, <1>6, <1>7, <1>8, OwnerInvFrame DEF Next, PaymentStep

THEOREM OwnerInvariant == Spec => []OwnerInv
<1>1. Init => OwnerInv
  BY DEF Init, OwnerInv, Settled
<1> QED
  BY <1>1, OwnerInvStep, TypeCorrect, PTL DEF Spec

\* Replayed and racing callbacks never apply a payment's effect twice.
THEOREM DeliversOnce == Spec => []DeliveredOnce
<1>1. OwnerInv => DeliveredOnce
  BY DEF OwnerInv, DeliveredOnce
<1> QED
  BY <1>1, OwnerInvariant, PTL

\* An effect is applied only for a settled payment the gateway has verified.
THEOREM DeliversOnlyPaid == Spec => []DeliveredIsPaid
<1>1. OwnerInv => DeliveredIsPaid
  BY DEF OwnerInv, DeliveredIsPaid, Settled
<1> QED
  BY <1>1, OwnerInvariant, PTL

\* A claimed payment without its effect is owed by a call in flight, unless
\* the call that claimed it died.
THEOREM OwesInFlight == Spec => []OwedIsInFlight
<1>1. OwnerInv => OwedIsInFlight
  BY DEF OwnerInv, OwedIsInFlight, Settled
<1> QED
  BY <1>1, OwnerInvariant, PTL

\* A payment's status only moves forward: pending, then success or failed, and
\* refunded after success; no late update reopens or overwrites a settled row.
THEOREM SettlesForGood == Spec => StatusSettles
<1> DEFINE Forward ==
      \A p \in Payments :
        payment[p].status # payment'[p].status
          => <<payment[p].status, payment'[p].status>> \in
               {<<"none", "pending">>, <<"pending", "success">>,
                <<"pending", "failed">>, <<"success", "refunded">>}
<1>1. TypeOK /\ [Next]_vars => Forward
  <2> SUFFICES ASSUME TypeOK, [Next]_vars PROVE Forward
    OBVIOUS
  <2>a. ASSUME payment' = payment PROVE Forward
    BY <2>a
  <2>b. ASSUME NEW p \in Payments, NEW s, payment' = [payment EXCEPT ![p].status = s],
               <<payment[p].status, s>> \in {<<"none", "pending">>, <<"pending", "success">>,
                                             <<"pending", "failed">>, <<"success", "refunded">>}
        PROVE  Forward
    BY <2>b DEF TypeOK, PaymentRow
  <2>1. ASSUME NEW p \in Payments, PaymentStep(p) PROVE Forward
    <3>1. CASE InitiateCreate(p)
      BY <3>1, <2>b DEF InitiateCreate
    <3>2. CASE MarkRefunded(p)
      BY <3>2, <2>b DEF MarkRefunded
    <3>3. ASSUME NEW v \in Verifiers, VerifyMarkFailed(p, v) PROVE Forward
      <4>1. CASE payment[p].status = "pending"
        <5>1. payment' = [payment EXCEPT ![p].status = "failed"]
          BY <3>3, <4>1 DEF VerifyMarkFailed
        <5> QED
          BY <5>1, <4>1, <2>b
      <4>2. CASE payment[p].status # "pending"
        <5>1. payment' = payment
          BY <3>3, <4>2 DEF VerifyMarkFailed, TypeOK, PaymentRow
        <5> QED
          BY <5>1, <2>a
      <4> QED
        BY <4>1, <4>2
    <3>4. ASSUME NEW v \in Verifiers, VerifyClaim(p, v) PROVE Forward
      BY <3>4, <2>a, <2>b DEF VerifyClaim
    <3>5. CASE UNCHANGED payment
      BY <3>5, <2>a
    <3>6. \/ InitiateCreate(p) \/ MarkRefunded(p) \/ UNCHANGED payment
          \/ \E v \in Verifiers : VerifyMarkFailed(p, v) \/ VerifyClaim(p, v)
      BY <2>1 DEF PaymentStep, InitiateRequest, GatewayPay, VerifyStep, VerifyRead, VerifyAsk,
                  VerifyAnswerLost, VerifyEffect, VerifyAbort
    <3> HIDE DEF Forward
    <3> QED
      BY <3>1, <3>2, <3>3, <3>4, <3>5, <3>6
  <2>2. ASSUME NEW r \in Payouts, PayoutStep(r) PROVE Forward
    BY <2>2, <2>a DEF PayoutStep, PayoutCount, PayoutTake, PayoutCheck, PayoutUndo, PayoutAbort,
                      ApproveRead, ApproveWrite, RejectPayout, ShowApproved, MarkPayoutPaid, paymentVars
  <2>3. ASSUME NEW u \in Users, NEW a \in Amounts, AdminStep(u, a) PROVE Forward
    BY <2>3, <2>a DEF AdminStep, WalletCredit, WalletDebit, paymentVars
  <2>4. CASE UNCHANGED vars
    BY <2>4, <2>a DEF vars, paymentVars
  <2> QED
    BY <2>1, <2>2, <2>3, <2>4 DEF Next
<1>2. Forward => (\A p \in Payments :
                    LET from == payment[p].status
                        to   == payment'[p].status
                    IN from # to => <<from, to>> \in {<<"none", "pending">>, <<"pending", "success">>,
                                                      <<"pending", "failed">>, <<"success", "refunded">>})
  OBVIOUS
<1> HIDE DEF Forward
<1> QED
  BY <1>1, <1>2, TypeCorrect, PTL DEF Spec, StatusSettles

-------------------------------------------------------------------------------
(* Sums as cardinalities.                                                  *)

LEMMA UnitsFinite ==
  ASSUME NEW S, IsFiniteSet(S), NEW row
  PROVE  IsFiniteSet(Units(S, row)) /\ Total(S, row) \in Nat
<1>1. IsFiniteSet(Amounts)
  BY FS_Interval, AmountsAssumption DEF Amounts
<1>2. IsFiniteSet(S \X Amounts)
  BY <1>1, FS_Product
<1>3. IsFiniteSet(Units(S, row))
  BY <1>2, FS_Subset DEF Units
<1> QED
  BY <1>3, FS_CardinalityType DEF Total

\* A row that joins the set adds exactly its amount to the total.
LEMMA TotalAdd ==
  ASSUME NEW S, IsFiniteSet(S), NEW row, NEW r, r \notin S, row[r].amount \in Amounts
  PROVE  Total(S \union {r}, row) = Total(S, row) + row[r].amount
<1> DEFINE a == row[r].amount
           R == {r} \X (1..a)
<1>a. a \in Nat /\ a <= MaxAmount /\ a >= 1
  BY AmountsAssumption DEF Amounts
<1>1. Units(S \union {r}, row) = Units(S, row) \union R
  <2>1. ASSUME NEW x \in Units(S \union {r}, row) PROVE x \in Units(S, row) \union R
    BY <1>a, AmountsAssumption DEF Units, Amounts
  <2>2. ASSUME NEW x \in R PROVE x \in Units(S \union {r}, row)
    BY <1>a, AmountsAssumption DEF Units, Amounts
  <2>3. Units(S, row) \subseteq Units(S \union {r}, row)
    BY DEF Units
  <2> QED
    BY <2>1, <2>2, <2>3
<1>2. Units(S, row) \intersect R = {}
  BY DEF Units
<1>3. IsFiniteSet(R) /\ Cardinality(R) = a
  <2>1. IsFiniteSet({r}) /\ Cardinality({r}) = 1
    BY FS_Singleton
  <2> HIDE DEF a
  <2>2. IsFiniteSet(1..a) /\ Cardinality(1..a) = IF 1 > a THEN 0 ELSE a - 1 + 1
    BY <1>a, FS_Interval
  <2>3. Cardinality(1..a) = a
    BY <2>2, <1>a
  <2>4. /\ IsFiniteSet({r} \X (1..a))
        /\ Cardinality({r} \X (1..a)) = Cardinality({r}) * Cardinality(1..a)
    <3> DEFINE T == 1..a
               Q == {r}
    <3>1. IsFiniteSet(T) /\ IsFiniteSet(Q)
      BY <2>1, <2>2
    <3> HIDE DEF T, Q
    <3>2. IsFiniteSet(Q \X T) /\ Cardinality(Q \X T) = Cardinality(Q) * Cardinality(T)
      BY <3>1, FS_Product
    <3> QED
      BY <3>2 DEF T, Q
  <2>5. Cardinality({r}) * Cardinality(1..a) = a
    BY <2>1, <2>3, <1>a
  <2> QED
    BY <2>4, <2>5
<1>4. IsFiniteSet(Units(S, row)) /\ Cardinality(Units(S, row)) \in Nat
  BY UnitsFinite DEF Total
<1>5. Cardinality(Units(S, row) \union R)
        = Cardinality(Units(S, row)) + Cardinality(R) - Cardinality({})
  BY <1>2, <1>3, <1>4, FS_Union
<1>6. Cardinality({}) = 0
  BY FS_EmptySet
<1>7. Cardinality(Units(S \union {r}, row)) = Cardinality(Units(S, row)) + a
  <2> HIDE DEF R, a
  <2>1. Cardinality(Units(S \union {r}, row)) = Cardinality(Units(S, row) \union R)
    BY <1>1
  <2>2. Cardinality(R) = a
    BY <1>3
  <2> DEFINE n == Cardinality(Units(S, row))
  <2>3. n \in Nat
    BY <1>4
  <2>4. Cardinality(Units(S, row) \union R) = n + a - 0
    BY <1>5, <1>6, <2>2
  <2> HIDE DEF n
  <2>5. n + a - 0 = n + a
    BY <2>3, <1>a
  <2> QED
    BY <2>1, <2>4, <2>5 DEF n
<1> QED
  BY <1>7 DEF Total

\* A total depends on the amounts only.
LEMMA TotalSame ==
  ASSUME NEW S, NEW row, NEW row2, \A r \in S : row2[r].amount = row[r].amount
  PROVE  Total(S, row2) = Total(S, row)
BY DEF Total, Units

-------------------------------------------------------------------------------
(* The wallet.                                                             *)

LEMMA UnsettledFinite ==
  ASSUME NEW u
  PROVE  IsFiniteSet(Unsettled(u)) /\ Total(Unsettled(u), payout) \in Nat
<1>1. IsFiniteSet(Unsettled(u))
  BY PayoutsAssumption, FS_Subset DEF Unsettled
<1> QED
  BY <1>1, UnitsFinite

\* Payouts keep their user and amount.
RowsKept == \A r \in Payouts : /\ payout'[r].user = payout[r].user
                              /\ payout'[r].amount = payout[r].amount

LEMMA PayoutRowsKept ==
  ASSUME TypeOK, NEW r \in Payouts, PayoutStep(r)
  PROVE  RowsKept /\ \A s \in Payouts \ {r} : payout'[s] = payout[s]
<1> DEFINE Kept == RowsKept /\ \A q \in Payouts \ {r} : payout'[q] = payout[q]
<1>a. ASSUME NEW c, payout' = [payout EXCEPT ![r].pc = c] PROVE Kept
  BY <1>a DEF RowsKept, TypeOK, PayoutRow
<1>b. ASSUME NEW s, payout' = [payout EXCEPT ![r].status = s] PROVE Kept
  BY <1>b DEF RowsKept, TypeOK, PayoutRow
<1>c. ASSUME NEW c, NEW s, payout' = [payout EXCEPT ![r].pc = c, ![r].status = s] PROVE Kept
  BY <1>c DEF RowsKept, TypeOK, PayoutRow
<1>d. ASSUME payout' = payout PROVE Kept
  BY <1>d DEF RowsKept
<1>2. CASE PayoutCount(r)
  BY <1>a, <1>2 DEF PayoutCount
<1>3. CASE PayoutTake(r)
  BY <1>c, <1>3 DEF PayoutTake
<1>4. CASE PayoutCheck(r)
  BY <1>a, <1>4 DEF PayoutCheck
<1>5. CASE PayoutUndo(r)
  BY <1>c, <1>5 DEF PayoutUndo
<1>6. CASE PayoutAbort(r)
  BY <1>a, <1>6 DEF PayoutAbort
<1>7. CASE ApproveRead(r) \/ ShowApproved(r)
  BY <1>d, <1>7 DEF ApproveRead, ShowApproved
<1>8. CASE ApproveWrite(r)
  BY <1>b, <1>8 DEF ApproveWrite
<1>9. CASE RejectPayout(r)
  BY <1>b, <1>9 DEF RejectPayout
<1>10. CASE MarkPayoutPaid(r)
  BY <1>b, <1>10 DEF MarkPayoutPaid
<1> QED
  BY <1>2, <1>3, <1>4, <1>5, <1>6, <1>7, <1>8, <1>9, <1>10 DEF PayoutStep

LEMMA TotalFrame ==
  ASSUME RowsKept, NEW S, S \subseteq Payouts
  PROVE  Total(S, payout') = Total(S, payout)
BY TotalSame DEF RowsKept

\* What one step may do to a wallet and to the payouts that are being checked.
Keeps(u)      == /\ wallet'[u] >= wallet[u] \/ wallet'[u] >= 0
                 /\ Unsettled(u)' = Unsettled(u)
Takes(u, r)   == /\ wallet'[u] = wallet[u] - payout[r].amount
                 /\ r \notin Unsettled(u) /\ Unsettled(u)' = Unsettled(u) \union {r}
Passes(u, r)  == /\ wallet'[u] = wallet[u] /\ wallet[u] >= 0
                 /\ Unsettled(u)' = Unsettled(u) \ {r}
Returns(u, r) == /\ wallet'[u] = wallet[u] + payout[r].amount
                 /\ r \in Unsettled(u) /\ Unsettled(u)' = Unsettled(u) \ {r}

LEMMA SolventStep ==
  ASSUME TypeOK, TypeOK', RowsKept, NEW u \in Users, NEW r \in Payouts,
         wallet[u] + Total(Unsettled(u), payout) >= 0,
         Keeps(u) \/ Takes(u, r) \/ Passes(u, r) \/ Returns(u, r)
  PROVE  wallet'[u] + Total(Unsettled(u)', payout') >= 0
<1>1. Unsettled(u) \subseteq Payouts /\ Unsettled(u)' \subseteq Payouts
  BY DEF Unsettled
<1>2. Total(Unsettled(u)', payout') = Total(Unsettled(u)', payout)
  BY <1>1, TotalFrame
<1>3. IsFiniteSet(Unsettled(u)')
  BY <1>1, PayoutsAssumption, FS_Subset
<1>4. Total(Unsettled(u), payout) \in Nat /\ Total(Unsettled(u)', payout) \in Nat
  BY <1>3, UnsettledFinite, UnitsFinite
<1>5. wallet[u] \in Int /\ wallet'[u] \in Int /\ payout[r].amount \in Amounts /\ payout[r].amount \in Int
  BY RowAmounts DEF TypeOK, PayoutRow
<1> DEFINE before == Total(Unsettled(u), payout)
           after  == Total(Unsettled(u)', payout)
<1>6. before \in Nat /\ after \in Nat
  BY <1>4
<1>7. CASE Keeps(u)
  <2>1. after = before
    BY <1>7 DEF Keeps
  <2> HIDE DEF before, after
  <2>2. wallet'[u] + after >= 0
    BY <1>5, <1>6, <1>7, <2>1 DEF Keeps, before
  <2> QED
    BY <2>2, <1>2 DEF after
<1>8. CASE Takes(u, r)
  <2>1. after = before + payout[r].amount
    BY <1>8, <1>5, UnsettledFinite, TotalAdd DEF Takes
  <2> HIDE DEF before, after
  <2>2. wallet'[u] + after >= 0
    BY <1>5, <1>6, <1>8, <2>1 DEF Takes, before
  <2> QED
    BY <2>2, <1>2 DEF after
<1>9. CASE Passes(u, r)
  <2> HIDE DEF before, after
  <2>1. wallet'[u] + after >= 0
    BY <1>5, <1>6, <1>9 DEF Passes
  <2> QED
    BY <2>1, <1>2 DEF after
<1>10. CASE Returns(u, r)
  <2>1. r \notin Unsettled(u)' /\ Unsettled(u) = Unsettled(u)' \union {r}
    BY <1>10 DEF Returns
  <2>2. before = after + payout[r].amount
    BY <2>1, <1>3, <1>5, TotalAdd
  <2> HIDE DEF before, after
  <2>3. wallet'[u] + after >= 0
    BY <1>5, <1>6, <1>10, <2>2 DEF Returns, before
  <2> QED
    BY <2>3, <1>2 DEF after
<1> QED
  BY <1>7, <1>8, <1>9, <1>10

\* A payout step is one of the four for every user's wallet.
LEMMA PayoutStepSolvent ==
  ASSUME TypeOK, TypeOK', Solvent, NEW r \in Payouts, PayoutStep(r)
  PROVE  Solvent'
<1> SUFFICES ASSUME NEW u \in Users
             PROVE  wallet'[u] + Total(Unsettled(u)', payout') >= 0
  BY DEF Solvent
<1>1. RowsKept /\ \A s \in Payouts \ {r} : payout'[s] = payout[s]
  BY PayoutRowsKept
<1>2. wallet[u] \in Int /\ payout[r].amount \in Int
  BY RowAmounts DEF TypeOK
<1>3. ASSUME payout'[r].pc \in {"taken", "short", "lost"} <=> payout[r].pc \in {"taken", "short", "lost"}
      PROVE  Unsettled(u)' = Unsettled(u)
  BY <1>1, <1>3 DEF Unsettled, RowsKept
<1>4. ASSUME payout'[r].pc \notin {"taken", "short", "lost"}
      PROVE  Unsettled(u)' = Unsettled(u) \ {r}
  BY <1>1, <1>4 DEF Unsettled, RowsKept
<1>5. CASE PayoutCount(r)
  <2>1. payout[r].pc = "idle" /\ payout'[r].pc = "counted" /\ wallet' = wallet
    BY <1>5 DEF PayoutCount, TypeOK, PayoutRow
  <2>2. Keeps(u)
    BY <2>1, <1>2, <1>3 DEF Keeps
  <2> QED
    BY <2>2, <1>1, SolventStep DEF Solvent
<1>6. CASE PayoutTake(r)
  <2>1. payout[r].pc = "counted" /\ payout'[r].pc = "taken"
    BY <1>6 DEF PayoutTake, TypeOK, PayoutRow
  <2>2. CASE payout[r].user = u
    <3>1. wallet'[u] = wallet[u] - payout[r].amount
      BY <1>6, <2>2, <1>2 DEF PayoutTake, Plus, TypeOK
    <3>2. r \notin Unsettled(u) /\ Unsettled(u)' = Unsettled(u) \union {r}
      BY <2>1, <2>2, <1>1 DEF Unsettled, RowsKept
    <3> QED
      BY <3>1, <3>2, <1>1, SolventStep DEF Solvent, Takes
  <2>3. CASE payout[r].user # u
    <3>1. wallet'[u] = wallet[u]
      BY <1>6, <2>3 DEF PayoutTake, Plus, TypeOK
    <3>2. Unsettled(u)' = Unsettled(u)
      BY <2>3, <1>1 DEF Unsettled, RowsKept
    <3> QED
      BY <3>1, <3>2, <1>1, <1>2, SolventStep DEF Solvent, Keeps
  <2> QED
    BY <2>2, <2>3
<1>7. CASE PayoutCheck(r)
  <2>1. wallet' = wallet /\ payout[r].pc = "taken"
    BY <1>7 DEF PayoutCheck
  <2>2. CASE wallet[payout[r].user] < 0
    <3>1. payout'[r].pc = "short"
      BY <1>7, <2>2 DEF PayoutCheck, TypeOK, PayoutRow
    <3> QED
      BY <2>1, <3>1, <1>1, <1>2, <1>3, SolventStep DEF Solvent, Keeps
  <2>3. CASE ~(wallet[payout[r].user] < 0)
    <3>1. payout'[r].pc = "done"
      BY <1>7, <2>3 DEF PayoutCheck, TypeOK, PayoutRow
    <3>2. Unsettled(u)' = Unsettled(u) \ {r}
      BY <3>1, <1>4
    <3>3. CASE payout[r].user = u
      BY <2>1, <2>3, <3>2, <3>3, <1>1, <1>2, SolventStep DEF Solvent, Passes
    <3>4. CASE payout[r].user # u
      <4>1. Unsettled(u)' = Unsettled(u)
        BY <3>2, <3>4 DEF Unsettled
      <4> QED
        BY <4>1, <2>1, <1>1, <1>2, SolventStep DEF Solvent, Keeps
    <3> QED
      BY <3>3, <3>4
  <2> QED
    BY <2>2, <2>3
<1>8. CASE PayoutUndo(r)
  <2>1. payout[r].pc = "short" /\ payout'[r].pc = "done"
    BY <1>8 DEF PayoutUndo, TypeOK, PayoutRow
  <2>2. Unsettled(u)' = Unsettled(u) \ {r}
    BY <2>1, <1>4
  <2>3. CASE payout[r].user = u
    <3>1. wallet'[u] = wallet[u] + payout[r].amount
      BY <1>8, <2>3 DEF PayoutUndo, Plus, TypeOK
    <3>2. r \in Unsettled(u)
      BY <2>1, <2>3 DEF Unsettled
    <3> QED
      BY <3>1, <3>2, <2>2, <1>1, SolventStep DEF Solvent, Returns
  <2>4. CASE payout[r].user # u
    <3>1. wallet'[u] = wallet[u]
      BY <1>8, <2>4 DEF PayoutUndo, Plus, TypeOK
    <3>2. Unsettled(u)' = Unsettled(u)
      BY <2>2, <2>4 DEF Unsettled
    <3> QED
      BY <3>1, <3>2, <1>1, <1>2, SolventStep DEF Solvent, Keeps
  <2> QED
    BY <2>3, <2>4
<1>9. CASE PayoutAbort(r)
  <2>1. wallet' = wallet
    BY <1>9 DEF PayoutAbort
  <2>2. payout'[r].pc = IF payout[r].pc = "counted" THEN "done" ELSE "lost"
    BY <1>9 DEF PayoutAbort, TypeOK, PayoutRow
  <2>3. Unsettled(u)' = Unsettled(u)
    BY <1>9, <2>2, <1>3 DEF PayoutAbort
  <2> QED
    BY <2>1, <2>3, <1>1, <1>2, SolventStep DEF Solvent, Keeps
<1>10. CASE ApproveRead(r) \/ ApproveWrite(r) \/ RejectPayout(r)
             \/ ShowApproved(r) \/ MarkPayoutPaid(r)
  <2>1. wallet' = wallet
    BY <1>10 DEF ApproveRead, ApproveWrite, RejectPayout, ShowApproved, MarkPayoutPaid
  <2>2. payout'[r].pc = payout[r].pc
    BY <1>10 DEF ApproveRead, ApproveWrite, RejectPayout, ShowApproved, MarkPayoutPaid, TypeOK, PayoutRow
  <2> QED
    BY <2>1, <2>2, <1>1, <1>2, <1>3, SolventStep DEF Solvent, Keeps
<1> QED
  BY <1>5, <1>6, <1>7, <1>8, <1>9, <1>10 DEF PayoutStep

\* A step that leaves the payouts alone is solvent when it raises a wallet or
\* leaves it at zero or more.
LEMMA OtherStepSolvent ==
  ASSUME TypeOK, TypeOK', Solvent, UNCHANGED payout,
         \A u \in Users : wallet'[u] >= wallet[u] \/ wallet'[u] >= 0
  PROVE  Solvent'
<1> SUFFICES ASSUME NEW u \in Users
             PROVE  wallet'[u] + Total(Unsettled(u)', payout') >= 0
  BY DEF Solvent
<1>1. Unsettled(u)' = Unsettled(u) /\ payout' = payout
  BY DEF Unsettled
<1>2. Total(Unsettled(u)', payout') = Total(Unsettled(u), payout)
  BY <1>1
<1> DEFINE n == Total(Unsettled(u), payout)
<1>3. n \in Nat /\ wallet[u] \in Int /\ wallet'[u] \in Int /\ wallet[u] + n >= 0
  BY UnsettledFinite DEF TypeOK, Solvent
<1> HIDE DEF n
<1>4. wallet'[u] + n >= 0
  BY <1>3
<1> QED
  BY <1>2, <1>4 DEF n

\* A wallet is overdrawn by at most the payouts still being checked, whatever
\* top-ups, refunds, payouts, aborts and admin operations interleave.
THEOREM StaysSolvent == Spec => []Solvent
<1>1. TypeOK /\ Init => Solvent
  <2> SUFFICES ASSUME TypeOK, Init, NEW u \in Users
               PROVE  wallet[u] + Total(Unsettled(u), payout) >= 0
    BY DEF Solvent
  <2>1. wallet[u] = 0
    BY DEF Init
  <2>2. Total(Unsettled(u), payout) \in Nat
    BY UnsettledFinite
  <2> QED
    BY <2>1, <2>2
<1>2. TypeOK /\ TypeOK' /\ Solvent /\ [Next]_vars => Solvent'
  <2> SUFFICES ASSUME TypeOK, TypeOK', Solvent, [Next]_vars PROVE Solvent'
    OBVIOUS
  <2>a. \A u \in Users : wallet[u] \in Int
    BY DEF TypeOK
  <2>b. ASSUME UNCHANGED <<wallet, payout>> PROVE Solvent'
    BY <2>a, <2>b, OtherStepSolvent
  <2>c. ASSUME NEW u \in Users, NEW n \in Int, UNCHANGED payout, Plus(u, n),
               n >= 0 \/ wallet[u] + n >= 0
        PROVE  Solvent'
    <3>1. wallet' = [wallet EXCEPT ![u] = @ + n]
      BY <2>c DEF Plus
    <3>2. \A w \in Users : wallet'[w] >= wallet[w] \/ wallet'[w] >= 0
      BY <2>a, <2>c, <3>1 DEF TypeOK
    <3> QED
      BY <2>c, <3>2, OtherStepSolvent
  <2>1. ASSUME NEW p \in Payments, PaymentStep(p) PROVE Solvent'
    <3>1. CASE MarkRefunded(p)
      <4>1. CASE UNCHANGED wallet
        BY <3>1, <4>1, <2>b DEF MarkRefunded, payoutVars
      <4>2. CASE wallet[payment[p].user] >= payment[p].amount
                   /\ Plus(payment[p].user, -payment[p].amount)
        <5>1. wallet[payment[p].user] + (-payment[p].amount) >= 0
          BY <4>2, <2>a, RowAmounts
        <5> QED
          BY <3>1, <4>2, <5>1, <2>c, RowAmounts DEF MarkRefunded, payoutVars
      <4> QED
        BY <3>1, <4>1, <4>2 DEF MarkRefunded
    <3>2. ASSUME NEW v \in Verifiers, VerifyEffect(p, v) PROVE Solvent'
      <4>1. UNCHANGED payout /\ payment[p].amount >= 0
        BY <3>2, RowAmounts DEF VerifyEffect, payoutVars
      <4> QED
        BY <3>2, <4>1, <2>b, <2>c, RowAmounts DEF VerifyEffect
    <3>3. CASE ~MarkRefunded(p) /\ ~\E v \in Verifiers : VerifyEffect(p, v)
      BY <2>1, <2>b, <3>3
      DEF PaymentStep, InitiateRequest, InitiateCreate, GatewayPay, VerifyStep, VerifyRead,
          VerifyMarkFailed, VerifyAsk, VerifyAnswerLost, VerifyClaim, VerifyAbort, payoutVars
    <3> QED
      BY <3>1, <3>2, <3>3
  <2>2. ASSUME NEW r \in Payouts, PayoutStep(r) PROVE Solvent'
    BY <2>2, PayoutStepSolvent
  <2>3. ASSUME NEW u \in Users, NEW a \in Amounts, AdminStep(u, a) PROVE Solvent'
    <3>1. a >= 0 /\ a \in Int /\ -a \in Int
      BY AmountsAssumption DEF Amounts
    <3>2. CASE WalletCredit(u, a)
      BY <3>1, <3>2, <2>c DEF WalletCredit, payoutVars
    <3>3. CASE WalletDebit(u, a)
      <4>1. wallet[u] + (-a) >= 0
        BY <3>1, <3>3, <2>a DEF WalletDebit
      <4> QED
        BY <3>1, <3>3, <4>1, <2>c DEF WalletDebit, payoutVars
    <3> QED
      BY <2>3, <3>2, <3>3 DEF AdminStep
  <2>4. CASE UNCHANGED vars
    BY <2>4, <2>b DEF vars, payoutVars
  <2> QED
    BY <2>1, <2>2, <2>3, <2>4 DEF Next
<1> QED
  BY <1>1, <1>2, TypeCorrect, PTL DEF Spec

-------------------------------------------------------------------------------
(* The books of a wallet balance.                                          *)

\* What the entries of u's wallet add up to.
Books(u) ==
  wallet[u] = Total(Credited(u), payment) - Total(Reversed(u), payment)
              + adjusted[u] - Total(Withdrawn(u), payout)

\* Payments keep their terms.
TermsKept == \A p \in Payments : /\ payment'[p].user = payment[p].user
                                /\ payment'[p].amount = payment[p].amount
                                /\ payment'[p].purpose = payment[p].purpose

\* A payout has no row before its money is taken, and has one until its call is
\* through with it.
PayoutsWritten ==
  \A r \in Payouts : /\ payout[r].pc \in {"idle", "counted"} => payout[r].status = "none"
                     /\ payout[r].pc \in {"taken", "short", "lost"} => RowExists(r)

LEMMA BooksFinite ==
  ASSUME NEW u
  PROVE  /\ IsFiniteSet(Credited(u)) /\ IsFiniteSet(Reversed(u)) /\ IsFiniteSet(Withdrawn(u))
         /\ Total(Credited(u), payment) \in Int
         /\ Total(Reversed(u), payment) \in Int
         /\ Total(Withdrawn(u), payout) \in Int
<1>1. IsFiniteSet(Credited(u)) /\ IsFiniteSet(Reversed(u))
  BY PaymentsAssumption, FS_Subset DEF Credited, Reversed, TopUps
<1>2. IsFiniteSet(Withdrawn(u))
  BY PayoutsAssumption, FS_Subset DEF Withdrawn
<1> QED
  BY <1>1, <1>2, UnitsFinite

\* The balance and its entries move by the same amount.
LEMMA BooksMove ==
  ASSUME TypeOK, TypeOK', NEW u \in Users, Books(u), NEW dc \in Int, NEW dr \in Int, NEW dw \in Int,
         Total(Credited(u)', payment') = Total(Credited(u), payment) + dc,
         Total(Reversed(u)', payment') = Total(Reversed(u), payment) + dr,
         Total(Withdrawn(u)', payout') = Total(Withdrawn(u), payout) + dw,
         wallet'[u] = wallet[u] + dc - dr + (adjusted'[u] - adjusted[u]) - dw
  PROVE  Books(u)'
<1> DEFINE c == Total(Credited(u), payment)
           r == Total(Reversed(u), payment)
           w == Total(Withdrawn(u), payout)
<1>1. c \in Int /\ r \in Int /\ w \in Int
  BY BooksFinite
<1>2. wallet[u] \in Int /\ adjusted[u] \in Int /\ adjusted'[u] \in Int
  BY DEF TypeOK
<1>3. wallet[u] = c - r + adjusted[u] - w
  BY DEF Books
<1> HIDE DEF c, r, w
<1>4. wallet'[u] = (c + dc) - (r + dr) + adjusted'[u] - (w + dw)
  BY <1>1, <1>2, <1>3
<1> QED
  BY <1>4 DEF Books, c, r, w

LEMMA TermsAreKept ==
  ASSUME TypeOK, NEW p \in Payments, PaymentStep(p)
  PROVE  TermsKept /\ \A q \in Payments \ {p} : payment'[q] = payment[q] /\ delivered'[q] = delivered[q]
<1>1. \/ UNCHANGED payment
      \/ \E s \in PaymentStatus : payment' = [payment EXCEPT ![p].status = s]
  BY DEF TypeOK, PaymentRow, PaymentStatus, PaymentStep, InitiateRequest, InitiateCreate, GatewayPay,
         MarkRefunded, VerifyStep, VerifyRead, VerifyMarkFailed, VerifyAsk, VerifyAnswerLost,
         VerifyClaim, VerifyEffect, VerifyAbort
<1>2. \/ UNCHANGED delivered
      \/ delivered' = [delivered EXCEPT ![p] = @ + 1]
  BY DEF PaymentStep, InitiateRequest, InitiateCreate, GatewayPay,
         MarkRefunded, VerifyStep, VerifyRead, VerifyMarkFailed, VerifyAsk, VerifyAnswerLost,
         VerifyClaim, VerifyEffect, VerifyAbort
<1> QED
  BY <1>1, <1>2 DEF TypeOK, PaymentRow, TermsKept

\* Entries that do not change.
LEMMA TopUpsSame ==
  ASSUME TermsKept, NEW u \in Users
  PROVE  TopUps(u)' = TopUps(u)
BY DEF TermsKept, TopUps

LEMMA PaymentBooks ==
  ASSUME TypeOK, TypeOK', OwnerInv, NEW p \in Payments, PaymentStep(p), NEW u \in Users, Books(u)
  PROVE  Books(u)'
<1>1. TermsKept /\ \A q \in Payments \ {p} : payment'[q] = payment[q] /\ delivered'[q] = delivered[q]
  BY TermsAreKept
<1>2. TopUps(u)' = TopUps(u)
  BY <1>1, TopUpsSame
<1>3. UNCHANGED <<payout, adjusted>>
  BY DEF PaymentStep, InitiateRequest, InitiateCreate, GatewayPay, MarkRefunded, VerifyStep, VerifyRead,
         VerifyMarkFailed, VerifyAsk, VerifyAnswerLost, VerifyClaim, VerifyEffect, VerifyAbort, payoutVars
<1>4. Total(Withdrawn(u)', payout') = Total(Withdrawn(u), payout) + 0
  <2>1. Withdrawn(u)' = Withdrawn(u)
    BY <1>3 DEF Withdrawn, RowExists
  <2>2. Total(Withdrawn(u), payout) \in Int
    BY BooksFinite
  <2> QED
    BY <1>3, <2>1, <2>2
<1>5. /\ payment[p].amount \in Amounts /\ payment[p].amount \in Int /\ -payment[p].amount \in Int
      /\ wallet[u] \in Int /\ adjusted[u] \in Int /\ adjusted'[u] = adjusted[u]
  BY <1>3, RowAmounts DEF TypeOK, PaymentRow
<1>6. \A S \in SUBSET Payments : Total(S, payment') = Total(S, payment)
  BY <1>1, TotalSame DEF TermsKept
<1>7. /\ Credited(u) \subseteq Payments /\ Credited(u)' \subseteq Payments
      /\ Reversed(u) \subseteq Payments /\ Reversed(u)' \subseteq Payments
  BY DEF Credited, Reversed, TopUps
<1>8. /\ Credited(u)' = Credited(u) => Total(Credited(u)', payment') = Total(Credited(u), payment) + 0
      /\ Reversed(u)' = Reversed(u) => Total(Reversed(u)', payment') = Total(Reversed(u), payment) + 0
  BY <1>6, <1>7, BooksFinite
<1>9. /\ UNCHANGED delivered => Credited(u)' = Credited(u)
      /\ (payment'[p].status = "refunded" <=> payment[p].status = "refunded") => Reversed(u)' = Reversed(u)
  BY <1>1, <1>2 DEF Credited, Reversed, TopUps
<1>10. ASSUME Credited(u)' = Credited(u), Reversed(u)' = Reversed(u), wallet'[u] = wallet[u]
       PROVE  Books(u)'
  <2>1. wallet'[u] = wallet[u] + 0 - 0 + (adjusted'[u] - adjusted[u]) - 0
    BY <1>5, <1>10
  <2> QED
    BY <1>4, <1>8, <1>10, <2>1, BooksMove
<1>11. CASE MarkRefunded(p)
  <2>1. /\ payment[p].status = "success" /\ payment'[p].status = "refunded" /\ UNCHANGED delivered
        /\ IF payment[p].purpose = "walletTopup"
           THEN wallet' = [wallet EXCEPT ![payment[p].user] = @ - payment[p].amount]
           ELSE UNCHANGED wallet
    BY <1>11 DEF MarkRefunded, Plus, TypeOK, PaymentRow
  <2>2. CASE p \in TopUps(u)
    <3>1. wallet'[u] = wallet[u] - payment[p].amount
      BY <2>1, <2>2, <1>5 DEF TopUps, TypeOK
    <3>2. Reversed(u)' = Reversed(u) \union {p} /\ p \notin Reversed(u)
      <4>1. \A q \in TopUps(u) : q \in Payments
        BY DEF TopUps
      <4>2. \A q \in TopUps(u) : payment'[q].status = "refunded"
                                 <=> q = p \/ payment[q].status = "refunded"
        BY <1>1, <2>1, <4>1
      <4> QED
        BY <1>2, <2>1, <2>2, <4>2 DEF Reversed
    <3>3. Total(Reversed(u)', payment') = Total(Reversed(u), payment) + payment[p].amount
      <4>1. Total(Reversed(u) \union {p}, payment) = Total(Reversed(u), payment) + payment[p].amount
        BY <1>5, <3>2, BooksFinite, TotalAdd
      <4>2. Total(Reversed(u)', payment') = Total(Reversed(u)', payment)
        BY <1>6, <1>7
      <4> QED
        BY <3>2, <4>1, <4>2
    <3>4. wallet'[u] = wallet[u] + 0 - payment[p].amount + (adjusted'[u] - adjusted[u]) - 0
      BY <1>5, <3>1
    <3> QED
      BY <1>4, <1>5, <1>8, <1>9, <2>1, <3>3, <3>4, BooksMove
  <2>3. CASE p \notin TopUps(u)
    <3>1. wallet'[u] = wallet[u]
      BY <2>1, <2>3 DEF TopUps, TypeOK
    <3>2. Reversed(u)' = Reversed(u)
      BY <1>1, <1>2, <2>3 DEF Reversed, TopUps
    <3> QED
      BY <1>9, <1>10, <2>1, <3>1, <3>2
  <2> QED
    BY <2>2, <2>3
<1>12. ASSUME NEW v \in Verifiers, VerifyEffect(p, v) PROVE Books(u)'
  <2>1. /\ delivered[p] = 0 /\ delivered'[p] > 0 /\ UNCHANGED payment
        /\ IF payment[p].purpose = "walletTopup"
           THEN wallet' = [wallet EXCEPT ![payment[p].user] = @ + payment[p].amount]
           ELSE UNCHANGED wallet
    BY <1>12 DEF VerifyEffect, Plus, Goes, OwnerInv, TypeOK
  <2>2. CASE p \in TopUps(u)
    <3>1. wallet'[u] = wallet[u] + payment[p].amount
      BY <2>1, <2>2, <1>5 DEF TopUps, TypeOK
    <3>2. Credited(u)' = Credited(u) \union {p} /\ p \notin Credited(u)
      BY <1>1, <1>2, <2>1, <2>2 DEF Credited, TopUps
    <3>3. Total(Credited(u)', payment') = Total(Credited(u), payment) + payment[p].amount
      <4>1. Total(Credited(u) \union {p}, payment) = Total(Credited(u), payment) + payment[p].amount
        BY <1>5, <3>2, BooksFinite, TotalAdd
      <4>2. Total(Credited(u)', payment') = Total(Credited(u)', payment)
        BY <1>6, <1>7
      <4> QED
        BY <3>2, <4>1, <4>2
    <3>4. wallet'[u] = wallet[u] + payment[p].amount - 0 + (adjusted'[u] - adjusted[u]) - 0
      BY <1>5, <3>1
    <3> QED
      BY <1>4, <1>5, <1>8, <1>9, <2>1, <3>3, <3>4, BooksMove
  <2>3. CASE p \notin TopUps(u)
    <3>1. wallet'[u] = wallet[u]
      BY <2>1, <2>3 DEF TopUps, TypeOK
    <3>2. Credited(u)' = Credited(u)
      BY <1>1, <1>2, <2>3 DEF Credited, TopUps
    <3> QED
      BY <1>9, <1>10, <2>1, <3>1, <3>2
  <2> QED
    BY <2>2, <2>3
<1>13. CASE ~MarkRefunded(p) /\ ~\E v \in Verifiers : VerifyEffect(p, v)
  <2>1. UNCHANGED <<delivered, wallet>>
    BY <1>13 DEF PaymentStep, InitiateRequest, InitiateCreate, GatewayPay, VerifyStep, VerifyRead,
                 VerifyMarkFailed, VerifyAsk, VerifyAnswerLost, VerifyClaim, VerifyAbort
  <2>2. payment'[p].status = "refunded" <=> payment[p].status = "refunded"
    <3>1. \/ UNCHANGED payment
          \/ payment[p].status \in {"none", "pending"}
               /\ \E s \in {"pending", "success", "failed"} : payment' = [payment EXCEPT ![p].status = s]
          \/ payment' = [payment EXCEPT ![p].status = @]
      BY <1>13 DEF PaymentStep, InitiateRequest, InitiateCreate, GatewayPay, VerifyStep, VerifyRead,
                   VerifyMarkFailed, VerifyAsk, VerifyAnswerLost, VerifyClaim, VerifyAbort
    <3> QED
      BY <3>1 DEF TypeOK, PaymentRow
  <2> QED
    BY <1>9, <1>10, <2>1, <2>2
<1> QED
  BY <1>11, <1>12, <1>13

LEMMA PayoutsWrittenStep ==
  ASSUME TypeOK, PayoutsWritten, [Next]_vars
  PROVE  PayoutsWritten'
<1>1. ASSUME NEW r \in Payouts, PayoutStep(r) PROVE PayoutsWritten'
  <2>1. \A q \in Payouts \ {r} : payout'[q] = payout[q]
    BY <1>1, PayoutRowsKept
  <2>2. /\ payout'[r].pc \in {"idle", "counted"} => payout'[r].status = "none"
        /\ payout'[r].pc \in {"taken", "short", "lost"} => payout'[r].status \notin {"none", "deleted"}
    BY <1>1
    DEF PayoutsWritten, RowExists, PayoutStep, PayoutCount, PayoutTake, PayoutCheck, PayoutUndo, PayoutAbort,
        ApproveRead, ApproveWrite, RejectPayout, ShowApproved, MarkPayoutPaid, TypeOK, PayoutRow
  <2> QED
    BY <2>1, <2>2 DEF PayoutsWritten, RowExists
<1>2. CASE UNCHANGED payout
  BY <1>2 DEF PayoutsWritten, RowExists
<1>3. (\E r \in Payouts : PayoutStep(r)) \/ UNCHANGED payout
  BY DEF Next, vars, payoutVars, PaymentStep, InitiateRequest, InitiateCreate, GatewayPay, MarkRefunded,
         VerifyStep, VerifyRead, VerifyMarkFailed, VerifyAsk, VerifyAnswerLost, VerifyClaim, VerifyEffect,
         VerifyAbort, AdminStep, WalletCredit, WalletDebit
<1> QED
  BY <1>1, <1>2, <1>3

LEMMA PayoutBooks ==
  ASSUME TypeOK, TypeOK', PayoutsWritten, NEW r \in Payouts, PayoutStep(r), NEW u \in Users, Books(u)
  PROVE  Books(u)'
<1>1. RowsKept /\ \A q \in Payouts \ {r} : payout'[q] = payout[q]
  BY PayoutRowsKept
<1>2. UNCHANGED <<payment, delivered, adjusted>>
  BY DEF PayoutStep, PayoutCount, PayoutTake, PayoutCheck, PayoutUndo, PayoutAbort, ApproveRead,
         ApproveWrite, RejectPayout, ShowApproved, MarkPayoutPaid, paymentVars
<1>3. /\ Total(Credited(u)', payment') = Total(Credited(u), payment) + 0
      /\ Total(Reversed(u)', payment') = Total(Reversed(u), payment) + 0
  <2>1. Credited(u)' = Credited(u) /\ Reversed(u)' = Reversed(u)
    BY <1>2 DEF Credited, Reversed, TopUps
  <2>2. Total(Credited(u), payment) \in Int /\ Total(Reversed(u), payment) \in Int
    BY BooksFinite
  <2> QED
    BY <1>2, <2>1, <2>2
<1>4. /\ payout[r].amount \in Amounts /\ payout[r].amount \in Int /\ -payout[r].amount \in Int
      /\ wallet[u] \in Int /\ adjusted[u] \in Int /\ adjusted'[u] = adjusted[u]
  BY <1>2, RowAmounts DEF TypeOK, PayoutRow
<1>5. \A S \in SUBSET Payouts : Total(S, payout') = Total(S, payout)
  BY <1>1, TotalSame DEF RowsKept
<1>6. Withdrawn(u) \subseteq Payouts /\ Withdrawn(u)' \subseteq Payouts
  BY DEF Withdrawn
<1>7. ASSUME Withdrawn(u)' = Withdrawn(u), wallet'[u] = wallet[u]
      PROVE  Books(u)'
  <2>1. Total(Withdrawn(u)', payout') = Total(Withdrawn(u), payout) + 0
    BY <1>5, <1>6, <1>7, BooksFinite
  <2>2. wallet'[u] = wallet[u] + 0 - 0 + (adjusted'[u] - adjusted[u]) - 0
    BY <1>4, <1>7
  <2> QED
    BY <1>3, <2>1, <2>2, BooksMove
<1>8. ASSUME payout'[r].status \in {"none", "deleted"} <=> payout[r].status \in {"none", "deleted"}
      PROVE  Withdrawn(u)' = Withdrawn(u)
  BY <1>1, <1>8 DEF Withdrawn, RowExists, RowsKept
<1>9. CASE PayoutTake(r)
  <2>1. /\ payout[r].status = "none" /\ payout'[r].status = "pending"
        /\ wallet' = [wallet EXCEPT ![payout[r].user] = @ + (-payout[r].amount)]
    BY <1>9 DEF PayoutTake, Plus, PayoutsWritten, TypeOK, PayoutRow
  <2>2. CASE payout[r].user = u
    <3>1. wallet'[u] = wallet[u] + 0 - 0 + (adjusted'[u] - adjusted[u]) - payout[r].amount
      BY <1>4, <2>1, <2>2 DEF TypeOK
    <3>2. Withdrawn(u)' = Withdrawn(u) \union {r} /\ r \notin Withdrawn(u)
      BY <1>1, <2>1, <2>2 DEF Withdrawn, RowExists, RowsKept
    <3>3. Total(Withdrawn(u) \union {r}, payout) = Total(Withdrawn(u), payout) + payout[r].amount
      BY <1>4, <3>2, BooksFinite, TotalAdd
    <3>4. Total(Withdrawn(u)', payout') = Total(Withdrawn(u), payout) + payout[r].amount
      BY <1>5, <1>6, <3>2, <3>3
    <3> QED
      BY <1>3, <1>4, <3>1, <3>4, BooksMove
  <2>3. CASE payout[r].user # u
    <3>1. Withdrawn(u)' = Withdrawn(u)
      BY <1>1, <2>3 DEF Withdrawn, RowExists, RowsKept
    <3> QED
      BY <1>7, <2>1, <2>3, <3>1 DEF TypeOK
  <2> QED
    BY <2>2, <2>3
<1>10. CASE PayoutUndo(r)
  <2>1. /\ payout[r].status \notin {"none", "deleted"} /\ payout'[r].status = "deleted"
        /\ wallet' = [wallet EXCEPT ![payout[r].user] = @ + payout[r].amount]
    BY <1>10 DEF PayoutUndo, Plus, PayoutsWritten, RowExists, TypeOK, PayoutRow
  <2>2. CASE payout[r].user = u
    <3>1. wallet'[u] = wallet[u] + 0 - 0 + (adjusted'[u] - adjusted[u]) - (-payout[r].amount)
      BY <1>4, <2>1, <2>2 DEF TypeOK
    <3>2. Withdrawn(u) = Withdrawn(u)' \union {r} /\ r \notin Withdrawn(u)'
      BY <1>1, <2>1, <2>2 DEF Withdrawn, RowExists, RowsKept
    <3>3. IsFiniteSet(Withdrawn(u)')
      BY <1>6, PayoutsAssumption, FS_Subset
    <3>4. Total(Withdrawn(u)', payout') = Total(Withdrawn(u), payout) - payout[r].amount
      <4>1. PICK T : T = Withdrawn(u)'
        OBVIOUS
      <4>2. IsFiniteSet(Withdrawn(u)) /\ Withdrawn(u) = T \union {r} /\ r \notin T /\ IsFiniteSet(T)
        BY <3>2, <3>3, <4>1, BooksFinite
      <4>3. Total(T, payout') = Total(T, payout)
        BY <1>5, <1>6, <4>1
      <4>4. Total(Withdrawn(u), payout) = Total(T, payout) + payout[r].amount
        BY <1>4, <4>2, TotalAdd
      <4>5. Total(T, payout) \in Int
        BY <4>2, UnitsFinite
      <4> QED
        BY <1>4, <4>1, <4>3, <4>4, <4>5
    <3>5. Total(Withdrawn(u)', payout') = Total(Withdrawn(u), payout) + (-payout[r].amount)
      <4> DEFINE n == Total(Withdrawn(u), payout)
      <4>1. n \in Int
        BY BooksFinite
      <4> HIDE DEF n
      <4>2. n - payout[r].amount = n + (-payout[r].amount)
        BY <1>4, <4>1
      <4> QED
        BY <3>4, <4>2 DEF n
    <3> QED
      BY <1>3, <1>4, <3>1, <3>5, BooksMove
  <2>3. CASE payout[r].user # u
    <3>1. Withdrawn(u)' = Withdrawn(u)
      BY <1>1, <2>3 DEF Withdrawn, RowExists, RowsKept
    <3> QED
      BY <1>7, <2>1, <2>3, <3>1 DEF TypeOK
  <2> QED
    BY <2>2, <2>3
<1>11. CASE ~PayoutTake(r) /\ ~PayoutUndo(r)
  <2>1. UNCHANGED wallet
    BY <1>11 DEF PayoutStep, PayoutCount, PayoutCheck, PayoutAbort, ApproveRead, ApproveWrite,
                 RejectPayout, ShowApproved, MarkPayoutPaid
  <2>2. payout'[r].status \in {"none", "deleted"} <=> payout[r].status \in {"none", "deleted"}
    BY <1>11 DEF PayoutStep, PayoutCount, PayoutCheck, PayoutAbort, ApproveRead, ApproveWrite,
                 RejectPayout, ShowApproved, MarkPayoutPaid, RowExists, TypeOK, PayoutRow
  <2> QED
    BY <1>7, <1>8, <2>1, <2>2
<1> QED
  BY <1>9, <1>10, <1>11

LEMMA AdminBooks ==
  ASSUME TypeOK, TypeOK', NEW w \in Users, NEW a \in Amounts, AdminStep(w, a), NEW u \in Users, Books(u)
  PROVE  Books(u)'
<1>1. UNCHANGED <<payment, delivered, payout>>
  BY DEF AdminStep, WalletCredit, WalletDebit, paymentVars, payoutVars
<1>2. /\ Total(Credited(u)', payment') = Total(Credited(u), payment) + 0
      /\ Total(Reversed(u)', payment') = Total(Reversed(u), payment) + 0
      /\ Total(Withdrawn(u)', payout') = Total(Withdrawn(u), payout) + 0
  <2>1. Credited(u)' = Credited(u) /\ Reversed(u)' = Reversed(u) /\ Withdrawn(u)' = Withdrawn(u)
    BY <1>1 DEF Credited, Reversed, TopUps, Withdrawn, RowExists
  <2>2. /\ Total(Credited(u), payment) \in Int /\ Total(Reversed(u), payment) \in Int
        /\ Total(Withdrawn(u), payout) \in Int
    BY BooksFinite
  <2> QED
    BY <1>1, <2>1, <2>2
<1>3. wallet'[u] = wallet[u] + 0 - 0 + (adjusted'[u] - adjusted[u]) - 0
  <2>1. a \in Int /\ wallet[u] \in Int /\ adjusted[u] \in Int
    BY RowAmounts DEF TypeOK
  <2>2. PICK n \in {a, -a} : /\ wallet' = [wallet EXCEPT ![w] = @ + n]
                             /\ adjusted' = [adjusted EXCEPT ![w] = @ + n]
    BY <2>1 DEF AdminStep, WalletCredit, WalletDebit, Plus, TypeOK
  <2> QED
    BY <2>1, <2>2 DEF TypeOK
<1> QED
  BY <1>2, <1>3, BooksMove

Splits(S, T, row) ==
  /\ Total(S \ T, row) \in Nat
  /\ Total(S \intersect T, row) \in Nat
  /\ Total(S, row) = Total(S \ T, row) + Total(S \intersect T, row)

\* A total is that of two parts of its set.
LEMMA TotalSplits ==
  ASSUME NEW S, NEW T, NEW row, IsFiniteSet(S)
  PROVE  Splits(S, T, row)
<1>1. IsFiniteSet(S \ T) /\ IsFiniteSet(S \intersect T)
  BY FS_Subset
<1> DEFINE Out == Units(S \ T, row)
           In  == Units(S \intersect T, row)
<1>2. IsFiniteSet(Out) /\ IsFiniteSet(In)
  BY <1>1, UnitsFinite
<1>3. Units(S, row) = Out \union In /\ Out \intersect In = {}
  BY DEF Units
<1>4. Cardinality(Out) \in Nat /\ Cardinality(In) \in Nat
  BY <1>1, UnitsFinite DEF Total
<1>5. Total(S, row) = Cardinality(Out \union In)
  BY <1>3 DEF Total
<1> HIDE DEF Out, In
<1>6. Cardinality(Out \union In) = Cardinality(Out) + Cardinality(In) - Cardinality({})
  BY <1>2, <1>3, FS_Union
<1>7. Cardinality({}) = 0
  BY FS_EmptySet
<1>8. Cardinality(Out \union In) = Cardinality(Out) + Cardinality(In)
  BY <1>4, <1>6, <1>7
<1> QED
  BY <1>4, <1>5, <1>8 DEF Splits, Total, Out, In

\* The books as Balanced has them, with what is not given back by itself.
LEMMA BooksBalance ==
  ASSUME TypeOK, NEW u \in Users, Books(u)
  PROVE  wallet[u] = Total(Credited(u) \ Reversed(u), payment) + adjusted[u]
                     - Total(Withdrawn(u) \ Rejected(u), payout)
                     - Total(Rejected(u), payout) - Total(NeverCredited(u), payment)
<1> DEFINE kept  == Total(Credited(u) \ Reversed(u), payment)
           both  == Total(Credited(u) \intersect Reversed(u), payment)
           never == Total(NeverCredited(u), payment)
           other == Total(Withdrawn(u) \ Rejected(u), payout)
           gone  == Total(Rejected(u), payout)
<1>1. IsFiniteSet(Credited(u)) /\ IsFiniteSet(Reversed(u)) /\ IsFiniteSet(Withdrawn(u))
  BY BooksFinite
<1>2. Splits(Credited(u), Reversed(u), payment) /\ Splits(Reversed(u), Credited(u), payment)
  BY <1>1, TotalSplits
<1>3. Splits(Withdrawn(u), Rejected(u), payout)
  BY <1>1, TotalSplits
<1>4. kept \in Nat /\ both \in Nat /\ Total(Credited(u), payment) = kept + both
  BY <1>2 DEF Splits
<1>5. never \in Nat /\ Total(Reversed(u), payment) = never + both
  <2>1. Reversed(u) \intersect Credited(u) = Credited(u) \intersect Reversed(u)
    OBVIOUS
  <2> QED
    BY <1>2, <2>1 DEF Splits, NeverCredited
<1>6. other \in Nat /\ gone \in Nat /\ Total(Withdrawn(u), payout) = other + gone
  <2>1. Withdrawn(u) \intersect Rejected(u) = Rejected(u)
    BY DEF Rejected
  <2> QED
    BY <1>3, <2>1 DEF Splits
<1>7. wallet[u] \in Int /\ adjusted[u] \in Int
  BY DEF TypeOK
<1> HIDE DEF kept, both, never, other, gone
<1>8. wallet[u] = (kept + both) - (never + both) + adjusted[u] - (other + gone)
  BY <1>4, <1>5, <1>6 DEF Books
<1>9. wallet[u] = kept + adjusted[u] - other - gone - never
  BY <1>4, <1>5, <1>6, <1>7, <1>8
<1> QED
  BY <1>9 DEF kept, never, other, gone

\* Every unit in a wallet is explained by a row or an adjustment: what top-ups
\* credited and refunds did not take back, the admin's adjustments, the payouts, and
\* what rejections and refunds of payments never credited did not give back.
THEOREM StaysBalanced == Spec => []Balanced
<1> DEFINE Inv == PayoutsWritten /\ \A u \in Users : Books(u)
<1>1. TypeOK /\ Init => Inv
  <2> SUFFICES ASSUME TypeOK, Init PROVE Inv
    OBVIOUS
  <2>1. PayoutsWritten
    BY DEF PayoutsWritten, Init
  <2>2. ASSUME NEW u \in Users PROVE Books(u)
    <3>1. Credited(u) = {} /\ Reversed(u) = {} /\ Withdrawn(u) = {}
      BY DEF Init, Credited, Reversed, TopUps, Withdrawn, RowExists
    <3>2. Total({}, payment) = 0 /\ Total({}, payout) = 0
      BY FS_EmptySet DEF Total, Units
    <3> QED
      BY <3>1, <3>2 DEF Books, Init
  <2> QED
    BY <2>1, <2>2
<1>2. TypeOK /\ TypeOK' /\ OwnerInv /\ Inv /\ [Next]_vars => Inv'
  <2> SUFFICES ASSUME TypeOK, TypeOK', OwnerInv, Inv, [Next]_vars PROVE Inv'
    OBVIOUS
  <2>1. PayoutsWritten'
    BY PayoutsWrittenStep
  <2>2. ASSUME NEW u \in Users PROVE Books(u)'
    <3>1. CASE \E p \in Payments : PaymentStep(p)
      BY <3>1, PaymentBooks
    <3>2. CASE \E r \in Payouts : PayoutStep(r)
      BY <3>2, PayoutBooks
    <3>3. CASE \E w \in Users, a \in Amounts : AdminStep(w, a)
      BY <3>3, AdminBooks
    <3>4. CASE UNCHANGED vars
      BY <3>4 DEF Books, Credited, Reversed, TopUps, Withdrawn, RowExists, vars, paymentVars, payoutVars
    <3> QED
      BY <3>1, <3>2, <3>3, <3>4 DEF Next
  <2> QED
    BY <2>1, <2>2
<1>3. TypeOK /\ Inv => Balanced
  BY BooksBalance DEF Balanced
<1> HIDE DEF Inv
<1> QED
  BY <1>1, <1>2, <1>3, TypeCorrect, OwnerInvariant, PTL DEF Spec

-------------------------------------------------------------------------------
(* Payments implements WalletLedger.                                       *)

Topup(p)    == <<"topup", p>>
Refund(p)   == <<"refund", p>>
Withdraw(r) == <<"payout", r>>

\* What the ledger knows of each entry.
LEMMA EntryTerms ==
  /\ \A p \in Payments :
       /\ Topup(p) \in LedgerEntries /\ Refund(p) \in LedgerEntries
       /\ LedgerTerms[Topup(p)].user  = payment[p].user /\ LedgerTerms[Topup(p)].amount  = payment[p].amount
       /\ LedgerTerms[Refund(p)].user = payment[p].user /\ LedgerTerms[Refund(p)].amount = -payment[p].amount
  /\ \A r \in Payouts :
       /\ Withdraw(r) \in LedgerEntries /\ Withdraw(r) \in PayoutEntries
       /\ LedgerTerms[Withdraw(r)].user = payout[r].user /\ LedgerTerms[Withdraw(r)].amount = -payout[r].amount
BY DEF LedgerEntries, TopUpEntries, RefundEntries, PayoutEntries, LedgerTerms, Topup, Refund, Withdraw

LEMMA EntryPosted ==
  /\ \A p \in Payments : /\ Topup(p) \in LedgerPosted <=> IsTopUp(p) /\ delivered[p] > 0
                         /\ Refund(p) \in LedgerPosted <=> IsTopUp(p) /\ payment[p].status = "refunded"
  /\ \A r \in Payouts : /\ Withdraw(r) \in LedgerPosted <=> payout[r].status # "none"
                        /\ Withdraw(r) \in LedgerVoided <=> payout[r].status = "deleted"
  /\ LedgerPosted \subseteq LedgerEntries
  /\ LedgerVoided \subseteq LedgerEntries
  /\ \A e \in LedgerVoided : \E r \in Payouts : e = Withdraw(r)
BY DEF LedgerEntries, TopUpEntries, RefundEntries, PayoutEntries, LedgerPosted, LedgerVoided, IsTopUp,
       Topup, Refund, Withdraw

\* There are no entries but these.
LEMMA EveryEntry ==
  ASSUME NEW e \in LedgerEntries
  PROVE  (\E p \in Payments : e = Topup(p) \/ e = Refund(p)) \/ (\E r \in Payouts : e = Withdraw(r))
BY DEF LedgerEntries, TopUpEntries, RefundEntries, PayoutEntries, Topup, Refund, Withdraw

LEMMA EntriesDiffer ==
  /\ \A p, q : Topup(p) # Refund(q) /\ Topup(p) # Withdraw(q) /\ Refund(p) # Withdraw(q)
  /\ \A p, q : /\ Topup(p) = Topup(q) => p = q
               /\ Refund(p) = Refund(q) => p = q
               /\ Withdraw(p) = Withdraw(q) => p = q
BY DEF Topup, Refund, Withdraw

LEMMA TermsFixed ==
  ASSUME TermsKept, RowsKept
  PROVE  LedgerTerms' = LedgerTerms
BY DEF TermsKept, RowsKept, LedgerTerms, LedgerEntries, TopUpEntries, RefundEntries, PayoutEntries

\* What the ledger has posted after a step, entry by entry.
LEMMA PostedThen ==
  ASSUME TermsKept,
         NEW E \in SUBSET LedgerEntries,
         \A q \in Payments :
           /\ IsTopUp(q) /\ delivered'[q] > 0
                <=> (IsTopUp(q) /\ delivered[q] > 0) \/ Topup(q) \in E
           /\ IsTopUp(q) /\ payment'[q].status = "refunded"
                <=> (IsTopUp(q) /\ payment[q].status = "refunded") \/ Refund(q) \in E,
         \A r \in Payouts : payout'[r].status # "none"
                              <=> payout[r].status # "none" \/ Withdraw(r) \in E
  PROVE  LedgerPosted' = LedgerPosted \union E
<1>1. /\ \A q \in Payments :
           /\ Topup(q)  \in LedgerPosted' <=> IsTopUp(q) /\ delivered'[q] > 0
           /\ Refund(q) \in LedgerPosted' <=> IsTopUp(q) /\ payment'[q].status = "refunded"
      /\ \A r \in Payouts : Withdraw(r) \in LedgerPosted' <=> payout'[r].status # "none"
      /\ LedgerPosted' \subseteq LedgerEntries
  BY DEF TermsKept, LedgerEntries, TopUpEntries, RefundEntries, PayoutEntries, LedgerPosted, IsTopUp,
         Topup, Refund, Withdraw
<1>2. ASSUME NEW e \in LedgerEntries PROVE e \in LedgerPosted' <=> e \in LedgerPosted \/ e \in E
  <2>1. CASE \E q \in Payments : e = Topup(q)
    BY <2>1, <1>1, EntryPosted
  <2>2. CASE \E q \in Payments : e = Refund(q)
    BY <2>2, <1>1, EntryPosted
  <2>3. CASE \E r \in Payouts : e = Withdraw(r)
    BY <2>3, <1>1, EntryPosted
  <2> QED
    BY <2>1, <2>2, <2>3, EveryEntry
<1> QED
  BY <1>1, <1>2, EntryPosted

\* The step of the ledger that a change of one balance by one entry is.
LEMMA Posting ==
  ASSUME UNCHANGED <<LedgerTerms, LedgerVoided, adjusted>>,
         NEW e \in LedgerEntries, e \notin LedgerPosted, LedgerPosted' = LedgerPosted \union {e},
         wallet' = [wallet EXCEPT ![LedgerTerms[e].user] = @ + LedgerTerms[e].amount]
  PROVE  Ledger!Next
BY DEF Ledger!Next, Ledger!Post

\* A step of a payment posts its top-up, posts its reversal or posts nothing.
LEMMA PaymentPosts ==
  ASSUME TypeOK, TypeOK', OwnerInv, NEW p \in Payments, PaymentStep(p)
  PROVE  Ledger!Next \/ UNCHANGED Ledger!ledgerVars
<1>1. TermsKept /\ \A q \in Payments \ {p} : payment'[q] = payment[q] /\ delivered'[q] = delivered[q]
  BY TermsAreKept
<1>2. UNCHANGED <<payout, adjusted>>
  BY DEF PaymentStep, InitiateRequest, InitiateCreate, GatewayPay, MarkRefunded, VerifyStep, VerifyRead,
         VerifyMarkFailed, VerifyAsk, VerifyAnswerLost, VerifyClaim, VerifyEffect, VerifyAbort, payoutVars
<1>3. UNCHANGED <<LedgerTerms, LedgerVoided, adjusted>>
  BY <1>1, <1>2, TermsFixed DEF RowsKept, LedgerVoided
<1>4. ASSUME IsTopUp(p) => /\ delivered'[p] > 0 <=> delivered[p] > 0
                           /\ payment'[p].status = "refunded" <=> payment[p].status = "refunded",
             UNCHANGED wallet
      PROVE  UNCHANGED Ledger!ledgerVars
  <2>1. LedgerPosted' = LedgerPosted \union {}
    BY <1>1, <1>2, <1>4, PostedThen
  <2> QED
    BY <1>3, <1>4, <2>1 DEF Ledger!ledgerVars
<1>5. CASE MarkRefunded(p)
  <2>1. /\ payment[p].status = "success" /\ payment'[p].status = "refunded" /\ UNCHANGED delivered
        /\ IF IsTopUp(p)
           THEN wallet' = [wallet EXCEPT ![payment[p].user] = @ + (-payment[p].amount)]
           ELSE UNCHANGED wallet
    BY <1>5 DEF MarkRefunded, Plus, TypeOK, PaymentRow, IsTopUp
  <2>2. CASE IsTopUp(p)
    <3>1. Refund(p) \in LedgerEntries /\ Refund(p) \notin LedgerPosted
      BY <2>1, EntryTerms, EntryPosted
    <3>2. LedgerPosted' = LedgerPosted \union {Refund(p)}
      BY <1>1, <1>2, <2>1, <2>2, <3>1, EntriesDiffer, PostedThen
    <3>3. /\ LedgerTerms[Refund(p)].user = payment[p].user
          /\ LedgerTerms[Refund(p)].amount = -payment[p].amount
      BY EntryTerms
    <3>4. wallet' = [wallet EXCEPT ![LedgerTerms[Refund(p)].user] = @ + LedgerTerms[Refund(p)].amount]
      BY <2>1, <2>2, <3>3
    <3> QED
      BY <1>3, <3>1, <3>2, <3>4, Posting
  <2>3. CASE ~IsTopUp(p)
    BY <1>4, <2>1, <2>3
  <2> QED
    BY <2>2, <2>3
<1>6. ASSUME NEW v \in Verifiers, VerifyEffect(p, v)
      PROVE  Ledger!Next \/ UNCHANGED Ledger!ledgerVars
  <2>1. /\ ~(delivered[p] > 0) /\ delivered'[p] > 0 /\ UNCHANGED payment
        /\ IF IsTopUp(p)
           THEN wallet' = [wallet EXCEPT ![payment[p].user] = @ + payment[p].amount]
           ELSE UNCHANGED wallet
    BY <1>6 DEF VerifyEffect, Plus, Goes, OwnerInv, TypeOK, IsTopUp
  <2>2. CASE IsTopUp(p)
    <3>1. Topup(p) \in LedgerEntries /\ Topup(p) \notin LedgerPosted
      BY <2>1, EntryTerms, EntryPosted
    <3>2. LedgerPosted' = LedgerPosted \union {Topup(p)}
      BY <1>1, <1>2, <2>1, <2>2, <3>1, EntriesDiffer, PostedThen
    <3>3. /\ LedgerTerms[Topup(p)].user = payment[p].user
          /\ LedgerTerms[Topup(p)].amount = payment[p].amount
      BY EntryTerms
    <3>4. wallet' = [wallet EXCEPT ![LedgerTerms[Topup(p)].user] = @ + LedgerTerms[Topup(p)].amount]
      BY <2>1, <2>2, <3>3
    <3> QED
      BY <1>3, <3>1, <3>2, <3>4, Posting
  <2>3. CASE ~IsTopUp(p)
    BY <1>4, <2>1, <2>3
  <2> QED
    BY <2>2, <2>3
<1>7. CASE ~MarkRefunded(p) /\ ~\E v \in Verifiers : VerifyEffect(p, v)
  <2>1. UNCHANGED <<delivered, wallet>>
    BY <1>7 DEF PaymentStep, InitiateRequest, InitiateCreate, GatewayPay, VerifyStep, VerifyRead,
                VerifyMarkFailed, VerifyAsk, VerifyAnswerLost, VerifyClaim, VerifyAbort
  <2>2. payment'[p].status = "refunded" <=> payment[p].status = "refunded"
    <3>1. \/ UNCHANGED payment
          \/ payment[p].status \in {"none", "pending"}
               /\ \E s \in {"pending", "success", "failed"} : payment' = [payment EXCEPT ![p].status = s]
          \/ payment' = [payment EXCEPT ![p].status = @]
      BY <1>7 DEF PaymentStep, InitiateRequest, InitiateCreate, GatewayPay, VerifyStep, VerifyRead,
                  VerifyMarkFailed, VerifyAsk, VerifyAnswerLost, VerifyClaim, VerifyAbort
    <3> QED
      BY <3>1 DEF TypeOK, PaymentRow
  <2> QED
    BY <1>4, <2>1, <2>2
<1> QED
  BY <1>5, <1>6, <1>7

\* A payout posts its withdrawal, takes it back or does neither.
LEMMA PayoutPosts ==
  ASSUME TypeOK, TypeOK', PayoutsWritten, NEW r \in Payouts, PayoutStep(r)
  PROVE  Ledger!Next \/ UNCHANGED Ledger!ledgerVars
<1>1. RowsKept /\ \A q \in Payouts \ {r} : payout'[q] = payout[q]
  BY PayoutRowsKept
<1>2. UNCHANGED <<payment, delivered, adjusted>>
  BY DEF PayoutStep, PayoutCount, PayoutTake, PayoutCheck, PayoutUndo, PayoutAbort, ApproveRead,
         ApproveWrite, RejectPayout, ShowApproved, MarkPayoutPaid, paymentVars
<1>3. TermsKept /\ LedgerTerms' = LedgerTerms
  BY <1>1, <1>2, TermsFixed DEF TermsKept
<1>4. /\ \A q \in Payouts : Withdraw(q) \in LedgerVoided' <=> payout'[q].status = "deleted"
      /\ \A e \in LedgerVoided' : \E q \in Payouts : e = Withdraw(q)
  BY DEF LedgerVoided, PayoutEntries, Withdraw
<1>5. ASSUME payout'[r].status = "deleted" <=> payout[r].status = "deleted"
      PROVE  LedgerVoided' = LedgerVoided
  <2>1. \A q \in Payouts : payout'[q].status = "deleted" <=> payout[q].status = "deleted"
    BY <1>1, <1>5
  <2>2. \A e \in LedgerVoided' : e \in LedgerVoided
    BY <1>4, <2>1, EntryPosted
  <2>3. \A e \in LedgerVoided : e \in LedgerVoided'
    BY <1>4, <2>1, EntryPosted
  <2> QED
    BY <2>2, <2>3
<1>6. ASSUME payout'[r].status = "none" <=> payout[r].status = "none"
      PROVE  LedgerPosted' = LedgerPosted
  <2>1. \A q \in Payouts : payout'[q].status # "none" <=> payout[q].status # "none"
    BY <1>1, <1>6
  <2>2. LedgerPosted' = LedgerPosted \union {}
    BY <1>2, <1>3, <2>1, PostedThen
  <2> QED
    BY <2>2
<1>7. CASE PayoutTake(r)
  <2>1. /\ payout[r].status = "none" /\ payout'[r].status = "pending"
        /\ wallet' = [wallet EXCEPT ![payout[r].user] = @ + (-payout[r].amount)]
    BY <1>7 DEF PayoutTake, Plus, PayoutsWritten, TypeOK, PayoutRow
  <2>2. Withdraw(r) \in LedgerEntries /\ Withdraw(r) \notin LedgerPosted
    BY <2>1, EntryTerms, EntryPosted
  <2>3. \A q \in Payouts : payout'[q].status # "none"
                             <=> payout[q].status # "none" \/ Withdraw(q) \in {Withdraw(r)}
    BY <1>1, <2>1, EntriesDiffer
  <2>4. LedgerPosted' = LedgerPosted \union {Withdraw(r)}
    BY <1>2, <1>3, <2>2, <2>3, EntriesDiffer, PostedThen
  <2>5. UNCHANGED <<LedgerTerms, LedgerVoided, adjusted>>
    BY <1>2, <1>3, <1>5, <2>1
  <2>6. /\ LedgerTerms[Withdraw(r)].user = payout[r].user
        /\ LedgerTerms[Withdraw(r)].amount = -payout[r].amount
    BY EntryTerms
  <2>7. wallet' = [wallet EXCEPT ![LedgerTerms[Withdraw(r)].user] = @ + LedgerTerms[Withdraw(r)].amount]
    BY <2>1, <2>6
  <2> QED
    BY <2>2, <2>4, <2>5, <2>7, Posting
<1>8. CASE PayoutUndo(r)
  <2>1. /\ payout[r].status \notin {"none", "deleted"} /\ payout'[r].status = "deleted"
        /\ wallet' = [wallet EXCEPT ![payout[r].user] = @ + payout[r].amount]
    BY <1>8 DEF PayoutUndo, Plus, PayoutsWritten, RowExists, TypeOK, PayoutRow
  <2>2. Withdraw(r) \in (LedgerPosted \intersect PayoutEntries) \ LedgerVoided
    BY <2>1, EntryTerms, EntryPosted
  <2>3. LedgerVoided' = LedgerVoided \union {Withdraw(r)}
    <3>1. \A q \in Payouts : payout'[q].status = "deleted" <=> payout[q].status = "deleted" \/ q = r
      BY <1>1, <2>1
    <3> QED
      BY <1>4, <3>1, EntryPosted, EntriesDiffer
  <2>4. wallet[payout[r].user] + payout[r].amount = wallet[payout[r].user] - (-payout[r].amount)
    <3>1. wallet[payout[r].user] \in Int /\ payout[r].amount \in Int
      BY RowAmounts DEF TypeOK, PayoutRow
    <3> QED
      BY <3>1
  <2>5. wallet' = [wallet EXCEPT ![LedgerTerms[Withdraw(r)].user]
                                   = @ - LedgerTerms[Withdraw(r)].amount]
    <3>1. /\ LedgerTerms[Withdraw(r)].user = payout[r].user
          /\ LedgerTerms[Withdraw(r)].amount = -payout[r].amount
      BY EntryTerms
    <3> QED
      BY <2>1, <2>4, <3>1
  <2>6. UNCHANGED <<LedgerTerms, LedgerPosted, adjusted>>
    BY <1>2, <1>3, <1>6, <2>1
  <2> QED
    BY <2>2, <2>3, <2>5, <2>6, EntryTerms DEF Ledger!Next, Ledger!Void
<1>9. CASE ~PayoutTake(r) /\ ~PayoutUndo(r)
  <2>1. UNCHANGED wallet
    BY <1>9 DEF PayoutStep, PayoutCount, PayoutCheck, PayoutAbort, ApproveRead, ApproveWrite,
                RejectPayout, ShowApproved, MarkPayoutPaid
  <2>2. /\ payout'[r].status = "none" <=> payout[r].status = "none"
        /\ payout'[r].status = "deleted" <=> payout[r].status = "deleted"
    BY <1>9 DEF PayoutStep, PayoutCount, PayoutCheck, PayoutAbort, ApproveRead, ApproveWrite,
                RejectPayout, ShowApproved, MarkPayoutPaid, RowExists, TypeOK, PayoutRow
  <2> QED
    BY <1>2, <1>3, <1>5, <1>6, <2>1, <2>2 DEF Ledger!ledgerVars
<1> QED
  BY <1>7, <1>8, <1>9

\* A credit adjusts a balance upwards, a debit downwards.
LEMMA AdminAdjusts ==
  ASSUME TypeOK, NEW u \in Users, NEW a \in Amounts, AdminStep(u, a)
  PROVE  Ledger!Next
<1>1. UNCHANGED <<LedgerTerms, LedgerPosted, LedgerVoided>>
  BY DEF AdminStep, WalletCredit, WalletDebit, paymentVars, payoutVars, LedgerTerms, LedgerPosted,
         LedgerVoided, IsTopUp
<1>2. a \in (-MaxAmount)..MaxAmount /\ -a \in (-MaxAmount)..MaxAmount /\ a \in Int
  BY AmountsAssumption DEF Amounts
<1>3. wallet[u] \in Int /\ adjusted[u] \in Int
  BY DEF TypeOK
<1>4. \E n \in (-MaxAmount)..MaxAmount : /\ wallet' = [wallet EXCEPT ![u] = @ + n]
                                         /\ adjusted' = [adjusted EXCEPT ![u] = @ + n]
  <2>1. CASE WalletCredit(u, a)
    BY <1>2, <2>1 DEF WalletCredit, Plus
  <2>2. CASE WalletDebit(u, a)
    <3>1. adjusted[u] - a = adjusted[u] + (-a)
      BY <1>2, <1>3
    <3> QED
      BY <1>2, <2>2, <3>1 DEF WalletDebit, Plus
  <2> QED
    BY <2>1, <2>2 DEF AdminStep
<1> QED
  BY <1>1, <1>4 DEF Ledger!Next, Ledger!Adjust

\* The wallet is a ledger: callbacks, claims, refunds, compensations and crashes post
\* and void every entry at most once, in the step that moves the balance.
THEOREM Implements == Spec => ImplementsLedger
<1>1. TypeOK /\ Init => PayoutsWritten /\ Ledger!Init
  <2> SUFFICES ASSUME TypeOK, Init PROVE PayoutsWritten /\ Ledger!Init
    OBVIOUS
  <2>1. PayoutsWritten
    BY DEF PayoutsWritten, Init
  <2>2. LedgerTerms \in [LedgerEntries -> [user : Users, amount : Int]]
    <3>1. \A p \in Payments : /\ payment[p].user \in Users
                              /\ payment[p].amount \in Int /\ -payment[p].amount \in Int
      BY RowAmounts DEF TypeOK, PaymentRow
    <3>2. \A r \in Payouts : payout[r].user \in Users /\ -payout[r].amount \in Int
      BY RowAmounts DEF TypeOK, PayoutRow
    <3>3. ASSUME NEW e \in LedgerEntries
          PROVE  IF e \in PayoutEntries THEN e[2] \in Payouts ELSE e[2] \in Payments
      BY DEF LedgerEntries, TopUpEntries, RefundEntries, PayoutEntries
    <3> QED
      BY <3>1, <3>2, <3>3 DEF LedgerTerms
  <2>3. LedgerPosted = {} /\ LedgerVoided = {}
    BY DEF Init, LedgerPosted, LedgerVoided, LedgerEntries, TopUpEntries, RefundEntries, PayoutEntries
  <2> QED
    BY <2>1, <2>2, <2>3 DEF Init, Ledger!Init
<1>2. TypeOK /\ TypeOK' /\ OwnerInv /\ PayoutsWritten /\ [Next]_vars
        => PayoutsWritten' /\ [Ledger!Next]_(Ledger!ledgerVars)
  <2> SUFFICES ASSUME TypeOK, TypeOK', OwnerInv, PayoutsWritten, [Next]_vars
               PROVE  PayoutsWritten' /\ (Ledger!Next \/ UNCHANGED Ledger!ledgerVars)
    OBVIOUS
  <2>1. PayoutsWritten'
    BY PayoutsWrittenStep
  <2>2. CASE \E p \in Payments : PaymentStep(p)
    BY <2>1, <2>2, PaymentPosts
  <2>3. CASE \E r \in Payouts : PayoutStep(r)
    BY <2>1, <2>3, PayoutPosts
  <2>4. CASE \E u \in Users, a \in Amounts : AdminStep(u, a)
    BY <2>1, <2>4, AdminAdjusts
  <2>5. CASE UNCHANGED vars
    BY <2>1, <2>5 DEF vars, paymentVars, payoutVars, LedgerTerms, LedgerPosted, LedgerVoided, IsTopUp,
                      Ledger!ledgerVars
  <2> QED
    BY <2>2, <2>3, <2>4, <2>5 DEF Next
<1> QED
  BY <1>1, <1>2, TypeCorrect, OwnerInvariant, PTL DEF Spec, ImplementsLedger, Ledger!Spec
===============================================================================

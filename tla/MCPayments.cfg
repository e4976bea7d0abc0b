\* One payment with two racing callback calls, two payout calls, the admin and
\* the panel, all on one wallet.
SPECIFICATION Spec
CONSTANTS
  Users = {u1}
  Payments = {p1}
  Verifiers = {v1, v2}
  Payouts = {r1, r2}
  MaxAmount = 1
  MaxAdjusted = 1
SYMMETRY Symmetry
INVARIANTS Solvent Balanced DeliveredOnce DeliveredIsPaid OwedIsInFlight
PROPERTIES ImplementsLedger StatusSettles
\* Every request is served once and the instance then has nothing left to do.
CHECK_DEADLOCK FALSE

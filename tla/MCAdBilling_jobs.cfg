\* One event at a time, over a midnight, both jobs and every edit.
SPECIFICATION FairSpec
CONSTANTS
  Users = {u1}
  Campaigns = {k1}
  Ads = {a1}
  Events = {e1}
  MaxCost = 1
  MaxBudget = 1
  MaxDeposit = 1
  MaxPayout = 1
  LastDay = 2
  AdStatusesByHand = {"PAUSED"}
INVARIANT SpendReconciles
PROPERTY ExhaustedStops

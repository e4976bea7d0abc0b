\* Two events race on one campaign, against the hourly job and every edit.
SPECIFICATION Spec
CONSTANTS
  Users = {u1}
  Campaigns = {k1}
  Ads = {a1}
  Events = {e1, e2}
  MaxCost = 1
  MaxBudget = 1
  MaxDeposit = 2
  MaxPayout = 1
  LastDay = 1
  AdStatusesByHand = {}
SYMMETRY Symmetry
INVARIANTS OverdraftBounded OverspendBounded

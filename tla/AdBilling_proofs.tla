---------------------------- MODULE AdBilling_proofs ----------------------------
(***************************************************************************)
(* Charges that race each other overdraw a wallet and overspend a budget   *)
(* by no more than one charge for each event served at the same time, and  *)
(* wallets, campaigns and days agree on what was spent.                    *)
(***************************************************************************)
EXTENDS AdBilling, FiniteSetTheorems, FunctionTheorems, TLAPS

\* A campaign's budget is never above the highest it has had.
PeakIsHighest == \A k \in Campaigns : campaign[k].budget <= peak[k]

\* OverspendBounded, strengthened by the campaigns somebody is about to charge.
SpendInv ==
  \A k \in Campaigns :
    campaign[k].spent > 0 \/ ChargingOn(k) # {} =>
      campaign[k].spent + campaign[k].cost
        <= peak[k] + campaign[k].cost * Cardinality(Events \ ChargingOn(k))

\* What no step changes.
Kept ==
  /\ \A k \in Campaigns : campaign'[k].owner = campaign[k].owner
                       /\ campaign'[k].cost = campaign[k].cost
  /\ \A a \in Ads : ad'[a].campaign = ad[a].campaign

-------------------------------------------------------------------------------

\* An event that does not stand at "idle" holds a charge.
LEMMA Charges ==
  ASSUME TypeOK, NEW e \in Events, charge[e].pc # "idle"
  PROVE  /\ charge[e] \in Charge /\ charge[e] # Idle
         /\ charge[e].ad \in Ads /\ CampaignOf(e) \in Campaigns
BY DEF TypeOK, Charge, Idle, CampaignOf, AdRow

\* Moving a charge to another place leaves the others alone.
LEMMA ChargeMoves ==
  ASSUME TypeOK, NEW e \in Events, NEW row \in Charge, charge' = [charge EXCEPT ![e] = row]
  PROVE  /\ charge' \in [Events -> {Idle} \union Charge]
         /\ charge'[e] = row
         /\ \A f \in Events \ {e} : charge'[f] = charge[f]
BY DEF TypeOK

LEMMA ChargeFinishes ==
  ASSUME TypeOK, NEW e \in Events, Finishes(e)
  PROVE  /\ charge' \in [Events -> {Idle} \union Charge]
         /\ charge'[e] = Idle /\ charge'[e].pc = "idle"
         /\ \A f \in Events \ {e} : charge'[f] = charge[f]
BY DEF TypeOK, Finishes, Idle

\* debit goes on to one of its own steps.
LEMMA FirstCheckPlace == \A k : FirstCheck(k) \in ChargePC
BY DEF FirstCheck, Unchecked, ChargePC, Reasons

LEMMA VerdictReason == \A k : Verdict(k) \in Reasons \union {"none"}
BY DEF Verdict, Reasons

-------------------------------------------------------------------------------

\* Writing fields of one campaign keeps the type of the table and the fields
\* that are not written.
LEMMA StatusUpdate ==
  ASSUME NEW k \in Campaigns, NEW s \in CampaignStatus, NEW r \in Reasons \union {"none"},
         campaign \in [Campaigns -> Campaign],
         campaign' = [campaign EXCEPT ![k].status = s, ![k].reason = r]
  PROVE  /\ campaign' \in [Campaigns -> Campaign]
         /\ \A j \in Campaigns : /\ campaign'[j].owner = campaign[j].owner
                                 /\ campaign'[j].cost = campaign[j].cost
                                 /\ campaign'[j].spent = campaign[j].spent
                                 /\ campaign'[j].budget = campaign[j].budget
BY DEF Campaign

LEMMA BudgetUpdate ==
  ASSUME NEW k \in Campaigns, NEW b \in 0..MaxBudget,
         campaign \in [Campaigns -> Campaign],
         campaign' = [campaign EXCEPT ![k].budget = b]
  PROVE  /\ campaign' \in [Campaigns -> Campaign]
         /\ campaign'[k].budget = b
         /\ \A j \in Campaigns \ {k} : campaign'[j] = campaign[j]
         /\ \A j \in Campaigns : /\ campaign'[j].owner = campaign[j].owner
                                 /\ campaign'[j].cost = campaign[j].cost
                                 /\ campaign'[j].spent = campaign[j].spent
BY DEF Campaign

LEMMA CreationUpdate ==
  ASSUME NEW k \in Campaigns, NEW s \in CampaignStatus,
         NEW b \in 0..MaxBudget, NEW d \in 0..MaxBudget,
         campaign \in [Campaigns -> Campaign],
         campaign' = [campaign EXCEPT ![k].status = s, ![k].budget = b, ![k].daily = d]
  PROVE  /\ campaign' \in [Campaigns -> Campaign]
         /\ campaign'[k].budget = b
         /\ \A j \in Campaigns \ {k} : campaign'[j] = campaign[j]
         /\ \A j \in Campaigns : /\ campaign'[j].owner = campaign[j].owner
                                 /\ campaign'[j].cost = campaign[j].cost
                                 /\ campaign'[j].spent = campaign[j].spent
<1> DEFINE row == [campaign[k] EXCEPT !.status = s, !.budget = b, !.daily = d]
<1>1. row \in Campaign /\ row.budget = b /\ row.owner = campaign[k].owner
        /\ row.cost = campaign[k].cost /\ row.spent = campaign[k].spent
  BY DEF Campaign
<1>2. campaign' = [campaign EXCEPT ![k] = row]
  OBVIOUS
<1> HIDE DEF row
<1> QED
  BY <1>1, <1>2

LEMMA DailyUpdate ==
  ASSUME NEW k \in Campaigns, NEW d \in 0..MaxBudget,
         campaign \in [Campaigns -> Campaign],
         campaign' = [campaign EXCEPT ![k].daily = d]
  PROVE  /\ campaign' \in [Campaigns -> Campaign]
         /\ \A j \in Campaigns : /\ campaign'[j].owner = campaign[j].owner
                                 /\ campaign'[j].cost = campaign[j].cost
                                 /\ campaign'[j].spent = campaign[j].spent
                                 /\ campaign'[j].budget = campaign[j].budget
BY DEF Campaign

LEMMA SpentUpdate ==
  ASSUME NEW k \in Campaigns, NEW n \in Nat,
         campaign \in [Campaigns -> Campaign],
         campaign' = [campaign EXCEPT ![k].spent = n]
  PROVE  /\ campaign' \in [Campaigns -> Campaign]
         /\ campaign'[k].spent = n
         /\ \A j \in Campaigns \ {k} : campaign'[j] = campaign[j]
         /\ \A j \in Campaigns : /\ campaign'[j].owner = campaign[j].owner
                                 /\ campaign'[j].cost = campaign[j].cost
                                 /\ campaign'[j].budget = campaign[j].budget
BY DEF Campaign

\* Writing the status of one ad keeps its campaign.
LEMMA AdUpdate ==
  ASSUME NEW a \in Ads, NEW s \in AdStatus, ad \in [Ads -> AdRow],
         ad' = [ad EXCEPT ![a].status = s]
  PROVE  /\ ad' \in [Ads -> AdRow]
         /\ \A b \in Ads : ad'[b].campaign = ad[b].campaign
BY DEF AdRow

LEMMA AdIsSet ==
  ASSUME NEW a \in Ads, NEW s \in AdStatus, ad \in [Ads -> AdRow], SetsAd(a, s)
  PROVE  /\ ad' \in [Ads -> AdRow]
         /\ \A b \in Ads : ad'[b].campaign = ad[b].campaign
<1>1. CASE ad[a].status \in NoRow
  BY <1>1 DEF AdRow, SetsAd
<1>2. CASE ad[a].status \notin NoRow
  BY <1>2 DEF AdRow, SetsAd
<1> QED
  BY <1>1, <1>2

-------------------------------------------------------------------------------

\* What a step does that neither charges nor touches a wallet.
Quiet ==
  /\ TypeOK'
  /\ Kept
  /\ UNCHANGED <<wallet, charge, dailySpend, bankVars>>
  /\ \A k \in Campaigns :
       /\ campaign'[k].spent = campaign[k].spent
       /\ peak[k] <= peak'[k]
       /\ campaign[k].budget <= peak[k] => campaign'[k].budget <= peak'[k]

\* A step that leaves campaigns, ads, charges and wallets alone.
LEMMA QuietIfUnchanged ==
  ASSUME TypeOK, UNCHANGED <<chargeVars, campaign, ad, peak, bankVars>>,
         day' \in Days, midnight' \in BOOLEAN,
         plan' \in [Campaigns -> Reasons \union {"none"}],
         activating' \in SUBSET Campaigns, rebudget' \in [Campaigns -> 0..MaxBudget],
         reviewing' \in SUBSET Ads, resubmitting' \in SUBSET Ads
  PROVE  Quiet
<1>1. \A k \in Campaigns : peak[k] \in Nat
  BY BoundsAssumption DEF TypeOK
<1> QED
  BY <1>1 DEF TypeOK, Quiet, Kept, chargeVars, bankVars

\* A step that writes campaign rows and moves neither spend nor budgets.
LEMMA QuietIfRows ==
  ASSUME TypeOK, UNCHANGED <<chargeVars, ad, peak, bankVars, day, reviewing, resubmitting, rebudget>>,
         campaign' \in [Campaigns -> Campaign],
         \A j \in Campaigns : /\ campaign'[j].owner = campaign[j].owner
                               /\ campaign'[j].cost = campaign[j].cost
                               /\ campaign'[j].spent = campaign[j].spent
                               /\ campaign'[j].budget = campaign[j].budget,
         midnight' \in BOOLEAN,
         plan' \in [Campaigns -> Reasons \union {"none"}],
         activating' \in SUBSET Campaigns
  PROVE  Quiet
<1>1. \A k \in Campaigns : peak[k] \in Nat
  BY BoundsAssumption DEF TypeOK
<1> QED
  BY <1>1 DEF TypeOK, Quiet, Kept, chargeVars, bankVars

\* A step that writes ad rows only.
LEMMA QuietIfAds ==
  ASSUME TypeOK, UNCHANGED <<chargeVars, campaign, peak, bankVars, clockVars, plan,
                             activating, rebudget>>,
         ad' \in [Ads -> AdRow],
         \A a \in Ads : ad'[a].campaign = ad[a].campaign,
         reviewing' \in SUBSET Ads, resubmitting' \in SUBSET Ads
  PROVE  Quiet
<1>1. \A k \in Campaigns : peak[k] \in Nat
  BY BoundsAssumption DEF TypeOK
<1> QED
  BY <1>1 DEF TypeOK, Quiet, Kept, chargeVars, clockVars, bankVars

\* The highest budget never falls and covers the new one.
LEMMA PeakGrows ==
  ASSUME TypeOK, NEW k \in Campaigns, NEW b \in 0..MaxBudget, Peaks(k, b)
  PROVE  /\ peak' \in [Campaigns -> 0..MaxBudget]
         /\ peak[k] <= peak'[k] /\ b <= peak'[k]
         /\ \A j \in Campaigns \ {k} : peak'[j] = peak[j] /\ peak[j] \in Nat
BY BoundsAssumption DEF TypeOK, Peaks

\* A step that sets one campaign's budget.
LEMMA QuietIfBudget ==
  ASSUME TypeOK, NEW k \in Campaigns, NEW b \in 0..MaxBudget, SetsBudget(k, b),
         UNCHANGED <<chargeVars, ad, clockVars, plan, activating, reviewing, resubmitting, bankVars>>,
         rebudget' \in [Campaigns -> 0..MaxBudget]
  PROVE  Quiet
<1>1. \A j \in Campaigns : peak[j] \in Nat
  BY BoundsAssumption DEF TypeOK
<1>2. campaign \in [Campaigns -> Campaign] /\ campaign' = [campaign EXCEPT ![k].budget = b]
  BY DEF TypeOK, SetsBudget
<1>3. /\ campaign' \in [Campaigns -> Campaign]
      /\ campaign'[k].budget = b
      /\ \A j \in Campaigns \ {k} : campaign'[j] = campaign[j]
      /\ \A j \in Campaigns : /\ campaign'[j].owner = campaign[j].owner
                              /\ campaign'[j].cost = campaign[j].cost
                              /\ campaign'[j].spent = campaign[j].spent
  BY <1>2, BudgetUpdate
<1>4. /\ peak' \in [Campaigns -> 0..MaxBudget]
      /\ peak[k] <= peak'[k] /\ b <= peak'[k]
      /\ \A j \in Campaigns \ {k} : peak'[j] = peak[j]
  BY PeakGrows DEF SetsBudget
<1>5. TypeOK'
  BY <1>3, <1>4 DEF TypeOK, chargeVars, clockVars, bankVars
<1>6. Kept
  BY <1>3 DEF Kept
<1>7. ASSUME NEW j \in Campaigns
      PROVE  /\ campaign'[j].spent = campaign[j].spent
             /\ peak[j] <= peak'[j]
             /\ campaign[j].budget <= peak[j] => campaign'[j].budget <= peak'[j]
  <2>1. CASE j = k
    BY <2>1, <1>3, <1>4
  <2>2. CASE j # k
    BY <2>2, <1>1, <1>3, <1>4
  <2> QED
    BY <2>1, <2>2
<1> QED
  BY <1>5, <1>6, <1>7 DEF Quiet, chargeVars

-------------------------------------------------------------------------------

\* Everything that is done to a campaign but charging it.
LEMMA CampaignQuiet ==
  ASSUME TypeOK, NEW k \in Campaigns, CampaignStep(k)
  PROVE  Quiet
<1> USE BoundsAssumption
<1>0. campaign \in [Campaigns -> Campaign] /\ campaign[k].owner \in Users
        /\ campaign[k].reason \in Reasons \union {"none"}
  BY DEF TypeOK, Campaign
<1>1. ASSUME NEW b \in Budgets, NEW d \in 0..MaxBudget, CreateCampaign(k, b, d) PROVE Quiet
  <2>1. "DRAFT" \in CampaignStatus /\ b \in 0..MaxBudget
    BY DEF CampaignStatus, Budgets
  <2>2. campaign' = [campaign EXCEPT ![k].status = "DRAFT", ![k].budget = b, ![k].daily = d]
    BY <1>1 DEF CreateCampaign
  <2>3. /\ campaign' \in [Campaigns -> Campaign]
        /\ campaign'[k].budget = b
        /\ \A j \in Campaigns \ {k} : campaign'[j] = campaign[j]
        /\ \A j \in Campaigns : /\ campaign'[j].owner = campaign[j].owner
                                /\ campaign'[j].cost = campaign[j].cost
                                /\ campaign'[j].spent = campaign[j].spent
    BY <2>1, <2>2, <1>0, CreationUpdate
  <2>4. /\ peak' \in [Campaigns -> 0..MaxBudget]
        /\ peak[k] <= peak'[k] /\ b <= peak'[k]
        /\ \A j \in Campaigns \ {k} : peak'[j] = peak[j] /\ peak[j] \in Nat
    BY <2>1, <1>1, PeakGrows DEF CreateCampaign, TypeOK
  <2>5. TypeOK'
    BY <2>3, <2>4, <1>1 DEF CreateCampaign, TypeOK, chargeVars, clockVars, editVars, bankVars
  <2>6. Kept
    BY <2>3, <1>1 DEF CreateCampaign, Kept
  <2>7. ASSUME NEW j \in Campaigns
        PROVE  /\ campaign'[j].spent = campaign[j].spent
               /\ peak[j] <= peak'[j]
               /\ campaign[j].budget <= peak[j] => campaign'[j].budget <= peak'[j]
    <3>1. CASE j = k
      BY <3>1, <2>3, <2>4
    <3>2. CASE j # k
      BY <3>2, <2>3, <2>4
    <3> QED
      BY <3>1, <3>2
  <2> QED
    BY <2>5, <2>6, <2>7, <1>1 DEF CreateCampaign, Quiet, chargeVars
<1>2. ASSUME NEW s \in CampaignStatus, UpdateStatus(k, s) PROVE Quiet
  <2>1. ReasonFor(k, s) \in Reasons \union {"none"}
    BY <1>0 DEF ReasonFor, Reasons
  <2>2. campaign' = [campaign EXCEPT ![k].status = s, ![k].reason = ReasonFor(k, s)]
    BY <1>2 DEF UpdateStatus
  <2> QED
    BY <2>1, <2>2, <1>0, <1>2, StatusUpdate, QuietIfRows
       DEF UpdateStatus, TypeOK, clockVars, editVars
<1>3. ASSUME NEW b \in Budgets, UpdateBudget(k, b) PROVE Quiet
  <2>1. b \in 0..MaxBudget
    BY DEF Budgets
  <2> QED
    BY <2>1, <1>3, QuietIfBudget DEF UpdateBudget, TypeOK, editVars
<1>4. ASSUME NEW b \in Budgets, AssertBudgetIncrease(k, b) PROVE Quiet
  BY <1>4, QuietIfUnchanged DEF AssertBudgetIncrease, TypeOK, Budgets, clockVars
<1>5. ASSUME NEW d \in 0..MaxBudget, UpdateDaily(k, d) PROVE Quiet
  <2>1. campaign' = [campaign EXCEPT ![k].daily = d]
    BY <1>5 DEF UpdateDaily
  <2> QED
    BY <2>1, <1>0, <1>5, DailyUpdate, QuietIfRows DEF UpdateDaily, TypeOK, clockVars, editVars
<1>6. CASE AssertWalletForActivation(k)
  BY <1>6, QuietIfUnchanged DEF AssertWalletForActivation, TypeOK, clockVars
<1>7. CASE OwnerActivate(k)
  <2>1. campaign' = [campaign EXCEPT ![k].status = "ACTIVE", ![k].reason = "none"]
    BY <1>7 DEF OwnerActivate
  <2>2. "ACTIVE" \in CampaignStatus
    BY DEF CampaignStatus
  <2> QED
    BY <2>1, <2>2, <1>0, <1>7, StatusUpdate, QuietIfRows DEF OwnerActivate, TypeOK, clockVars
<1>8. CASE OwnerBudget(k)
  <2>1. rebudget[k] \in 0..MaxBudget
    BY DEF TypeOK
  <2> QED
    BY <2>1, <1>8, QuietIfBudget DEF OwnerBudget, TypeOK
<1>9. CASE CronWrite(k)
  <2>1. campaign' = [campaign EXCEPT ![k].status = "PAUSED", ![k].reason = plan[k]]
    BY <1>9 DEF CronWrite, Paused
  <2>2. "PAUSED" \in CampaignStatus /\ plan[k] \in Reasons \union {"none"}
    BY DEF CampaignStatus, TypeOK
  <2> QED
    BY <2>1, <2>2, <1>0, <1>9, StatusUpdate, QuietIfRows
       DEF CronWrite, TypeOK, clockVars, editVars
<1> QED
  BY <1>1, <1>2, <1>3, <1>4, <1>5, <1>6, <1>7, <1>8, <1>9 DEF CampaignStep

\* Everything that is done to an ad.
LEMMA AdQuiet ==
  ASSUME TypeOK, NEW a \in Ads, AdStep(a)
  PROVE  Quiet
<1>0. ad \in [Ads -> AdRow]
        /\ {"PENDING_REVIEW", "APPROVED", "REJECTED", "deleted"} \subseteq AdStatus
  BY DEF TypeOK, AdStatus, NoRow
<1>1. CASE CreateAd(a)
  BY <1>0, <1>1, AdUpdate, QuietIfAds DEF CreateAd, TypeOK, editVars
<1>2. CASE ReviewRead(a)
  BY <1>2, QuietIfUnchanged DEF ReviewRead, TypeOK, clockVars
<1>3. CASE ReviewWrite(a)
  BY <1>0, <1>3, AdIsSet, QuietIfAds DEF ReviewWrite, TypeOK
<1>4. CASE UpdateMyAdRead(a)
  BY <1>4, QuietIfUnchanged DEF UpdateMyAdRead, TypeOK, clockVars
<1>5. CASE UpdateMyAdWrite(a)
  BY <1>0, <1>5, AdIsSet, QuietIfAds DEF UpdateMyAdWrite, TypeOK
<1>6. ASSUME NEW s \in AdStatusesByHand, UpdateAd(a, s) PROVE Quiet
  <2>1. s \in AdStatus
    BY ByHandAssumption
  <2> QED
    BY <2>1, <1>0, <1>6, AdUpdate, QuietIfAds DEF UpdateAd, TypeOK, editVars
<1>7. CASE DeleteAd(a)
  BY <1>0, <1>7, AdUpdate, QuietIfAds DEF DeleteAd, TypeOK, editVars
<1> QED
  BY <1>1, <1>2, <1>3, <1>4, <1>5, <1>6, <1>7 DEF AdStep

\* The two jobs and midnight.
LEMMA ClockQuiet ==
  ASSUME TypeOK, ClockStep
  PROVE  Quiet
<1>1. CASE CronRead
  <2>1. plan' \in [Campaigns -> Reasons \union {"none"}]
    BY <1>1, VerdictReason DEF CronRead
  <2> QED
    BY <2>1, <1>1, QuietIfUnchanged DEF CronRead, TypeOK, clockVars, editVars
<1>2. CASE CronAbort
  BY <1>2, QuietIfUnchanged DEF CronAbort, TypeOK, clockVars, editVars
<1>3. CASE NewDay
  <2>1. day' \in Days
    BY <1>3, BoundsAssumption DEF NewDay, TypeOK, Days
  <2> QED
    BY <2>1, <1>3, QuietIfUnchanged DEF NewDay, TypeOK, editVars
<1>4. CASE ResumeMidnight
  <2>1. "ACTIVE" \in CampaignStatus
    BY DEF CampaignStatus
  <2>2. ASSUME NEW j \in Campaigns
        PROVE  /\ campaign'[j] \in Campaign
               /\ campaign'[j].owner = campaign[j].owner
               /\ campaign'[j].cost = campaign[j].cost
               /\ campaign'[j].spent = campaign[j].spent
               /\ campaign'[j].budget = campaign[j].budget
    <3>1. campaign[j] \in Campaign
      BY DEF TypeOK
    <3>2. CASE campaign'[j] = campaign[j]
      BY <3>1, <3>2
    <3>3. CASE campaign'[j] = [campaign[j] EXCEPT !.status = "ACTIVE", !.reason = "none"]
      BY <3>1, <3>3, <2>1 DEF Campaign
    <3> QED
      BY <3>2, <3>3, <1>4 DEF ResumeMidnight
  <2>3. campaign' \in [Campaigns -> Campaign]
    BY <2>2, <1>4 DEF ResumeMidnight
  <2> QED
    BY <2>2, <2>3, <1>4, QuietIfRows DEF ResumeMidnight, TypeOK, editVars
<1> QED
  BY <1>1, <1>2, <1>3, <1>4 DEF ClockStep

-------------------------------------------------------------------------------

\* What is in a wallet, with what unsettled payouts took out of it.
Worth(u) == wallet[u] + Unsettled(u)

\* How a step treats it: it takes nothing from it and starts no charge, or leaves
\* it solvent, or one of the charges in flight pays.
Eases(u)  == Worth(u)' >= Worth(u) /\ ChargingTo(u)' \subseteq ChargingTo(u)
Covers(u) == Worth(u)' >= 0
Pays(u)   == /\ Worth(u)' >= Worth(u) - MaxCost
             /\ \E e \in ChargingTo(u) : ChargingTo(u)' \subseteq ChargingTo(u) \ {e}

\* The same for what a campaign has spent.
EasesSpend(k)  == /\ campaign'[k].spent = campaign[k].spent
                  /\ peak[k] <= peak'[k]
                  /\ ChargingOn(k)' \subseteq ChargingOn(k)
CoversSpend(k) == campaign'[k].spent + campaign'[k].cost <= peak'[k]
PaysSpend(k)   == /\ campaign'[k].spent = campaign[k].spent + campaign[k].cost
                  /\ peak[k] <= peak'[k]
                  /\ \E e \in ChargingOn(k) : ChargingOn(k)' \subseteq ChargingOn(k) \ {e}

Bounds ==
  /\ TypeOK' /\ Kept /\ PeakIsHighest'
  /\ \A u \in Users : Eases(u) \/ Covers(u) \/ Pays(u)
  /\ \A k \in Campaigns : EasesSpend(k) \/ CoversSpend(k) \/ PaysSpend(k)

LEMMA WorthType ==
  ASSUME TypeOK, NEW u \in Users
  PROVE  /\ wallet[u] \in Int /\ Unsettled(u) \in Nat /\ Worth(u) \in Int
         /\ wallet[u] >= 0 => Worth(u) >= 0
<1>1. wallet[u] \in Int /\ taken[u] \in Nat /\ short[u] \in Nat
  BY DEF TypeOK
<1>2. Unsettled(u) \in Nat
  BY <1>1 DEF Unsettled
<1> QED
  BY <1>1, <1>2 DEF Worth

\* Charges move what is in the wallet, and payouts are another matter.
LEMMA WorthMoves ==
  ASSUME TypeOK, TypeOK', UNCHANGED bankVars, NEW u \in Users
  PROVE  /\ Unsettled(u)' = Unsettled(u)
         /\ wallet'[u] = wallet[u] => Worth(u)' = Worth(u)
         /\ \A m \in Nat : wallet'[u] >= wallet[u] - m => Worth(u)' >= Worth(u) - m
<1>1. Unsettled(u)' = Unsettled(u)
  BY DEF bankVars, Unsettled
<1>2. wallet[u] \in Int /\ wallet'[u] \in Int /\ Unsettled(u) \in Nat
  BY WorthType DEF TypeOK
<1> QED
  BY <1>1, <1>2 DEF Worth

\* A charge in flight stays with its campaign and wallet.
LEMMA InFlightStays ==
  ASSUME TypeOK, Kept, NEW f \in Events, InFlight(f), charge'[f].ad = charge[f].ad
  PROVE  /\ CampaignOf(f)' = CampaignOf(f)
         /\ campaign'[CampaignOf(f)].owner = campaign[CampaignOf(f)].owner
<1>1. charge[f].ad \in Ads /\ CampaignOf(f) \in Campaigns
  BY Charges DEF InFlight
<1> QED
  BY <1>1 DEF Kept, CampaignOf

\* An event that leaves the flight, or was never in it, adds nobody.
LEMMA FewerCharging ==
  ASSUME TypeOK, Kept, NEW e \in Events,
         \A f \in Events \ {e} : charge'[f] = charge[f],
         charge'[e].pc \in {"daily", "commit"} => InFlight(e) /\ charge'[e].ad = charge[e].ad
  PROVE  /\ \A u \in Users : ChargingTo(u)' \subseteq ChargingTo(u)
         /\ \A k \in Campaigns : ChargingOn(k)' \subseteq ChargingOn(k)
<1>1. ASSUME NEW f \in Events, InFlight(f)'
      PROVE  /\ InFlight(f)
             /\ CampaignOf(f)' = CampaignOf(f)
             /\ campaign'[CampaignOf(f)].owner = campaign[CampaignOf(f)].owner
  <2>1. InFlight(f) /\ charge'[f].ad = charge[f].ad
    BY <1>1 DEF InFlight
  <2> QED
    BY <2>1, InFlightStays
<1> QED
  BY <1>1 DEF ChargingTo, ChargingOn

LEMMA SameCharging ==
  ASSUME TypeOK, Kept, charge' = charge
  PROVE  /\ \A u \in Users : ChargingTo(u)' \subseteq ChargingTo(u)
         /\ \A k \in Campaigns : ChargingOn(k)' \subseteq ChargingOn(k)
<1>1. ASSUME NEW f \in Events, InFlight(f)'
      PROVE  /\ InFlight(f)
             /\ CampaignOf(f)' = CampaignOf(f)
             /\ campaign'[CampaignOf(f)].owner = campaign[CampaignOf(f)].owner
  <2>1. InFlight(f) /\ charge'[f].ad = charge[f].ad
    BY <1>1 DEF InFlight
  <2> QED
    BY <2>1, InFlightStays
<1> QED
  BY <1>1 DEF ChargingTo, ChargingOn

\* Only the charge that is at work can join the flight, and only on its way
\* through the first checks.
LEMMA OnlyJoiner ==
  ASSUME TypeOK, Kept, NEW e \in Events, charge[e].pc # "idle",
         \A f \in Events \ {e} : charge'[f] = charge[f], charge'[e].ad = charge[e].ad
  PROVE  /\ \A u \in Users : u # campaign[CampaignOf(e)].owner =>
                              ChargingTo(u)' \subseteq ChargingTo(u)
         /\ \A k \in Campaigns : k # CampaignOf(e) => ChargingOn(k)' \subseteq ChargingOn(k)
<1>1. ASSUME NEW f \in Events \ {e}, InFlight(f)'
      PROVE  /\ InFlight(f)
             /\ CampaignOf(f)' = CampaignOf(f)
             /\ campaign'[CampaignOf(f)].owner = campaign[CampaignOf(f)].owner
  <2>1. InFlight(f) /\ charge'[f].ad = charge[f].ad
    BY <1>1 DEF InFlight
  <2> QED
    BY <2>1, InFlightStays
<1>2. /\ CampaignOf(e)' = CampaignOf(e)
      /\ campaign'[CampaignOf(e)].owner = campaign[CampaignOf(e)].owner
  BY Charges DEF Kept, CampaignOf
<1> QED
  BY <1>1, <1>2 DEF ChargingTo, ChargingOn

\* A quiet step is within the bounds.
LEMMA QuietBounds ==
  ASSUME TypeOK, PeakIsHighest, Quiet
  PROVE  Bounds
<1>1. /\ \A u \in Users : ChargingTo(u)' \subseteq ChargingTo(u)
      /\ \A k \in Campaigns : ChargingOn(k)' \subseteq ChargingOn(k)
  BY SameCharging DEF Quiet
<1>2. \A u \in Users : Worth(u) \in Int /\ Worth(u)' = Worth(u)
  BY WorthType, WorthMoves DEF Quiet
<1>3. PeakIsHighest'
  BY DEF PeakIsHighest, Quiet
<1> QED
  BY <1>1, <1>2, <1>3 DEF Quiet, Bounds, Eases, EasesSpend

\* A step of one charge that pays nothing and does not join the flight.
LEMMA ChargeBounds ==
  ASSUME TypeOK, PeakIsHighest, TypeOK', Kept, UNCHANGED <<wallet, peak, bankVars>>,
         \A k \in Campaigns : /\ campaign'[k].spent = campaign[k].spent
                              /\ campaign'[k].budget = campaign[k].budget,
         NEW e \in Events, \A f \in Events \ {e} : charge'[f] = charge[f],
         charge'[e].pc \in {"daily", "commit"} => InFlight(e) /\ charge'[e].ad = charge[e].ad
  PROVE  Bounds
<1>1. /\ \A u \in Users : ChargingTo(u)' \subseteq ChargingTo(u)
      /\ \A k \in Campaigns : ChargingOn(k)' \subseteq ChargingOn(k)
  BY FewerCharging
<1>2. \A u \in Users : Worth(u) \in Int /\ Worth(u)' = Worth(u)
  BY WorthType, WorthMoves
<1>3. \A k \in Campaigns : peak[k] \in Nat
  BY BoundsAssumption DEF TypeOK
<1>4. PeakIsHighest'
  BY DEF PeakIsHighest
<1> QED
  BY <1>1, <1>2, <1>3, <1>4 DEF Bounds, Eases, EasesSpend

-------------------------------------------------------------------------------

\* A step that only moves a charge keeps everything else.
LEMMA MoveKeeps ==
  ASSUME TypeOK, charge' \in [Events -> {Idle} \union Charge],
         UNCHANGED <<wallet, dailySpend, campaign, ad, clockVars, plan, editVars, bankVars, peak>>
  PROVE  TypeOK' /\ Kept
BY DEF TypeOK, Kept, clockVars, editVars, bankVars

LEMMA RecordBounds ==
  ASSUME TypeOK, PeakIsHighest, NEW e \in Events, NEW a \in Ads, Record(e, a)
  PROVE  Bounds
<1> DEFINE new == [pc |-> "seen", ad |-> a, day |-> 0, cap |-> 0]
<1>1. new \in Charge /\ new.pc = "seen"
  BY BoundsAssumption DEF Charge, ChargePC
<1>2. charge' = [charge EXCEPT ![e] = new]
  BY DEF Record
<1>3. charge' \in [Events -> {Idle} \union Charge] /\ charge'[e].pc = "seen"
        /\ \A f \in Events \ {e} : charge'[f] = charge[f]
  <2> HIDE DEF new
  <2> QED
    BY <1>1, <1>2, ChargeMoves
<1>4. TypeOK' /\ Kept
  BY <1>3, MoveKeeps DEF Record
<1> QED
  BY <1>3, <1>4, ChargeBounds DEF Record

LEMMA BeginBounds ==
  ASSUME TypeOK, PeakIsHighest, NEW e \in Events, Begin(e)
  PROVE  Bounds
<1>1. charge[e].pc = "seen"
  BY DEF Begin, At
<1>2. charge[e] \in Charge
  BY <1>1, Charges
<1>3. CASE Finishes(e)
  <2>1. TypeOK' /\ Kept
    BY <1>3, ChargeFinishes, MoveKeeps DEF Begin
  <2> QED
    BY <1>3, <2>1, ChargeFinishes, ChargeBounds DEF Begin
<1>4. CASE charge' = [charge EXCEPT ![e].pc = "begun", ![e].day = day]
  <2> DEFINE row == [charge[e] EXCEPT !.pc = "begun", !.day = day]
  <2>1. "begun" \in ChargePC /\ day \in 0..LastDay
    BY BoundsAssumption DEF ChargePC, TypeOK, Days
  <2>2. row \in Charge /\ row.pc = "begun"
    BY <1>2, <2>1 DEF Charge
  <2>3. charge' = [charge EXCEPT ![e] = row]
    BY <1>4
  <2>4. /\ charge' \in [Events -> {Idle} \union Charge]
        /\ charge'[e].pc = "begun"
        /\ \A f \in Events \ {e} : charge'[f] = charge[f]
    <3> HIDE DEF row
    <3> QED
      BY <2>2, <2>3, ChargeMoves
  <2>5. TypeOK' /\ Kept
    BY <2>4, MoveKeeps DEF Begin
  <2> QED
    BY <2>4, <2>5, ChargeBounds DEF Begin
<1> QED
  BY <1>3, <1>4 DEF Begin

\* The first checks let a charge fly only if wallet and budget hold it now.
LEMMA ReadCampaignBounds ==
  ASSUME TypeOK, PeakIsHighest, NEW e \in Events, ReadCampaign(e)
  PROVE  Bounds
<1> DEFINE k == CampaignOf(e)
           u == campaign[k].owner
           pc == FirstCheck(k)
<1>1. charge[e].pc = "begun"
  BY DEF ReadCampaign, At
<1>2. charge[e] \in Charge /\ k \in Campaigns
  BY <1>1, Charges
<1>3. campaign[k] \in Campaign
  BY <1>2 DEF TypeOK
<1>4. /\ u \in Users /\ wallet[u] \in Int
      /\ campaign[k].cost \in Nat /\ campaign[k].spent \in Nat
      /\ campaign[k].budget \in Nat /\ campaign[k].daily \in 0..MaxBudget
      /\ peak[k] \in Nat
  BY <1>2, <1>3, BoundsAssumption DEF TypeOK, Campaign
<1> DEFINE row == [charge[e] EXCEPT !.pc = pc, !.cap = campaign[k].daily]
<1>5. row \in Charge /\ row.pc = pc /\ row.ad = charge[e].ad
  <2>1. pc \in ChargePC
    BY FirstCheckPlace
  <2> HIDE DEF pc, k
  <2> QED
    BY <1>2, <1>4, <2>1 DEF Charge
<1>6. charge' = [charge EXCEPT ![e] = row]
  BY DEF ReadCampaign
<1>7. /\ charge' \in [Events -> {Idle} \union Charge]
      /\ charge'[e].pc = pc /\ charge'[e].ad = charge[e].ad
      /\ \A f \in Events \ {e} : charge'[f] = charge[f]
  <2> HIDE DEF row, pc
  <2> QED
    BY <1>5, <1>6, ChargeMoves
<1>8. TypeOK' /\ Kept
  BY <1>7, MoveKeeps DEF ReadCampaign
<1>9. UNCHANGED <<wallet, peak, campaign, bankVars>>
  BY DEF ReadCampaign
<1>10. CASE pc \in {"daily", "commit"}
  <2>1. wallet[u] >= campaign[k].cost /\ campaign[k].spent + campaign[k].cost <= campaign[k].budget
    BY <1>4, <1>10 DEF FirstCheck, OverBudget, Poor
  <2>2. /\ \A w \in Users : w = u => Covers(w)
        /\ CoversSpend(k)
    <3>1. campaign[k].budget <= peak[k]
      BY <1>2 DEF PeakIsHighest
    <3> HIDE DEF u, k
    <3>2. wallet[u] >= 0
      BY <1>4, <2>1
    <3>3. Worth(u) >= 0
      BY <1>4, <3>2, WorthType
    <3>4. \A w \in Users : Worth(w)' = Worth(w)
      BY <1>8, <1>9, WorthMoves
    <3>5. \A w \in Users : w = u => Covers(w)
      BY <3>3, <3>4 DEF Covers
    <3>6. CoversSpend(k)
      BY <1>4, <1>9, <2>1, <3>1 DEF CoversSpend
    <3> QED
      BY <3>5, <3>6
  <2>3. /\ \A w \in Users : w # u => ChargingTo(w)' \subseteq ChargingTo(w)
        /\ \A j \in Campaigns : j # k => ChargingOn(j)' \subseteq ChargingOn(j)
    BY <1>1, <1>7, <1>8, OnlyJoiner
  <2>4. \A w \in Users : Eases(w) \/ Covers(w)
    <3>1. \A w \in Users : Worth(w) \in Int /\ Worth(w)' = Worth(w)
      BY <1>8, <1>9, WorthType, WorthMoves
    <3> QED
      BY <2>2, <2>3, <3>1 DEF Eases
  <2>5. \A j \in Campaigns : EasesSpend(j) \/ CoversSpend(j)
    <3>1. \A j \in Campaigns : peak[j] \in Nat
      BY BoundsAssumption DEF TypeOK
    <3> QED
      BY <1>9, <2>2, <2>3, <3>1 DEF EasesSpend
  <2>6. PeakIsHighest'
    BY <1>9 DEF PeakIsHighest
  <2> QED
    BY <1>8, <2>4, <2>5, <2>6 DEF Bounds
<1>11. CASE pc \notin {"daily", "commit"}
  BY <1>7, <1>8, <1>9, <1>11, ChargeBounds
<1> QED
  BY <1>10, <1>11

LEMMA ReadDailyBounds ==
  ASSUME TypeOK, PeakIsHighest, NEW e \in Events, ReadDaily(e)
  PROVE  Bounds
<1>1. charge[e].pc = "daily"
  BY DEF ReadDaily, At
<1>2. charge[e] \in Charge
  BY <1>1, Charges
<1>3. PICK pc \in {"DAILY_BUDGET", "commit"} : MovesTo(e, pc)
  BY DEF ReadDaily
<1> DEFINE row == [charge[e] EXCEPT !.pc = pc]
<1>4. row \in Charge /\ row.pc = pc /\ row.ad = charge[e].ad
  <2>1. pc \in ChargePC
    BY DEF ChargePC, Reasons
  <2> QED
    BY <1>2, <2>1 DEF Charge
<1>5. charge' = [charge EXCEPT ![e] = row]
  BY <1>3 DEF MovesTo
<1>6. /\ charge' \in [Events -> {Idle} \union Charge]
      /\ charge'[e].pc = pc /\ charge'[e].ad = charge[e].ad
      /\ \A f \in Events \ {e} : charge'[f] = charge[f]
  <2> HIDE DEF row
  <2> QED
    BY <1>4, <1>5, ChargeMoves
<1>7. TypeOK' /\ Kept
  BY <1>6, MoveKeeps DEF ReadDaily
<1>8. InFlight(e)
  BY <1>1 DEF InFlight
<1> QED
  BY <1>6, <1>7, <1>8, ChargeBounds DEF ReadDaily

\* A charge leaves the flight when it pays.
LEMMA CommitBounds ==
  ASSUME TypeOK, PeakIsHighest, NEW e \in Events, Commit(e)
  PROVE  Bounds
<1> DEFINE k == CampaignOf(e)
           u == campaign[k].owner
           c == campaign[k].cost
<1>1. charge[e].pc = "commit"
  BY DEF Commit, At
<1>2. charge[e] \in Charge /\ k \in Campaigns
  BY <1>1, Charges
<1>3. campaign[k] \in Campaign
  BY <1>2 DEF TypeOK
<1>4. u \in Users /\ c \in Nat /\ c <= MaxCost /\ campaign[k].spent \in Nat
  BY <1>3, BoundsAssumption DEF Campaign
<1>5. campaign \in [Campaigns -> Campaign] /\ campaign' = [campaign EXCEPT ![k].spent = @ + c]
  BY DEF Commit, TypeOK
<1>6. /\ campaign' \in [Campaigns -> Campaign]
      /\ campaign'[k].spent = campaign[k].spent + c
      /\ \A j \in Campaigns \ {k} : campaign'[j] = campaign[j]
      /\ \A j \in Campaigns : /\ campaign'[j].owner = campaign[j].owner
                              /\ campaign'[j].cost = campaign[j].cost
                              /\ campaign'[j].budget = campaign[j].budget
  <2> DEFINE n == campaign[k].spent + c
  <2>1. n \in Nat /\ campaign' = [campaign EXCEPT ![k].spent = n]
    BY <1>4, <1>5
  <2> HIDE DEF n, k
  <2>2. /\ campaign' \in [Campaigns -> Campaign]
        /\ campaign'[k].spent = n
        /\ \A j \in Campaigns \ {k} : campaign'[j] = campaign[j]
        /\ \A j \in Campaigns : /\ campaign'[j].owner = campaign[j].owner
                                /\ campaign'[j].cost = campaign[j].cost
                                /\ campaign'[j].budget = campaign[j].budget
    BY <1>2, <1>5, <2>1, SpentUpdate
  <2> QED
    BY <2>2 DEF n
<1> HIDE DEF k
<1>7. /\ wallet' \in [Users -> Int]
      /\ wallet'[u] >= wallet[u] - MaxCost
      /\ \A w \in Users : w # u => wallet'[w] = wallet[w] /\ wallet[w] \in Int
  <2>1. wallet' = [wallet EXCEPT ![u] = @ - c]
    BY DEF Commit, k
  <2> HIDE DEF u, c
  <2> QED
    BY <1>4, <2>1, BoundsAssumption DEF TypeOK
<1>8. dailySpend' \in [Campaigns -> [Days -> Nat]]
  <2> DEFINE days == [dailySpend[k] EXCEPT ![charge[e].day] = @ + c]
  <2>1. dailySpend' = [dailySpend EXCEPT ![k] = days]
    BY DEF Commit, k
  <2>2. dailySpend[k] \in [Days -> Nat] /\ dailySpend \in [Campaigns -> [Days -> Nat]]
    BY <1>2 DEF TypeOK
  <2>3. days \in [Days -> Nat]
    <3>1. \A d \in Days : dailySpend[k][d] \in Nat /\ dailySpend[k][d] + c \in Nat
      BY <1>4, <2>2
    <3>2. DOMAIN days = Days /\ \A d \in Days : days[d] \in {dailySpend[k][d], dailySpend[k][d] + c}
      <4> HIDE DEF c
      <4> QED
        BY <2>2
    <3> HIDE DEF c
    <3> QED
      BY <2>2, <3>1, <3>2
  <2> HIDE DEF days
  <2> QED
    BY <1>2, <2>1, <2>2, <2>3
<1>9. /\ charge' \in [Events -> {Idle} \union Charge]
      /\ charge'[e].pc = "idle"
      /\ \A f \in Events \ {e} : charge'[f] = charge[f]
  BY ChargeFinishes DEF Commit
<1>10. TypeOK'
  BY <1>6, <1>7, <1>8, <1>9 DEF Commit, TypeOK, clockVars, editVars, bankVars
<1>11. Kept
  BY <1>6 DEF Kept, Commit
<1>12. /\ \A w \in Users : ChargingTo(w)' \subseteq ChargingTo(w) \ {e}
       /\ \A j \in Campaigns : ChargingOn(j)' \subseteq ChargingOn(j) \ {e}
  <2>1. /\ \A w \in Users : ChargingTo(w)' \subseteq ChargingTo(w)
        /\ \A j \in Campaigns : ChargingOn(j)' \subseteq ChargingOn(j)
    BY <1>9, <1>11, FewerCharging
  <2>2. ~InFlight(e)'
    BY <1>9 DEF InFlight
  <2> QED
    BY <2>1, <2>2 DEF ChargingTo, ChargingOn
<1>13. e \in ChargingTo(u) /\ e \in ChargingOn(k)
  BY <1>1 DEF ChargingTo, ChargingOn, InFlight, k
<1>14. ASSUME NEW w \in Users PROVE Eases(w) \/ Pays(w)
  <2>0. UNCHANGED bankVars /\ MaxCost \in Nat
    BY BoundsAssumption DEF Commit
  <2>1. CASE w = u
    <3>1. Worth(w)' >= Worth(w) - MaxCost
      BY <1>7, <1>10, <2>0, <2>1, WorthMoves
    <3> QED
      BY <1>12, <1>13, <2>1, <3>1 DEF Pays
  <2>2. CASE w # u
    <3>1. Worth(w)' = Worth(w) /\ Worth(w) \in Int
      BY <1>7, <1>10, <2>0, <2>2, WorthMoves, WorthType
    <3> QED
      BY <1>12, <3>1 DEF Eases
  <2> QED
    BY <2>1, <2>2
<1>15. ASSUME NEW j \in Campaigns PROVE EasesSpend(j) \/ PaysSpend(j)
  <2>1. peak'[j] = peak[j] /\ peak[j] \in Nat
    BY BoundsAssumption DEF Commit, TypeOK
  <2>2. CASE j = k
    BY <1>6, <1>12, <1>13, <2>1, <2>2 DEF PaysSpend
  <2>3. CASE j # k
    BY <1>6, <1>12, <2>1, <2>3 DEF EasesSpend
  <2> QED
    BY <2>2, <2>3
<1>16. PeakIsHighest'
  BY <1>6 DEF PeakIsHighest, Commit
<1> QED
  BY <1>10, <1>11, <1>14, <1>15, <1>16 DEF Bounds

LEMMA PauseCampaignKeeps ==
  ASSUME TypeOK, NEW e \in Events, PauseCampaign(e)
  PROVE  /\ TypeOK' /\ Kept
         /\ \A j \in Campaigns : /\ campaign'[j].spent = campaign[j].spent
                                 /\ campaign'[j].budget = campaign[j].budget
         /\ charge'[e].pc = "idle"
         /\ \A f \in Events \ {e} : charge'[f] = charge[f]
<1> DEFINE k == CampaignOf(e)
           why == charge[e].pc
<1>1. why \in Reasons /\ why # "idle"
  BY DEF PauseCampaign, Reasons
<1>2. k \in Campaigns
  BY <1>1, Charges
<1>3. /\ campaign' \in [Campaigns -> Campaign]
      /\ \A j \in Campaigns : /\ campaign'[j].owner = campaign[j].owner
                              /\ campaign'[j].cost = campaign[j].cost
                              /\ campaign'[j].spent = campaign[j].spent
                              /\ campaign'[j].budget = campaign[j].budget
  <2>1. campaign' = [campaign EXCEPT ![k].status = "PAUSED", ![k].reason = why]
    BY DEF PauseCampaign, Paused
  <2>2. "PAUSED" \in CampaignStatus /\ campaign \in [Campaigns -> Campaign]
    BY DEF CampaignStatus, TypeOK
  <2> HIDE DEF k, why
  <2> QED
    BY <1>1, <1>2, <2>1, <2>2, StatusUpdate
<1>4. ad' \in [Ads -> AdRow] /\ \A a \in Ads : ad'[a].campaign = ad[a].campaign
  <2>1. "PAUSED" \in AdStatus
    BY DEF AdStatus
  <2>2. ASSUME NEW a \in Ads
        PROVE  ad'[a] \in AdRow /\ ad'[a].campaign = ad[a].campaign
    <3>1. ad'[a] = ad[a] \/ ad'[a] = [ad[a] EXCEPT !.status = "PAUSED"]
      BY DEF PauseCampaign
    <3>2. ad[a] \in AdRow
      BY DEF TypeOK
    <3> QED
      BY <2>1, <3>1, <3>2 DEF AdRow
  <2>3. ad' = [a \in Ads |-> ad'[a]]
    BY DEF PauseCampaign
  <2> QED
    BY <2>2, <2>3
<1>5. /\ charge' \in [Events -> {Idle} \union Charge]
      /\ charge'[e].pc = "idle"
      /\ \A f \in Events \ {e} : charge'[f] = charge[f]
  BY ChargeFinishes DEF PauseCampaign
<1>6. TypeOK'
  BY <1>3, <1>4, <1>5 DEF PauseCampaign, TypeOK, clockVars, editVars, bankVars
<1>7. Kept
  BY <1>3, <1>4 DEF Kept
<1> QED
  BY <1>3, <1>5, <1>6, <1>7

LEMMA PauseCampaignBounds ==
  ASSUME TypeOK, PeakIsHighest, NEW e \in Events, PauseCampaign(e)
  PROVE  Bounds
BY PauseCampaignKeeps, ChargeBounds DEF PauseCampaign

LEMMA ChargeAbortBounds ==
  ASSUME TypeOK, PeakIsHighest, NEW e \in Events, ChargeAbort(e)
  PROVE  Bounds
<1>1. /\ charge' \in [Events -> {Idle} \union Charge]
      /\ charge'[e].pc = "idle"
      /\ \A f \in Events \ {e} : charge'[f] = charge[f]
  BY ChargeFinishes DEF ChargeAbort
<1>2. TypeOK' /\ Kept
  BY <1>1, MoveKeeps DEF ChargeAbort
<1> QED
  BY <1>1, <1>2, ChargeBounds DEF ChargeAbort

\* Payments takes what is there, or owes a look at the balance for it.
LEMMA PaymentsTypes ==
  ASSUME TypeOK, NEW u \in Users, PaymentsStep(u)
  PROVE  /\ TypeOK'
         /\ UNCHANGED <<dailySpend, charge, campaign, ad, peak>>
         /\ \A w \in Users : wallet'[w] - deposited'[w] = wallet[w] - deposited[w]
         /\ \A w \in Users \ {u} : Worth(w)' = Worth(w)
         /\ Worth(u)' >= Worth(u) \/ Worth(u)' >= 0
<1>0. /\ wallet \in [Users -> Int] /\ deposited \in [Users -> Int]
      /\ taken \in [Users -> Nat] /\ short \in [Users -> Nat]
  BY DEF TypeOK
<1>1. UNCHANGED <<dailySpend, charge, campaign, ad, clockVars, plan, editVars, peak>>
  BY DEF PaymentsStep, WalletCredit, WalletDebit, PayoutTake, PayoutCheck, PayoutUndo, Moves, chargeVars
<1>2. PICK n \in {1, 0, -1}, m \in {1, 0, -1}, k \in {1, 0, -1} :
        /\ wallet' = [wallet EXCEPT ![u] = @ + n]
        /\ deposited' = [deposited EXCEPT ![u] = @ + n]
        /\ taken' = [taken EXCEPT ![u] = @ + m] /\ (m = -1 => taken[u] > 0)
        /\ short' = [short EXCEPT ![u] = @ + k] /\ (k = -1 => short[u] > 0)
        /\ n + m + k >= 0 \/ wallet[u] + n >= 0
  <2>0. /\ taken = [taken EXCEPT ![u] = @ + 0] /\ short = [short EXCEPT ![u] = @ + 0]
        /\ wallet = [wallet EXCEPT ![u] = @ + 0] /\ deposited = [deposited EXCEPT ![u] = @ + 0]
    BY <1>0
  <2>00. \A i \in Int : i - 1 = i + (-1)
    OBVIOUS
  <2>1. CASE WalletCredit(u)
    <3> WITNESS 1 \in {1, 0, -1}, 0 \in {1, 0, -1}, 0 \in {1, 0, -1}
    <3> QED
      BY <2>0, <2>1 DEF WalletCredit, Moves
  <2>2. CASE WalletDebit(u)
    <3> WITNESS -1 \in {1, 0, -1}, 0 \in {1, 0, -1}, 0 \in {1, 0, -1}
    <3>1. wallet[u] + (-1) >= 0
      BY <1>0, <2>2 DEF WalletDebit
    <3> QED
      BY <2>0, <2>2, <3>1 DEF WalletDebit, Moves
  <2>3. CASE PayoutTake(u)
    <3> WITNESS -1 \in {1, 0, -1}, 1 \in {1, 0, -1}, 0 \in {1, 0, -1}
    <3> QED
      BY <2>0, <2>3 DEF PayoutTake, Moves
  <2>4. CASE PayoutCheck(u)
    <3>1. taken[u] > 0 /\ taken' = [taken EXCEPT ![u] = @ + (-1)]
      BY <1>0, <2>4, <2>00 DEF PayoutCheck
    <3>2. wallet' = wallet /\ deposited' = deposited
      BY <2>4 DEF PayoutCheck, chargeVars
    <3>3. CASE wallet[u] < 0
      <4>1. short' = [short EXCEPT ![u] = @ + 1]
        BY <2>4, <3>3 DEF PayoutCheck
      <4> WITNESS 0 \in {1, 0, -1}, -1 \in {1, 0, -1}, 1 \in {1, 0, -1}
      <4> QED
        BY <2>0, <3>1, <3>2, <4>1
    <3>4. CASE ~(wallet[u] < 0)
      <4>0. short' = [short EXCEPT ![u] = @]
        BY <2>4, <3>4 DEF PayoutCheck
      <4>00. short[u] + 0 = short[u] /\ wallet[u] + 0 >= 0
        BY <1>0, <3>4
      <4>1. short' = [short EXCEPT ![u] = @ + 0] /\ wallet[u] + 0 >= 0
        BY <4>0, <4>00
      <4>2. wallet' = [wallet EXCEPT ![u] = @ + 0] /\ deposited' = [deposited EXCEPT ![u] = @ + 0]
        BY <2>0, <3>2
      <4>3. -1 = -1 => taken[u] > 0
        BY <3>1
      <4>4. 0 = -1 => short[u] > 0
        OBVIOUS
      <4> WITNESS 0 \in {1, 0, -1}, -1 \in {1, 0, -1}, 0 \in {1, 0, -1}
      <4> QED
        BY <3>1, <4>1, <4>2, <4>3, <4>4
    <3> QED
      BY <3>3, <3>4
  <2>5. CASE PayoutUndo(u)
    <3>1. short[u] > 0 /\ short' = [short EXCEPT ![u] = @ + (-1)]
      BY <1>0, <2>5, <2>00 DEF PayoutUndo
    <3>2. /\ wallet' = [wallet EXCEPT ![u] = @ + 1] /\ deposited' = [deposited EXCEPT ![u] = @ + 1]
          /\ taken' = [taken EXCEPT ![u] = @ + 0]
      BY <2>0, <2>5 DEF PayoutUndo, Moves
    <3>3. 0 = -1 => taken[u] > 0
      OBVIOUS
    <3>4. 1 + 0 + (-1) >= 0
      OBVIOUS
    <3> WITNESS 1 \in {1, 0, -1}, 0 \in {1, 0, -1}, -1 \in {1, 0, -1}
    <3> QED
      BY <3>1, <3>2, <3>3, <3>4
  <2> QED
    BY <2>1, <2>2, <2>3, <2>4, <2>5 DEF PaymentsStep
<1>3. /\ wallet[u] \in Int /\ deposited[u] \in Int /\ taken[u] \in Nat /\ short[u] \in Nat
      /\ wallet[u] + n \in Int /\ deposited[u] + n \in Int
      /\ taken[u] + m \in Nat /\ short[u] + k \in Nat
  BY <1>0, <1>2
<1>4. TypeOK'
  <2>1. wallet' \in [Users -> Int] /\ deposited' \in [Users -> Int]
    BY <1>0, <1>2, <1>3
  <2>2. taken' \in [Users -> Nat] /\ short' \in [Users -> Nat]
    BY <1>0, <1>2, <1>3
  <2> QED
    BY <1>1, <2>1, <2>2 DEF TypeOK, clockVars, editVars
<1>5. \A w \in Users \ {u} : wallet'[w] = wallet[w] /\ Unsettled(w)' = Unsettled(w)
  BY <1>0, <1>2 DEF Unsettled
<1>6. Worth(u)' = (wallet[u] + n) + ((taken[u] + m) + (short[u] + k))
  BY <1>0, <1>2 DEF Worth, Unsettled
<1>7. Worth(u)' >= Worth(u) \/ Worth(u)' >= 0
  <2>1. Worth(u) = wallet[u] + (taken[u] + short[u])
    BY DEF Worth, Unsettled
  <2>2. CASE n + m + k >= 0
    BY <1>3, <1>6, <2>1, <2>2
  <2>3. CASE wallet[u] + n >= 0
    BY <1>3, <1>6, <2>3
  <2> QED
    BY <1>2, <2>2, <2>3
<1>8. ASSUME NEW w \in Users PROVE wallet'[w] - deposited'[w] = wallet[w] - deposited[w]
  <2>1. CASE w = u
    BY <1>0, <1>2, <1>3, <2>1
  <2>2. CASE w # u
    BY <1>0, <1>2, <2>2
  <2> QED
    BY <2>1, <2>2
<1> QED
  BY <1>1, <1>4, <1>5, <1>7, <1>8 DEF Worth

LEMMA PaymentsBounds ==
  ASSUME TypeOK, PeakIsHighest, NEW u \in Users, PaymentsStep(u)
  PROVE  Bounds
<1>1. /\ TypeOK' /\ UNCHANGED <<charge, campaign, ad, peak>>
      /\ \A w \in Users \ {u} : Worth(w)' = Worth(w)
      /\ Worth(u)' >= Worth(u) \/ Worth(u)' >= 0
  BY PaymentsTypes
<1>2. Kept
  BY <1>1 DEF Kept
<1>3. /\ \A w \in Users : ChargingTo(w)' \subseteq ChargingTo(w)
      /\ \A k \in Campaigns : ChargingOn(k)' \subseteq ChargingOn(k)
  BY <1>1, <1>2, SameCharging
<1>4. \A w \in Users : Eases(w) \/ Covers(w)
  BY <1>1, <1>3, WorthType DEF Eases, Covers
<1>5. \A k \in Campaigns : peak[k] \in Nat
  BY BoundsAssumption DEF TypeOK
<1>6. PeakIsHighest'
  BY <1>1 DEF PeakIsHighest
<1> QED
  BY <1>1, <1>2, <1>3, <1>4, <1>5, <1>6 DEF Bounds, EasesSpend

\* Every step is within the bounds.
LEMMA StepBounds ==
  ASSUME TypeOK, PeakIsHighest, Next
  PROVE  Bounds
<1>1. ASSUME NEW e \in Events, ChargeStep(e) PROVE Bounds
  BY <1>1, RecordBounds, BeginBounds, ReadCampaignBounds, ReadDailyBounds, CommitBounds,
     PauseCampaignBounds, ChargeAbortBounds DEF ChargeStep
<1>2. ASSUME NEW k \in Campaigns, CampaignStep(k) PROVE Bounds
  BY <1>2, CampaignQuiet, QuietBounds
<1>3. ASSUME NEW a \in Ads, AdStep(a) PROVE Bounds
  BY <1>3, AdQuiet, QuietBounds
<1>4. CASE ClockStep
  BY <1>4, ClockQuiet, QuietBounds
<1>5. ASSUME NEW u \in Users, PaymentsStep(u) PROVE Bounds
  BY <1>5, PaymentsBounds
<1> QED
  BY <1>1, <1>2, <1>3, <1>4, <1>5 DEF Next

-------------------------------------------------------------------------------

\* Room for n charges of size m, and how it grows with n.
LEMMA RoomGrows ==
  ASSUME NEW m \in Nat, NEW i \in Nat, NEW j \in Nat
  PROVE  /\ m * i \in Nat
         /\ i <= j => m * i <= m * j
         /\ i + 1 <= j => m * i + m <= m * j
<1>1. i <= j => m * i <= m * j
  OBVIOUS
<1>2. i + 1 <= j => m * (i + 1) <= m * j
  OBVIOUS
<1>3. m * (i + 1) = m * i + m
  OBVIOUS
<1> QED
  BY <1>1, <1>2, <1>3

\* The events that are not in flight, when fewer are.
LEMMA RoomLeft ==
  ASSUME NEW S \in SUBSET Events, NEW T \in SUBSET S
  PROVE  /\ Cardinality(Events \ S) \in Nat
         /\ Cardinality(Events \ T) \in Nat
         /\ Cardinality(Events \ S) <= Cardinality(Events \ T)
<1>1. IsFiniteSet(Events \ T) /\ IsFiniteSet(Events \ S)
  BY EventsAssumption, FS_Subset
<1>2. (Events \ S) \in SUBSET (Events \ T)
  OBVIOUS
<1> QED
  BY <1>1, <1>2, FS_Subset, FS_CardinalityType

LEMMA RoomWithout ==
  ASSUME NEW S \in SUBSET Events, NEW e \in S, NEW T \in SUBSET (S \ {e})
  PROVE  /\ Cardinality(Events \ S) \in Nat
         /\ Cardinality(Events \ T) \in Nat
         /\ Cardinality(Events \ S) + 1 <= Cardinality(Events \ T)
<1>1. IsFiniteSet(Events \ S) /\ IsFiniteSet(Events \ (S \ {e}))
  BY EventsAssumption, FS_Subset
<1>2. Events \ (S \ {e}) = (Events \ S) \union {e} /\ e \notin Events \ S
  OBVIOUS
<1>3. Cardinality(Events \ (S \ {e})) = Cardinality(Events \ S) + 1
  BY <1>1, <1>2, FS_AddElement
<1>4. Cardinality(Events \ (S \ {e})) <= Cardinality(Events \ T) /\ Cardinality(Events \ T) \in Nat
  BY RoomLeft
<1>5. Cardinality(Events \ S) \in Nat
  BY <1>1, FS_CardinalityType
<1> QED
  BY <1>3, <1>4, <1>5

\* Steps within the bounds keep them.
LEMMA OverdraftStep ==
  ASSUME TypeOK, OverdraftBounded, Bounds
  PROVE  OverdraftBounded'
<1> SUFFICES ASSUME NEW u \in Users
             PROVE  Worth(u)' + MaxCost * Cardinality(Events \ ChargingTo(u)') >= 0
  BY DEF OverdraftBounded, Worth
<1> DEFINE S == ChargingTo(u)
           T == ChargingTo(u)'
           i == Cardinality(Events \ S)
           j == Cardinality(Events \ T)
<1>1. S \in SUBSET Events /\ T \in SUBSET Events
  BY DEF ChargingTo
<1>2. Worth(u) \in Int /\ Worth(u)' \in Int /\ MaxCost \in Nat
  <2>1. /\ wallet[u] \in Int /\ taken[u] \in Nat /\ short[u] \in Nat
        /\ wallet'[u] \in Int /\ taken'[u] \in Nat /\ short'[u] \in Nat
    BY DEF TypeOK, Bounds
  <2>2. Worth(u)' = wallet'[u] + (taken'[u] + short'[u])
    BY DEF Worth, Unsettled
  <2> QED
    BY <2>1, <2>2, BoundsAssumption, WorthType
<1>3. i \in Nat /\ j \in Nat
  BY <1>1, EventsAssumption, FS_Subset, FS_CardinalityType
<1>4. Worth(u) + MaxCost * i >= 0
  BY DEF OverdraftBounded, Worth
<1>5. CASE Eases(u)
  <2>1. i <= j
    BY <1>1, <1>5, RoomLeft DEF Eases
  <2>2. MaxCost * i <= MaxCost * j /\ MaxCost * i \in Nat /\ MaxCost * j \in Nat
    BY <1>2, <1>3, <2>1, RoomGrows
  <2>3. Worth(u)' >= Worth(u)
    BY <1>5 DEF Eases
  <2> HIDE DEF i, j
  <2> QED
    BY <1>2, <1>4, <2>2, <2>3 DEF j
<1>6. CASE Covers(u)
  <2>1. MaxCost * j \in Nat
    BY <1>2, <1>3, RoomGrows
  <2>2. Worth(u)' >= 0
    BY <1>6 DEF Covers
  <2> QED
    BY <1>2, <2>1, <2>2
<1>7. CASE Pays(u)
  <2>1. PICK e \in S : T \subseteq S \ {e}
    BY <1>7 DEF Pays
  <2>2. i + 1 <= j
    BY <1>1, <2>1, RoomWithout
  <2>3. MaxCost * i + MaxCost <= MaxCost * j /\ MaxCost * i \in Nat /\ MaxCost * j \in Nat
    BY <1>2, <1>3, <2>2, RoomGrows
  <2>4. Worth(u)' >= Worth(u) - MaxCost
    BY <1>7 DEF Pays
  <2> HIDE DEF i, j
  <2> QED
    BY <1>2, <1>4, <2>3, <2>4 DEF j
<1> QED
  BY <1>5, <1>6, <1>7 DEF Bounds

LEMMA SpendStep ==
  ASSUME TypeOK, SpendInv, Bounds
  PROVE  SpendInv'
<1> SUFFICES ASSUME NEW k \in Campaigns, campaign'[k].spent > 0 \/ ChargingOn(k)' # {}
             PROVE  campaign'[k].spent + campaign'[k].cost
                      <= peak'[k] + campaign'[k].cost * Cardinality(Events \ ChargingOn(k)')
  BY DEF SpendInv
<1> DEFINE S == ChargingOn(k)
           T == ChargingOn(k)'
           i == Cardinality(Events \ S)
           j == Cardinality(Events \ T)
           c == campaign[k].cost
           old == campaign[k].spent
           new == campaign'[k].spent
<1>1. S \in SUBSET Events /\ T \in SUBSET Events
  BY DEF ChargingOn
<1>2. /\ c \in Nat /\ campaign'[k].cost = c
      /\ old \in Nat /\ new \in Nat
      /\ peak[k] \in Nat /\ peak'[k] \in Nat
  <2>1. campaign[k] \in Campaign /\ campaign'[k] \in Campaign
    BY DEF TypeOK, Bounds
  <2> QED
    BY <2>1, BoundsAssumption DEF Campaign, TypeOK, Bounds, Kept
<1>3. i \in Nat /\ j \in Nat
  BY <1>1, EventsAssumption, FS_Subset, FS_CardinalityType
<1>4. old > 0 \/ S # {} => old + c <= peak[k] + c * i
  BY DEF SpendInv
<1>5. CASE EasesSpend(k)
  <2>1. i <= j /\ new = old /\ peak[k] <= peak'[k] /\ T \subseteq S
    BY <1>1, <1>5, RoomLeft DEF EasesSpend
  <2>2. c * i <= c * j /\ c * i \in Nat /\ c * j \in Nat
    BY <1>2, <1>3, <2>1, RoomGrows
  <2>3. old > 0 \/ S # {}
    BY <2>1
  <2>4. new + c <= peak'[k] + c * j
    <3> HIDE DEF i, j, c, old, new
    <3> QED
      BY <1>2, <1>4, <2>1, <2>2, <2>3
  <2> QED
    BY <1>2, <2>4
<1>6. CASE CoversSpend(k)
  <2>1. c * j \in Nat
    BY <1>2, <1>3, RoomGrows
  <2>2. new + c <= peak'[k]
    BY <1>2, <1>6 DEF CoversSpend
  <2>3. new + c <= peak'[k] + c * j
    <3> HIDE DEF j, c, new
    <3> QED
      BY <1>2, <2>1, <2>2
  <2> QED
    BY <1>2, <2>3
<1>7. CASE PaysSpend(k)
  <2>1. PICK e \in S : T \subseteq S \ {e}
    BY <1>7 DEF PaysSpend
  <2>2. i + 1 <= j
    BY <1>1, <2>1, RoomWithout
  <2>3. c * i + c <= c * j /\ c * i \in Nat /\ c * j \in Nat
    BY <1>2, <1>3, <2>2, RoomGrows
  <2>4. new = old + c /\ peak[k] <= peak'[k]
    BY <1>7 DEF PaysSpend
  <2>5. new + c <= peak'[k] + c * j
    <3>1. S # {}
      BY <2>1
    <3> HIDE DEF i, j, c, old, new
    <3> QED
      BY <1>2, <1>4, <2>3, <2>4, <3>1
  <2> QED
    BY <1>2, <2>5
<1> QED
  BY <1>5, <1>6, <1>7 DEF Bounds

-------------------------------------------------------------------------------

IInv == TypeOK /\ PeakIsHighest /\ OverdraftBounded /\ SpendInv

LEMMA IInvInit == Init => IInv
<1> SUFFICES ASSUME Init PROVE IInv
  OBVIOUS
<1>1. TypeOK
  <2>1. campaign \in [Campaigns -> Campaign]
    BY BoundsAssumption DEF Init, Campaign, CampaignStatus
  <2>2. ad \in [Ads -> AdRow]
    BY DEF Init, AdRow, AdStatus, NoRow
  <2>3. day \in Days /\ peak \in [Campaigns -> 0..MaxBudget] /\ rebudget \in [Campaigns -> 0..MaxBudget]
    BY BoundsAssumption DEF Init, Days
  <2>4. wallet \in [Users -> Int] /\ deposited \in [Users -> Int]
          /\ taken \in [Users -> Nat] /\ short \in [Users -> Nat]
          /\ dailySpend \in [Campaigns -> [Days -> Nat]]
    BY DEF Init
  <2> QED
    BY <2>1, <2>2, <2>3, <2>4 DEF Init, TypeOK
<1>2. /\ \A u \in Users : ChargingTo(u) = {}
      /\ \A k \in Campaigns : ChargingOn(k) = {}
  BY DEF Init, ChargingTo, ChargingOn, InFlight, Idle
<1>3. /\ \A u \in Users : Worth(u) = 0
      /\ \A k \in Campaigns : campaign[k].spent = 0 /\ campaign[k].budget = 0 /\ peak[k] = 0
  BY DEF Init, Worth, Unsettled
<1>4. MaxCost * Cardinality(Events) \in Nat
  BY BoundsAssumption, EventsAssumption, FS_CardinalityType, RoomGrows
<1>5. OverdraftBounded
  <2> SUFFICES ASSUME NEW u \in Users
               PROVE  Worth(u) + MaxCost * Cardinality(Events \ ChargingTo(u)) >= 0
    BY DEF OverdraftBounded, Worth
  <2>1. Events \ ChargingTo(u) = Events
    BY <1>2
  <2>2. 0 + MaxCost * Cardinality(Events) >= 0
    BY <1>4
  <2> QED
    BY <1>3, <2>1, <2>2
<1>6. SpendInv
  BY <1>2, <1>3 DEF SpendInv
<1>7. PeakIsHighest
  BY <1>3 DEF PeakIsHighest
<1> QED
  BY <1>1, <1>5, <1>6, <1>7 DEF IInv

LEMMA IInvStep == IInv /\ [Next]_vars => IInv'
<1> SUFFICES ASSUME IInv, [Next]_vars PROVE IInv'
  OBVIOUS
<1>1. CASE Next
  <2>1. Bounds
    BY <1>1, StepBounds DEF IInv
  <2> QED
    BY <2>1, OverdraftStep, SpendStep DEF IInv, Bounds
<1>2. CASE UNCHANGED vars
  <2>1. UNCHANGED <<wallet, dailySpend, charge, campaign, ad, clockVars, plan, editVars,
                    bankVars, peak>>
    BY <1>2 DEF vars, chargeVars
  <2>2. TypeOK'
    BY <2>1 DEF IInv, TypeOK, clockVars, editVars, bankVars
  <2>3. /\ \A u \in Users : ChargingTo(u)' = ChargingTo(u)
        /\ \A k \in Campaigns : ChargingOn(k)' = ChargingOn(k)
    BY <2>1 DEF ChargingTo, ChargingOn, InFlight, CampaignOf
  <2> QED
    BY <2>1, <2>2, <2>3 DEF IInv, PeakIsHighest, OverdraftBounded, Unsettled, SpendInv, bankVars
<1> QED
  BY <1>1, <1>2

\* Money as a set of units: a finite one, and a total that grows with its amounts.
LEMMA UnitsFinite ==
  ASSUME NEW S, IsFiniteSet(S), NEW f, \A x \in S : f[x] \in Nat
  PROVE  IsFiniteSet(Units(S, f)) /\ Total(S, f) \in Nat
<1> DEFINE U(x) == {x} \X (1..f[x])
           F == [x \in S |-> U(x)]
           R == {U(x) : x \in S}
<1>1. F \in [S -> R] /\ \A t \in R : \E x \in S : F[x] = t
  OBVIOUS
<1>2. IsFiniteSet(R)
  <2> HIDE DEF F, R
  <2>1. F \in Surjection(S, R)
    BY <1>1, Fun_IsSurj
  <2> QED
    BY <2>1, FS_Surjection
<1>3. ASSUME NEW x \in S PROVE IsFiniteSet(U(x))
  <2>1. IsFiniteSet({x})
    BY FS_Singleton
  <2>2. IsFiniteSet(1..f[x])
    BY FS_Interval
  <2> QED
    BY <2>1, <2>2, FS_Product
<1>4. IsFiniteSet(UNION {U(x) : x \in S})
  BY <1>2, <1>3, FS_UNION
<1>5. IsFiniteSet(Units(S, f))
  BY <1>4 DEF Units
<1> QED
  BY <1>5, FS_CardinalityType DEF Total

LEMMA TotalSame ==
  ASSUME NEW S, NEW f, NEW g, \A x \in S : g[x] = f[x]
  PROVE  Total(S, g) = Total(S, f)
BY DEF Total, Units

LEMMA TotalGrows ==
  ASSUME NEW S, IsFiniteSet(S), NEW f, NEW g, NEW k \in S, NEW c \in Nat,
         \A x \in S : f[x] \in Nat,
         g[k] = f[k] + c, \A x \in S \ {k} : g[x] = f[x]
  PROVE  Total(S, g) = Total(S, f) + c
<1> DEFINE I == (f[k] + 1)..(f[k] + c)
           New == {k} \X I
<1>1. f[k] \in Nat
  OBVIOUS
<1>2. IsFiniteSet(I) /\ Cardinality(I) = c
  <2>1. PICK n \in Nat : n = f[k]
    BY <1>1
  <2>2. n + 1 \in Int /\ n + c \in Int /\ (IF n + 1 > n + c THEN 0 ELSE (n + c) - (n + 1) + 1) = c
    OBVIOUS
  <2> QED
    BY <2>1, <2>2, FS_Interval
<1>3. IsFiniteSet(New) /\ Cardinality(New) = c
  <2>1. IsFiniteSet({k}) /\ Cardinality({k}) = 1
    BY FS_Singleton
  <2> HIDE DEF I
  <2>2. IsFiniteSet(New) /\ Cardinality(New) = 1 * c
    BY <1>2, <2>1, FS_Product
  <2> QED
    BY <2>2
<1>4. Units(S, g) = Units(S, f) \union New
  <2>1. 1..g[k] = (1..f[k]) \union I
    BY <1>1
  <2> HIDE DEF I
  <2>2. {k} \X (1..g[k]) = ({k} \X (1..f[k])) \union New
    BY <2>1
  <2> HIDE DEF New
  <2> QED
    BY <2>2 DEF Units
<1>5. Units(S, f) \intersect New = {}
  <2>1. \A i \in I : i \notin 1..f[k]
    BY <1>1
  <2> HIDE DEF I
  <2> QED
    BY <2>1 DEF Units
<1>6. IsFiniteSet(Units(S, f)) /\ Cardinality(Units(S, f)) \in Nat
  BY UnitsFinite, FS_CardinalityType
<1> HIDE DEF New
<1> QED
  BY <1>3, <1>4, <1>5, <1>6, FS_Union, FS_EmptySet DEF Total

LEMMA TotalOfNothing ==
  ASSUME NEW S, NEW f, \A x \in S : f[x] = 0
  PROVE  Total(S, f) = 0
<1>1. 1..0 = {}
  OBVIOUS
<1>2. \A x \in S : {x} \X (1..f[x]) = {}
  BY <1>1
<1>3. Units(S, f) = {}
  BY <1>2 DEF Units
<1> QED
  BY <1>3, FS_EmptySet DEF Total

-------------------------------------------------------------------------------

\* SpendReconciles, one wallet and one campaign at a time.
WalletReconciles(u) == wallet[u] = deposited[u] - Total(CampaignsOf(u), Spends)
DaysReconcile(k)    == campaign[k].spent = Total(Days, dailySpend[k])

\* debit has fixed its day when it begins its transaction.
DayFixed == \A e \in Events : charge[e].pc \in {"begun", "daily", "commit"} => charge[e].day \in Days

\* What a step that spends nothing leaves as it was.
SpendsNothing ==
  /\ TypeOK' /\ Kept
  /\ UNCHANGED dailySpend
  /\ \A k \in Campaigns : campaign'[k].spent = campaign[k].spent
  /\ \A u \in Users : wallet'[u] - deposited'[u] = wallet[u] - deposited[u]

LEMMA SpendTypes ==
  ASSUME TypeOK
  PROVE  /\ \A k \in Campaigns : Spends[k] = campaign[k].spent /\ Spends[k] \in Nat
         /\ \A k \in Campaigns : \A d \in Days : dailySpend[k][d] \in Nat
         /\ \A u \in Users : wallet[u] \in Int /\ deposited[u] \in Int
         /\ IsFiniteSet(Days) /\ \A u \in Users : IsFiniteSet(CampaignsOf(u))
         /\ \A u \in Users : Total(CampaignsOf(u), Spends) \in Nat
         /\ \A k \in Campaigns : Total(Days, dailySpend[k]) \in Nat
<1>1. \A k \in Campaigns : Spends[k] = campaign[k].spent /\ Spends[k] \in Nat
  BY DEF TypeOK, Campaign, Spends
<1>2. \A k \in Campaigns : \A d \in Days : dailySpend[k][d] \in Nat
  BY DEF TypeOK
<1>3. \A u \in Users : wallet[u] \in Int /\ deposited[u] \in Int
  BY DEF TypeOK
<1>4. IsFiniteSet(Days)
  BY BoundsAssumption, FS_Interval DEF Days
<1>5. ASSUME NEW u \in Users PROVE IsFiniteSet(CampaignsOf(u)) /\ CampaignsOf(u) \subseteq Campaigns
  BY CampaignsAssumption, FS_Subset DEF CampaignsOf
<1>6. ASSUME NEW u \in Users PROVE Total(CampaignsOf(u), Spends) \in Nat
  BY <1>1, <1>5, UnitsFinite
<1>7. ASSUME NEW k \in Campaigns PROVE Total(Days, dailySpend[k]) \in Nat
  BY <1>2, <1>4, UnitsFinite
<1> QED
  BY <1>1, <1>2, <1>3, <1>4, <1>5, <1>6, <1>7

LEMMA SpendsNothingKeeps ==
  ASSUME TypeOK, SpendReconciles, SpendsNothing
  PROVE  SpendReconciles'
<1>1. ASSUME NEW u \in Users PROVE WalletReconciles(u)'
  <2>1. CampaignsOf(u)' = CampaignsOf(u) /\ CampaignsOf(u) \subseteq Campaigns
    BY DEF SpendsNothing, Kept, CampaignsOf
  <2>2. \A k \in Campaigns : Spends'[k] = Spends[k]
    BY DEF SpendsNothing, Spends
  <2>3. Total(CampaignsOf(u), Spends') = Total(CampaignsOf(u), Spends)
    BY <2>1, <2>2, TotalSame
  <2>4. wallet[u] = deposited[u] - Total(CampaignsOf(u), Spends)
    BY DEF SpendReconciles
  <2>5. wallet'[u] - deposited'[u] = wallet[u] - deposited[u] /\ wallet'[u] \in Int /\ deposited'[u] \in Int
    BY DEF SpendsNothing, TypeOK
  <2>6. Total(CampaignsOf(u), Spends) \in Nat /\ wallet[u] \in Int /\ deposited[u] \in Int
    BY SpendTypes
  <2>7. wallet'[u] = deposited'[u] - Total(CampaignsOf(u), Spends)
    BY <2>4, <2>5, <2>6
  <2> QED
    BY <2>1, <2>3, <2>7 DEF WalletReconciles
<1>2. ASSUME NEW k \in Campaigns PROVE DaysReconcile(k)'
  BY DEF SpendsNothing, SpendReconciles, DaysReconcile, Days
<1> QED
  BY <1>1, <1>2 DEF SpendReconciles, WalletReconciles, DaysReconcile

\* Every step but a charge's commit spends nothing.
LEMMA OthersSpendNothing ==
  ASSUME TypeOK, TypeOK', Next, \A e \in Events : ~Commit(e)
  PROVE  SpendsNothing
<1>1. \A u \in Users : wallet[u] \in Int /\ deposited[u] \in Int
  BY DEF TypeOK
<1>2. ASSUME Quiet PROVE SpendsNothing
  BY <1>2 DEF Quiet, SpendsNothing, bankVars
<1>3. ASSUME NEW e \in Events, ChargeStep(e) PROVE SpendsNothing
  <2>1. CASE PauseCampaign(e)
    <3>1. Kept /\ \A k \in Campaigns : campaign'[k].spent = campaign[k].spent
      BY <2>1, PauseCampaignKeeps
    <3> QED
      BY <1>1, <2>1, <3>1 DEF PauseCampaign, SpendsNothing, bankVars
  <2>2. CASE ~PauseCampaign(e)
    <3>1. UNCHANGED <<wallet, dailySpend, campaign, ad, deposited>>
      BY <1>3, <2>2 DEF ChargeStep, Record, Begin, ReadCampaign, ReadDaily, ChargeAbort, bankVars
    <3> QED
      BY <1>1, <3>1 DEF SpendsNothing, Kept
  <2> QED
    BY <2>1, <2>2
<1>4. ASSUME NEW u \in Users, PaymentsStep(u) PROVE SpendsNothing
  BY <1>4, PaymentsTypes DEF SpendsNothing, Kept
<1> QED
  BY <1>2, <1>3, <1>4, CampaignQuiet, AdQuiet, ClockQuiet DEF Next

\* A charge takes from its campaign's owner what it adds to the campaign and to
\* the day it began on.
LEMMA CommitReconciles ==
  ASSUME TypeOK, TypeOK', DayFixed, SpendReconciles, NEW e \in Events, Commit(e)
  PROVE  SpendReconciles'
<1> DEFINE k == CampaignOf(e)
           c == campaign[k].cost
           o == campaign[k].owner
           d == charge[e].day
<1>1. charge[e].pc = "commit" /\ d \in Days
  BY DEF Commit, At, DayFixed
<1>2. k \in Campaigns
  BY <1>1, Charges
<1>3. campaign[k] \in Campaign /\ campaign \in [Campaigns -> Campaign]
  BY <1>2 DEF TypeOK
<1>4. c \in Nat /\ o \in Users /\ campaign[k].spent \in Nat
  BY <1>3 DEF Campaign
<1>5. /\ wallet' = [wallet EXCEPT ![o] = @ - c]
      /\ campaign' = [campaign EXCEPT ![k].spent = @ + c]
      /\ dailySpend' = [dailySpend EXCEPT ![k][d] = @ + c]
      /\ UNCHANGED deposited
  BY DEF Commit, bankVars
<1> HIDE DEF k, c, o, d
<1>6. /\ campaign'[k].spent = campaign[k].spent + c
      /\ \A j \in Campaigns \ {k} : campaign'[j].spent = campaign[j].spent
      /\ \A j \in Campaigns : campaign'[j].owner = campaign[j].owner
  BY <1>2, <1>3, <1>4, <1>5 DEF Campaign
<1>7. /\ Spends'[k] = Spends[k] + c
      /\ \A j \in Campaigns \ {k} : Spends'[j] = Spends[j]
  BY <1>2, <1>6 DEF Spends
<1>8. ASSUME NEW u \in Users PROVE WalletReconciles(u)'
  <2>1. CampaignsOf(u)' = CampaignsOf(u) /\ CampaignsOf(u) \subseteq Campaigns
    BY <1>6 DEF CampaignsOf
  <2>2. wallet[u] = deposited[u] - Total(CampaignsOf(u), Spends)
    BY DEF SpendReconciles
  <2>3. /\ Total(CampaignsOf(u), Spends) \in Nat /\ wallet[u] \in Int /\ deposited[u] \in Int
        /\ IsFiniteSet(CampaignsOf(u)) /\ \A j \in Campaigns : Spends[j] \in Nat
    BY SpendTypes
  <2>4. CASE u = o
    <3>1. k \in CampaignsOf(u)
      BY <1>2, <2>4 DEF CampaignsOf, o
    <3>2. Total(CampaignsOf(u), Spends') = Total(CampaignsOf(u), Spends) + c
      BY <1>4, <1>7, <2>1, <2>3, <3>1, TotalGrows
    <3>3. wallet'[u] = wallet[u] - c
      BY <1>4, <1>5, <2>4 DEF TypeOK
    <3>4. wallet'[u] = deposited[u] - (Total(CampaignsOf(u), Spends) + c)
      BY <1>4, <2>2, <2>3, <3>3
    <3> QED
      BY <1>5, <2>1, <3>2, <3>4 DEF WalletReconciles
  <2>5. CASE u # o
    <3>1. k \notin CampaignsOf(u)
      BY <2>5 DEF CampaignsOf, o
    <3>2. Total(CampaignsOf(u), Spends') = Total(CampaignsOf(u), Spends)
      BY <1>7, <2>1, <3>1, TotalSame
    <3>3. wallet'[u] = wallet[u]
      BY <1>4, <1>5, <2>5 DEF TypeOK
    <3> QED
      BY <1>5, <2>1, <2>2, <3>2, <3>3 DEF WalletReconciles
  <2> QED
    BY <2>4, <2>5
<1>9. ASSUME NEW j \in Campaigns PROVE DaysReconcile(j)'
  <2>1. campaign[j].spent = Total(Days, dailySpend[j])
    BY DEF SpendReconciles
  <2>2. Days' = Days
    BY DEF Days
  <2>3. CASE j = k
    <3>1. dailySpend'[k][d] = dailySpend[k][d] + c /\ \A x \in Days \ {d} : dailySpend'[k][x] = dailySpend[k][x]
      BY <1>1, <1>2, <1>5 DEF TypeOK, d
    <3>2. IsFiniteSet(Days) /\ \A x \in Days : dailySpend[k][x] \in Nat
      BY <1>2, SpendTypes
    <3>3. d \in Days
      BY <1>1 DEF d
    <3>4. Total(Days, dailySpend'[k]) = Total(Days, dailySpend[k]) + c
      BY <1>4, <3>1, <3>2, <3>3, TotalGrows
    <3> QED
      BY <1>6, <2>1, <2>2, <2>3, <3>4 DEF DaysReconcile
  <2>4. CASE j # k
    <3>1. dailySpend'[j] = dailySpend[j]
      BY <1>2, <1>5, <2>4 DEF TypeOK
    <3> QED
      BY <1>6, <2>1, <2>2, <2>4, <3>1 DEF DaysReconcile
  <2> QED
    BY <2>3, <2>4
<1> QED
  BY <1>8, <1>9 DEF SpendReconciles, WalletReconciles, DaysReconcile

LEMMA DayFixedStep ==
  ASSUME TypeOK, DayFixed, Next
  PROVE  DayFixed'
<1>1. ASSUME UNCHANGED charge PROVE DayFixed'
  BY <1>1 DEF DayFixed, Days
<1>2. ASSUME NEW e \in Events, ChargeStep(e) PROVE DayFixed'
  <2>1. charge \in [Events -> {Idle} \union Charge]
    BY DEF TypeOK
  <2>2. \A f \in Events \ {e} : charge'[f] = charge[f]
    BY <1>2, <2>1 DEF ChargeStep, Record, Begin, ReadCampaign, ReadDaily, Commit, PauseCampaign, ChargeAbort,
                      MovesTo, Finishes
  <2>3. charge'[e].pc \in {"begun", "daily", "commit"} => charge'[e].day \in Days
    <3>1. ASSUME NEW a \in Ads, Record(e, a) PROVE charge'[e].pc = "seen"
      BY <2>1, <3>1 DEF Record
    <3>2. CASE Begin(e)
      <4>1. charge[e].pc = "seen"
        BY <3>2 DEF Begin, At
      <4>2. charge[e] \in Charge
        BY <4>1, Charges
      <4>3. day \in Days
        BY DEF TypeOK
      <4> QED
        BY <2>1, <3>2, <4>2, <4>3 DEF Begin, Finishes, Idle, Charge
    <3>3. CASE ReadCampaign(e)
      <4>1. charge[e].pc = "begun"
        BY <3>3 DEF ReadCampaign, At
      <4>2. charge[e] \in Charge /\ charge[e].day \in Days
        BY <4>1, Charges DEF DayFixed
      <4> QED
        BY <2>1, <3>3, <4>2 DEF ReadCampaign, Charge
    <3>4. CASE ReadDaily(e)
      <4>1. charge[e].pc = "daily"
        BY <3>4 DEF ReadDaily, At
      <4>2. charge[e] \in Charge /\ charge[e].day \in Days
        BY <4>1, Charges DEF DayFixed
      <4> QED
        BY <2>1, <3>4, <4>2 DEF ReadDaily, MovesTo, Charge
    <3>5. CASE Commit(e) \/ PauseCampaign(e) \/ ChargeAbort(e)
      <4>1. charge'[e].pc = "idle"
        BY <2>1, <3>5 DEF Commit, PauseCampaign, ChargeAbort, Finishes, Idle
      <4> QED
        BY <4>1
    <3> QED
      BY <1>2, <3>1, <3>2, <3>3, <3>4, <3>5 DEF ChargeStep
  <2> QED
    BY <2>2, <2>3 DEF DayFixed, Days
<1>3. (\E e \in Events : ChargeStep(e)) \/ UNCHANGED charge
  BY CampaignQuiet, AdQuiet, ClockQuiet, PaymentsTypes DEF Next, Quiet
<1> QED
  BY <1>1, <1>2, <1>3

-------------------------------------------------------------------------------

\* Every reachable state is well typed.
THEOREM AdTypeCorrect == Spec => []TypeOK
<1>1. IInv => TypeOK
  BY DEF IInv
<1> QED
  BY IInvInit, IInvStep, <1>1, PTL DEF Spec

\* However many impressions and clicks race each other and the withdrawals of
\* Payments, debit overdraws a wallet by at most one charge for each of them.
THEOREM DebitOverdraftsLittle == Spec => []OverdraftBounded
<1>1. IInv => OverdraftBounded
  BY DEF IInv
<1> QED
  BY IInvInit, IInvStep, <1>1, PTL DEF Spec

\* However budgets are edited meanwhile, debit overspends the highest of them by
\* at most one charge for all but one of the events that race.
THEOREM DebitOverspendsLittle == Spec => []OverspendBounded
<1>1. IInv => OverspendBounded
  BY DEF IInv, SpendInv, OverspendBounded
<1> QED
  BY IInvInit, IInvStep, <1>1, PTL DEF Spec

\* What wallets lost to advertising, what campaigns have spent and what their days
\* add up to go on agreeing, whichever ads are deleted while they are charged.
THEOREM SpendAlwaysReconciles == Spec => []SpendReconciles
<1>1. TypeOK /\ Init => DayFixed /\ SpendReconciles
  <2> SUFFICES ASSUME TypeOK, Init PROVE DayFixed /\ SpendReconciles
    OBVIOUS
  <2>1. DayFixed
    BY DEF Init, DayFixed, Idle
  <2>2. ASSUME NEW u \in Users PROVE WalletReconciles(u)
    <3>1. \A k \in CampaignsOf(u) : Spends[k] = 0
      BY DEF Init, CampaignsOf, Spends
    <3>2. Total(CampaignsOf(u), Spends) = 0
      BY <3>1, TotalOfNothing
    <3> QED
      BY <3>2 DEF Init, WalletReconciles
  <2>3. ASSUME NEW k \in Campaigns PROVE DaysReconcile(k)
    <3>1. campaign[k].spent = 0 /\ \A d \in Days : dailySpend[k][d] = 0
      BY DEF Init
    <3>2. Total(Days, dailySpend[k]) = 0
      BY <3>1, TotalOfNothing
    <3> QED
      BY <3>1, <3>2 DEF DaysReconcile
  <2> QED
    BY <2>1, <2>2, <2>3 DEF SpendReconciles, WalletReconciles, DaysReconcile
<1>2. TypeOK /\ TypeOK' /\ DayFixed /\ SpendReconciles /\ [Next]_vars => DayFixed' /\ SpendReconciles'
  <2> SUFFICES ASSUME TypeOK, TypeOK', DayFixed, SpendReconciles, [Next]_vars
               PROVE  DayFixed' /\ SpendReconciles'
    OBVIOUS
  <2>1. CASE \E e \in Events : Commit(e)
    BY <2>1, CommitReconciles, DayFixedStep DEF Next, ChargeStep
  <2>2. CASE Next /\ \A e \in Events : ~Commit(e)
    BY <2>2, OthersSpendNothing, SpendsNothingKeeps, DayFixedStep
  <2>3. CASE UNCHANGED vars
    <3>1. UNCHANGED <<wallet, dailySpend, charge, campaign, deposited>>
      BY <2>3 DEF vars, chargeVars, bankVars
    <3> QED
      BY <3>1 DEF DayFixed, SpendReconciles, CampaignsOf, Spends, Days
  <2> QED
    BY <2>1, <2>2, <2>3
<1> QED
  BY <1>1, <1>2, AdTypeCorrect, PTL DEF Spec
=================================================================================

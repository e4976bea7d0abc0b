------------------------------- MODULE AdBilling -------------------------------
(***************************************************************************)
(* Money spent on advertising: what impressions and clicks charge, the     *)
(* budgets that stop a campaign, the two cron jobs, and the owner's and    *)
(* the admin's edits in between.                                           *)
(*                                                                         *)
(* A charge runs in a transaction at READ COMMITTED, so each of its reads  *)
(* is an action and its writes, which appear together, are one.  A row     *)
(* that is written by id alone is not read again.                          *)
(*                                                                         *)
(* Left out: targeting, the serving order, deduplication and rate limits   *)
(* (they only drop events), and the figures nobody decides by (counters,   *)
(* click rate, the spend of one ad, the AdPayment trail).  An event of the *)
(* kind that a campaign does not pay for changes no money and is left out. *)
(***************************************************************************)
EXTENDS Integers, FiniteSets

CONSTANTS
  Users,       \* advertisers
  Campaigns,
  Ads,
  Events,      \* impressions and clicks that may be served at the same time
  MaxCost,     \* bound on what one event costs
  MaxBudget,   \* bound on every budget
  MaxDeposit,  \* bound on what a wallet received, net of what was taken out
  MaxPayout,   \* bound on what payouts in progress have taken from a wallet
  LastDay,     \* the days are 1..LastDay
  AdStatusesByHand  \* what an admin sets an ad to by hand

ASSUME EventsAssumption == IsFiniteSet(Events)
ASSUME CampaignsAssumption == IsFiniteSet(Campaigns)
ASSUME BoundsAssumption ==
  MaxCost \in Nat /\ MaxBudget \in Nat /\ MaxDeposit \in Nat /\ MaxPayout \in Nat
  /\ LastDay \in Nat \ {0}

VARIABLES
  wallet,        \* user.walletBalance
  campaign,      \* the campaign rows
  ad,            \* the ad rows
  dailySpend,    \* per campaign and day
  day,           \* today
  midnight,      \* TRUE when the midnight job of this day has yet to run
  charge,        \* what each event in progress is doing
  plan,          \* what the hourly job has decided and not written yet
  activating,    \* campaigns whose activation passed the owner's checks
  rebudget,      \* the budget an owner's request is about to write, or 0
  reviewing,     \* ads an admin's review has read as pending
  resubmitting,  \* ads their owner's edit has read as rejected
  taken,         \* what payouts took from each wallet and have not checked yet
  short,         \* what payouts found missing and have yet to give back
  deposited,     \* history: what each wallet received, net
  peak           \* history: the highest budget a campaign has had

chargeVars == <<wallet, dailySpend, charge>>
clockVars  == <<day, midnight>>
bankVars   == <<taken, short, deposited>>
editVars   == <<activating, rebudget, reviewing, resubmitting>>
vars == <<chargeVars, campaign, ad, clockVars, plan, editVars, bankVars, peak>>

Days    == 1..LastDay
Budgets == 1..MaxBudget
Reasons == {"DAILY_BUDGET", "BUDGET_EXHAUSTED", "WALLET_EMPTY", "MANUAL"}
NoRow   == {"none", "deleted"}

\* DRAFT also stands for COMPLETED and REJECTED, and an ad's PAUSED for ACTIVE
\* and COMPLETED: no code tells them apart.
CampaignStatus == {"none", "DRAFT", "ACTIVE", "PAUSED"}
AdStatus       == NoRow \union {"PENDING_REVIEW", "APPROVED", "REJECTED", "PAUSED"}

ASSUME ByHandAssumption == AdStatusesByHand \subseteq AdStatus

\* cost is what one paid event costs: the bid for CPC, a thousandth of it,
\* rounded down, for CPM, which may be nothing.  A daily budget of 0 is none.
Campaign == [status : CampaignStatus, reason : Reasons \union {"none"}, owner : Users,
             bid : {"CPM", "CPC"}, cost : 0..MaxCost, budget : 0..MaxBudget,
             daily : 0..MaxBudget, spent : Nat]
AdRow    == [status : AdStatus, campaign : Campaigns]

\* A charge whose pc is a reason is about to pause the campaign for it.
Idle   == [pc |-> "idle"]
ChargePC == {"seen", "begun", "daily", "commit"} \union Reasons
Charge == [pc : ChargePC, ad : Ads, day : 0..LastDay, cap : 0..MaxBudget]

TypeOK ==
  /\ wallet       \in [Users -> Int]
  /\ campaign     \in [Campaigns -> Campaign]
  /\ ad           \in [Ads -> AdRow]
  /\ dailySpend   \in [Campaigns -> [Days -> Nat]]
  /\ day          \in Days
  /\ midnight     \in BOOLEAN
  /\ charge       \in [Events -> {Idle} \union Charge]
  /\ plan         \in [Campaigns -> Reasons \union {"none"}]
  /\ activating   \in SUBSET Campaigns
  /\ rebudget     \in [Campaigns -> 0..MaxBudget]
  /\ reviewing    \in SUBSET Ads
  /\ resubmitting \in SUBSET Ads
  /\ taken        \in [Users -> Nat]
  /\ short        \in [Users -> Nat]
  /\ deposited    \in [Users -> Int]
  /\ peak         \in [Campaigns -> 0..MaxBudget]

\* Owner, bid and cost never change; what a campaign will be created with, and
\* which campaign an ad is for, is chosen here.
Init ==
  /\ wallet       = [u \in Users |-> 0]
  /\ campaign     \in [Campaigns -> {row \in [status : {"none"}, reason : {"none"}, owner : Users,
                                              bid : {"CPM", "CPC"}, cost : 0..MaxCost,
                                              budget : {0}, daily : {0}, spent : {0}] :
                                       row.bid = "CPC" => row.cost > 0}]
  /\ ad           \in [Ads -> [status : {"none"}, campaign : Campaigns]]
  /\ dailySpend   = [k \in Campaigns |-> [d \in Days |-> 0]]
  /\ day          = 1
  /\ midnight     = FALSE
  /\ charge       = [e \in Events |-> Idle]
  /\ plan         = [k \in Campaigns |-> "none"]
  /\ activating   = {}
  /\ rebudget     = [k \in Campaigns |-> 0]
  /\ reviewing    = {}
  /\ resubmitting = {}
  /\ taken        = [u \in Users |-> 0]
  /\ short        = [u \in Users |-> 0]
  /\ deposited    = [u \in Users |-> 0]
  /\ peak         = [k \in Campaigns |-> 0]

AdsOf(k) == {a \in Ads : ad[a].campaign = k}

(***************************************************************************)
(* An impression is only recorded for an approved ad, a click for any ad   *)
(* that exists; neither looks at the campaign's status.                    *)
(***************************************************************************)
Record(e, a) ==
  LET k == ad[a].campaign
  IN /\ charge[e] = Idle
     /\ ad[a].status \notin NoRow
     /\ campaign[k].bid = "CPM" => ad[a].status = "APPROVED"
     /\ charge' = [charge EXCEPT ![e] = [pc |-> "seen", ad |-> a, day |-> 0, cap |-> 0]]
     /\ UNCHANGED <<wallet, dailySpend, campaign, ad, clockVars, plan, editVars, bankVars, peak>>

At(e, pc)      == charge[e].pc = pc
MovesTo(e, pc) == charge' = [charge EXCEPT ![e].pc = pc]
Finishes(e)    == charge' = [charge EXCEPT ![e] = Idle]
CampaignOf(e)  == ad[charge[e].ad].campaign

\* chargeForImpression, chargeForClick: an event that costs nothing and an ad
\* that has gone end it; debit fixes the day before its transaction begins.
Begin(e) ==
  /\ At(e, "seen")
  /\ IF campaign[CampaignOf(e)].cost > 0 /\ ad[charge[e].ad].status \notin NoRow
     THEN charge' = [charge EXCEPT ![e].pc = "begun", ![e].day = day]
     ELSE Finishes(e)
  /\ UNCHANGED <<wallet, dailySpend, campaign, ad, clockVars, plan, editVars, bankVars, peak>>

OverBudget(k) == campaign[k].spent + campaign[k].cost > campaign[k].budget
Poor(k)       == wallet[campaign[k].owner] < campaign[k].cost
Unchecked(k)  == IF campaign[k].daily # 0 THEN "daily" ELSE "commit"

\* Mutant: the budget is not looked at.
FirstCheck_NoBudget(k) == IF Poor(k) THEN "WALLET_EMPTY" ELSE Unchecked(k)

\* Where debit goes once it has read the campaign and the wallet.
FirstCheck(k) ==
  IF OverBudget(k) THEN "BUDGET_EXHAUSTED"
  ELSE IF Poor(k) THEN "WALLET_EMPTY" ELSE Unchecked(k)

ReadCampaign(e) ==
  LET k == CampaignOf(e)
  IN /\ At(e, "begun")
     /\ charge' = [charge EXCEPT ![e].pc = FirstCheck(k), ![e].cap = campaign[k].daily]
     /\ UNCHANGED <<wallet, dailySpend, campaign, ad, clockVars, plan, editVars, bankVars, peak>>

ReadDaily(e) ==
  LET k == CampaignOf(e)
  IN /\ At(e, "daily")
     /\ MovesTo(e, IF dailySpend[k][charge[e].day] + campaign[k].cost > charge[e].cap
                   THEN "DAILY_BUDGET" ELSE "commit")
     /\ UNCHANGED <<wallet, dailySpend, campaign, ad, clockVars, plan, editVars, bankVars, peak>>

\* Mutant: no transaction, the wallet is charged before the ad turns out gone.
Commit_NoTransaction(e) ==
  LET k == CampaignOf(e)
      c == campaign[k].cost
  IN /\ At(e, "commit")
     /\ wallet' = [wallet EXCEPT ![campaign[k].owner] = @ - c]
     /\ IF ad[charge[e].ad].status \in NoRow
        THEN UNCHANGED <<campaign, dailySpend>>
        ELSE /\ campaign' = [campaign EXCEPT ![k].spent = @ + c]
             /\ dailySpend' = [dailySpend EXCEPT ![k][charge[e].day] = @ + c]
     /\ Finishes(e)
     /\ UNCHANGED <<ad, clockVars, plan, editVars, bankVars, peak>>

\* The writes are increments by id: what was checked is not checked again.
Commit(e) ==
  LET k == CampaignOf(e)
      c == campaign[k].cost
  IN /\ At(e, "commit")
     /\ ad[charge[e].ad].status \notin NoRow
     /\ wallet' = [wallet EXCEPT ![campaign[k].owner] = @ - c]
     /\ campaign' = [campaign EXCEPT ![k].spent = @ + c]
     /\ dailySpend' = [dailySpend EXCEPT ![k][charge[e].day] = @ + c]
     /\ Finishes(e)
     /\ UNCHANGED <<ad, clockVars, plan, editVars, bankVars, peak>>

Paused(k, why) == [campaign EXCEPT ![k].status = "PAUSED", ![k].reason = why]

\* pauseCampaign, whatever the campaign's status is by now.
PauseCampaign(e) ==
  /\ charge[e].pc \in Reasons
  /\ campaign' = Paused(CampaignOf(e), charge[e].pc)
  /\ ad' = [a \in Ads |-> IF a \in AdsOf(CampaignOf(e)) /\ ad[a].status = "APPROVED"
                          THEN [ad[a] EXCEPT !.status = "PAUSED"] ELSE ad[a]]
  /\ Finishes(e)
  /\ UNCHANGED <<wallet, dailySpend, clockVars, plan, editVars, bankVars, peak>>

\* The event dies, or the transaction fails (as it does when the ad has gone)
\* and is rolled back; debit swallows the error.
ChargeAbort(e) ==
  /\ charge[e] # Idle
  /\ Finishes(e)
  /\ UNCHANGED <<wallet, dailySpend, campaign, ad, clockVars, plan, editVars, bankVars, peak>>

(***************************************************************************)
(* The hourly job reads everything once and then pauses one campaign after *)
(* the other, by id.  It leaves the ads alone.                             *)
(***************************************************************************)

DayIsSpent(k) == campaign[k].daily # 0 /\ dailySpend[k][day] >= campaign[k].daily

\* Mutant: a budget that is used up exactly is not exhausted.
Verdict_OffByOne(k) ==
  IF campaign[k].spent > campaign[k].budget THEN "BUDGET_EXHAUSTED"
  ELSE IF wallet[campaign[k].owner] <= 0 THEN "WALLET_EMPTY"
  ELSE IF DayIsSpent(k) THEN "DAILY_BUDGET" ELSE "none"

Verdict(k) ==
  IF campaign[k].spent >= campaign[k].budget THEN "BUDGET_EXHAUSTED"
  ELSE IF wallet[campaign[k].owner] <= 0 THEN "WALLET_EMPTY"
  ELSE IF DayIsSpent(k) THEN "DAILY_BUDGET" ELSE "none"

\* The query's second alternative, budget: { not: undefined }, filters by
\* nothing; whether it then matches every campaign is left open.
CronRead ==
  /\ plan = [k \in Campaigns |-> "none"]
  /\ \E everything \in BOOLEAN :
       plan' = [k \in Campaigns |->
                  IF campaign[k].status = "ACTIVE" /\ (everything \/ campaign[k].daily # 0)
                  THEN Verdict(k) ELSE "none"]
  /\ UNCHANGED <<chargeVars, campaign, ad, clockVars, editVars, bankVars, peak>>

CronWrite(k) ==
  /\ plan[k] # "none"
  /\ campaign' = Paused(k, plan[k])
  /\ plan' = [plan EXCEPT ![k] = "none"]
  /\ UNCHANGED <<chargeVars, ad, clockVars, editVars, bankVars, peak>>

CronAbort ==
  /\ plan' = [k \in Campaigns |-> "none"]
  /\ UNCHANGED <<chargeVars, campaign, ad, clockVars, editVars, bankVars, peak>>

NewDay ==
  /\ day < LastDay
  /\ day' = day + 1
  /\ midnight' = TRUE
  /\ UNCHANGED <<chargeVars, campaign, ad, plan, editVars, bankVars, peak>>

\* Events that began yesterday may still pause a campaign after this.
ResumeMidnight ==
  /\ midnight
  /\ midnight' = FALSE
  /\ campaign' = [k \in Campaigns |->
       IF campaign[k].status = "PAUSED" /\ campaign[k].reason = "DAILY_BUDGET"
       THEN [campaign[k] EXCEPT !.status = "ACTIVE", !.reason = "none"]
       ELSE campaign[k]]
  /\ UNCHANGED <<chargeVars, ad, day, plan, editVars, bankVars, peak>>

(***************************************************************************)
(* Campaigns.  updateCampaign writes whatever it is given; only the        *)
(* owner's activation and the owner's budget are checked, one await before *)
(* the write.  A request that changes several fields is several requests   *)
(* here.                                                                   *)
(***************************************************************************)
Peaks(k, b) == peak' = [peak EXCEPT ![k] = IF b > @ THEN b ELSE @]

CreateCampaign(k, b, d) ==
  /\ campaign[k].status = "none"
  /\ d <= b
  /\ campaign' = [campaign EXCEPT ![k].status = "DRAFT", ![k].budget = b, ![k].daily = d]
  /\ Peaks(k, b)
  /\ UNCHANGED <<chargeVars, ad, clockVars, plan, editVars, bankVars>>

ReasonFor(k, s) ==
  CASE s = "PAUSED" -> "MANUAL" [] s = "ACTIVE" -> "none" [] OTHER -> campaign[k].reason

UpdateStatus(k, s) ==
  /\ campaign[k].status # "none"
  /\ campaign' = [campaign EXCEPT ![k].status = s, ![k].reason = ReasonFor(k, s)]
  /\ UNCHANGED <<chargeVars, ad, clockVars, plan, editVars, bankVars, peak>>

SetsBudget(k, b) ==
  /\ campaign' = [campaign EXCEPT ![k].budget = b]
  /\ Peaks(k, b)

UpdateBudget(k, b) ==
  /\ campaign[k].status # "none"
  /\ SetsBudget(k, b)
  /\ UNCHANGED <<chargeVars, ad, clockVars, plan, editVars, bankVars>>

UpdateDaily(k, d) ==
  /\ campaign[k].status # "none"
  /\ campaign' = [campaign EXCEPT ![k].daily = d]
  /\ UNCHANGED <<chargeVars, ad, clockVars, plan, editVars, bankVars, peak>>

AssertWalletForActivation(k) ==
  /\ campaign[k].status # "none"
  /\ campaign[k].cost > 0
  /\ wallet[campaign[k].owner] >= campaign[k].cost
  /\ \E a \in AdsOf(k) : ad[a].status = "APPROVED"
  /\ activating' = activating \union {k}
  /\ UNCHANGED <<chargeVars, campaign, ad, clockVars, plan, rebudget, reviewing, resubmitting,
                 bankVars, peak>>

OwnerActivate(k) ==
  /\ k \in activating
  /\ campaign' = [campaign EXCEPT ![k].status = "ACTIVE", ![k].reason = "none"]
  /\ activating' = activating \ {k}
  /\ UNCHANGED <<chargeVars, ad, clockVars, plan, rebudget, reviewing, resubmitting,
                 bankVars, peak>>

AssertBudgetIncrease(k, b) ==
  /\ campaign[k].status # "none"
  /\ rebudget[k] = 0
  /\ b >= campaign[k].spent
  /\ rebudget' = [rebudget EXCEPT ![k] = b]
  /\ UNCHANGED <<chargeVars, campaign, ad, clockVars, plan, activating, reviewing, resubmitting,
                 bankVars, peak>>

OwnerBudget(k) ==
  /\ rebudget[k] # 0
  /\ SetsBudget(k, rebudget[k])
  /\ rebudget' = [rebudget EXCEPT ![k] = 0]
  /\ UNCHANGED <<chargeVars, ad, clockVars, plan, activating, reviewing, resubmitting, bankVars>>

(***************************************************************************)
(* Ads.  deleteAd is the admin's; the owner's deleteMyAd only asks for     *)
(* more before it does the same.                                           *)
(***************************************************************************)
SetsAd(a, s) == ad' = [ad EXCEPT ![a].status = IF @ \in NoRow THEN @ ELSE s]

CreateAd(a) ==
  /\ ad[a].status = "none"
  /\ campaign[ad[a].campaign].status # "none"
  /\ ad' = [ad EXCEPT ![a].status = "PENDING_REVIEW"]
  /\ UNCHANGED <<chargeVars, campaign, clockVars, plan, editVars, bankVars, peak>>

ReviewRead(a) ==
  /\ ad[a].status = "PENDING_REVIEW"
  /\ reviewing' = reviewing \union {a}
  /\ UNCHANGED <<chargeVars, campaign, ad, clockVars, plan, activating, rebudget, resubmitting,
                 bankVars, peak>>

ReviewWrite(a) ==
  /\ a \in reviewing
  /\ \E s \in {"APPROVED", "REJECTED"} : SetsAd(a, s)
  /\ reviewing' = reviewing \ {a}
  /\ UNCHANGED <<chargeVars, campaign, clockVars, plan, activating, rebudget, resubmitting,
                 bankVars, peak>>

UpdateMyAdRead(a) ==
  /\ ad[a].status = "REJECTED"
  /\ resubmitting' = resubmitting \union {a}
  /\ UNCHANGED <<chargeVars, campaign, ad, clockVars, plan, activating, rebudget, reviewing,
                 bankVars, peak>>

UpdateMyAdWrite(a) ==
  /\ a \in resubmitting
  /\ SetsAd(a, "PENDING_REVIEW")
  /\ resubmitting' = resubmitting \ {a}
  /\ UNCHANGED <<chargeVars, campaign, clockVars, plan, activating, rebudget, reviewing,
                 bankVars, peak>>

UpdateAd(a, s) ==
  /\ ad[a].status \notin NoRow
  /\ ad' = [ad EXCEPT ![a].status = s]
  /\ UNCHANGED <<chargeVars, campaign, clockVars, plan, editVars, bankVars, peak>>

DeleteAd(a) ==
  /\ ad[a].status \notin NoRow
  /\ ad' = [ad EXCEPT ![a].status = "deleted"]
  /\ UNCHANGED <<chargeVars, campaign, clockVars, plan, editVars, bankVars, peak>>

(***************************************************************************)
(* What Payments does to the wallet.  It credits any amount and debits no  *)
(* more than is there; but a payout takes first and looks at the balance   *)
(* afterwards, to give back what it should not have taken.  A payout that  *)
(* dies in between stays taken.  Amounts are moved unit by unit here.      *)
(***************************************************************************)
Moves(u, n) ==
  /\ wallet' = [wallet EXCEPT ![u] = @ + n]
  /\ deposited' = [deposited EXCEPT ![u] = @ + n]
  /\ UNCHANGED <<dailySpend, charge, campaign, ad, clockVars, plan, editVars, peak>>

WalletCredit(u) ==
  /\ deposited[u] < MaxDeposit
  /\ Moves(u, 1)
  /\ UNCHANGED <<taken, short>>

\* Mutant: a plain decrement.
WalletDebit_Unguarded(u) ==
  /\ Moves(u, -1)
  /\ UNCHANGED <<taken, short>>

WalletDebit(u) ==
  /\ wallet[u] >= 1
  /\ Moves(u, -1)
  /\ UNCHANGED <<taken, short>>

PayoutTake(u) ==
  /\ taken[u] + short[u] < MaxPayout
  /\ Moves(u, -1)
  /\ taken' = [taken EXCEPT ![u] = @ + 1]
  /\ UNCHANGED short

PayoutCheck(u) ==
  /\ taken[u] > 0
  /\ taken' = [taken EXCEPT ![u] = @ - 1]
  /\ short' = [short EXCEPT ![u] = IF wallet[u] < 0 THEN @ + 1 ELSE @]
  /\ UNCHANGED <<chargeVars, campaign, ad, clockVars, plan, editVars, deposited, peak>>

PayoutUndo(u) ==
  /\ short[u] > 0
  /\ Moves(u, 1)
  /\ short' = [short EXCEPT ![u] = @ - 1]
  /\ UNCHANGED taken

-------------------------------------------------------------------------------

ChargeStep(e) ==
  \/ \E a \in Ads : Record(e, a)
  \/ Begin(e)
  \/ ReadCampaign(e)
  \/ ReadDaily(e)
  \/ Commit(e)
  \/ PauseCampaign(e)
  \/ ChargeAbort(e)

CampaignStep(k) ==
  \/ \E b \in Budgets, d \in 0..MaxBudget : CreateCampaign(k, b, d)
  \/ \E s \in CampaignStatus \ {"none"} : UpdateStatus(k, s)
  \/ \E b \in Budgets : UpdateBudget(k, b) \/ AssertBudgetIncrease(k, b)
  \/ \E d \in 0..MaxBudget : UpdateDaily(k, d)
  \/ AssertWalletForActivation(k)
  \/ OwnerActivate(k)
  \/ OwnerBudget(k)
  \/ CronWrite(k)

AdStep(a) ==
  \/ CreateAd(a)
  \/ ReviewRead(a)
  \/ ReviewWrite(a)
  \/ UpdateMyAdRead(a)
  \/ UpdateMyAdWrite(a)
  \/ \E s \in AdStatusesByHand : UpdateAd(a, s)
  \/ DeleteAd(a)

ClockStep == CronRead \/ CronAbort \/ NewDay \/ ResumeMidnight

PaymentsStep(u) ==
  WalletCredit(u) \/ WalletDebit(u) \/ PayoutTake(u) \/ PayoutCheck(u) \/ PayoutUndo(u)

Next ==
  \/ \E e \in Events : ChargeStep(e)
  \/ \E k \in Campaigns : CampaignStep(k)
  \/ \E a \in Ads : AdStep(a)
  \/ ClockStep
  \/ \E u \in Users : PaymentsStep(u)

Spec == Init /\ [][Next]_vars

(***************************************************************************)
(* The hourly job runs every hour, and its process does not die in the     *)
(* middle of it every time.  Nothing else has to happen.                   *)
(***************************************************************************)
FairSpec ==
  /\ Spec
  /\ WF_vars(CronRead)
  /\ \A k \in Campaigns : SF_vars(CronWrite(k))

\* Charges that passed the first checks and have not written yet.
InFlight(e)   == charge[e].pc \in {"daily", "commit"}
ChargingTo(u) == {e \in Events : InFlight(e) /\ campaign[CampaignOf(e)].owner = u}
ChargingOn(k) == {e \in Events : InFlight(e) /\ CampaignOf(e) = k}

\* What payouts have taken from a wallet without having found it there.
Unsettled(u) == taken[u] + short[u]

\* A wallet is overdrawn by at most what unsettled payouts took and one charge
\* for each event that may be served at the same time, those still in progress
\* not counted: only charges that pass the check together, or race a
\* withdrawal, overdraw it.
OverdraftBounded ==
  \A u \in Users : wallet[u] + Unsettled(u) + MaxCost * Cardinality(Events \ ChargingTo(u)) >= 0

\* A campaign overspends the highest budget it has had by at most one charge for
\* all but one of the events served at the same time: only charges that pass
\* the check together overspend, never one event after the other.
OverspendBounded ==
  \A k \in Campaigns :
    LET c == campaign[k].cost
    IN campaign[k].spent > 0 =>
         campaign[k].spent + c <= peak[k] + c * Cardinality(Events \ ChargingOn(k))

\* Money as a set: one element per unit of money, so that a sum is a
\* cardinality.  Units(S, f) stands for the amounts f[x] of the elements of S.
Units(S, f) == UNION {{x} \X (1..f[x]) : x \in S}
Total(S, f) == Cardinality(Units(S, f))

CampaignsOf(u) == {k \in Campaigns : campaign[k].owner = u}
Spends         == [k \in Campaigns |-> campaign[k].spent]

\* What a wallet lost to advertising is what its campaigns have spent, and what
\* a campaign has spent is what its days add up to, whichever ads are deleted
\* while they are charged and whenever midnight comes.
SpendReconciles ==
  /\ \A u \in Users : wallet[u] = deposited[u] - Total(CampaignsOf(u), Spends)
  /\ \A k \in Campaigns : campaign[k].spent = Total(Days, dailySpend[k])

\* A campaign that has used up its budget does not stay active, even if no
\* event ever tries to charge it, for the hourly job finds it.  Only campaigns
\* with a daily budget are sure to be looked at.
Exhausted(k) == campaign[k].daily # 0 /\ campaign[k].spent >= campaign[k].budget
ExhaustedStops ==
  \A k \in Campaigns :
    campaign[k].status = "ACTIVE" /\ Exhausted(k)
      ~> ~(campaign[k].status = "ACTIVE" /\ Exhausted(k))
================================================================================

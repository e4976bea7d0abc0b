# Agahiram in TLA+

Agahiram is a classifieds and social platform: a NestJS API over PostgreSQL
(Prisma), Redis, BullMQ and MeiliSearch, with ZarinPal as payment gateway,
LiveKit for calls, a media worker and two Next.js front ends. The API holds the
program's own logic. It is one Node process whose handlers interleave at every
`await`, over a database at PostgreSQL's default isolation (READ COMMITTED), so
the hard part is what happens *between* two statements of one handler.

The modules here model the parts whose mistakes cost most and are hardest to
test: money, calls, signing in, what the search finds, blocks and conversations,
scheduled stories, and the media objects. All paths below are relative to `src/`.

## 1. Inventory

| Component | State | Operations | Talks to | Hard behaviour | Correct means |
|---|---|---|---|---|---|
| Payments, wallet, payouts (`apps/api/src/payments`, money part of `admin/admin.service.ts`) | `Payment`, `Payout`, `User.walletBalance` | initiate, verify (gateway callback), createPayout, markRefunded, approve/reject/markPaid payout, walletCredit/Debit | ZarinPal over HTTP; ads (same wallet) | replayed and racing callbacks, lost gateway answers, a crash between claim and effect, compensation of a payout, stale admin reads | an effect is applied at most once and only for money received; every unit of a balance is explained by a row, the money that is not given back included; statuses only move forward |
| Advertising (`ads`) | `AdCampaign`, `Ad`, `AdDailySpend`, `User.walletBalance`, dedup keys in Redis | impressions, clicks, debit, pause, activation, review, edits, hourly and midnight cron | wallet | concurrent debits, stale snapshots in cron jobs, midnight, edits while ads are charged | spend agrees with what was charged; wallet and budget are exceeded by no more than the charges in flight |
| Calls (`calls`) | `Call` rows, delayed BullMQ job per call, LiveKit room | create, accept, reject, cancel, end, refreshToken, markMissed, webhooks | LiveKit (HTTP and webhooks), BullMQ, messages | two people act at once, the timer races the answer, webhooks lost or late | every call stops ringing, the chat reports what happened |
| Authentication (`auth`, `apps/web/src/lib/api.ts`) | OTP rows, refresh tokens and rate counters in Redis, the browser's cookies | sendOtp, verifyOtp, refreshTokens, revoke, ban | SMS, settings | parallel requests and attempts, parallel refreshes of two tabs, lost answers | attempts are limited, a code signs in once, a session has one live token, logging out lasts |
| Posts and search (`posts`, `search`, moderation in `admin`) | `Post.status`, index documents, saved alerts | create, update, approve, reject, markSold, delete, expire, index and match jobs | MeiliSearch through a queue | an index job overtaken by a later change, calls that fail and are not repeated | the search comes to agree with the table; an alert tells of a post once |
| Users and messages (`users`, `messages`) | follows, requests, blocks; conversations, messages, read marks | follow, unfollow, block, unblock; start, send, fetch | notifications, sockets | a write races a block, two requests open one conversation, a fetch marks more than it returns | what users write across a block is bounded; what is marked read was read, or lost for a named reason |
| Stories: schedule (`stories`, media worker) | `Story`, `StoryPublishSession`, delayed job | create, createBatch, publish by job and by cron | BullMQ | two publishers, later edits of the session, runs that overlap | a due session is published; a story is announced a bounded number of times, and silence has a reason |
| Media objects (`media`, media worker, `story-archive`) | upload rows, `PostMedia`, `Story`, `StoryArchive`, objects | create, edit, optimise, repost, remove, highlight, hourly cleaning | MinIO, BullMQ | an object deleted while another row names it, copy and delete in two statements | a row loses its object only to another row's job, no story goes without its copy |
| Shops and verification (`shops`, `verifications`) | requests, trust score and tier, business flag | submit, approve, reject, expire | payments | two reviewers of one request | score = sum of approved requests |
| Web client (`apps/web`) | call view, offline queue | event handlers | sockets, API | events of an old call | the view follows the current call |
| The rest: notifications, likes and comments, reports, reputation, settings, live, locations, categories, AI, integrations, UI, deployment | | | | reads, appends, single-row edits or external services | |

`PROJECT.json` lists every one of them with its files and its status, and every
hazard at the line where it bites.

## 2. Plan

Order: money, then calls, then the parts where one row is written by several
actors.

1. **Payments**, with **WalletLedger** as what it promises and
   **PaymentsLedger** as the refinement; **Payments_proofs**. *Done.*
2. **Calls**, **Calls_proofs**. *Done.*
3. **AdBilling**, **AdBilling_proofs**. *Done.*
4. **OtpLogin**, with **OneTimeCodes** as what it promises and **OtpCodes** as
   the refinement; **Sessions**; **Auth_proofs** for both. *Done.*
5. **PostIndex**, **PostIndex_proofs**. *Done.*
6. **Social**, **StorySchedule**, **MediaObjects**, each with its proofs. *Done.*
7. Not begun: **Verification** (trust score against approved requests, the
   business flag), **CallClient** (the web client's view composed with Calls),
   **WalletSystem** (Payments and AdBilling composed on one wallet).

Every safety property that a run finds true is a theorem. What is left to state
and prove needs the modules of item 7, first of all that the two halves of the
wallet, Payments and AdBilling, keep their bounds together. Sums are stated as
cardinalities of sets of units (`Units`, in Payments and in AdBilling), not
as folds: what a fold over a set of any size adds up to needs an induction that
takes an operator, which the installed provers cannot instantiate.

## 3. How the code is cut

* One action is what a handler does up to its next `await` on the database,
  Redis, the queue or an HTTP service. A `$transaction` is one action when its
  outcome depends on nothing it read earlier without a guard, otherwise it is
  cut at the read that goes stale. A guarded `updateMany` is one action that
  reads and writes.
* What a handler read and uses later is kept in its slot (`slot`, `verifier`,
  `guess`, `request`, `actor`, ...), so that it may be stale.
* A status `"none"` is a row that does not exist.
* A crash may strike a handler wherever it waits. It loses the slot and keeps
  the database. `MaxFailures` (`MaxLosses` in Sessions) bounds how often.
* Variables called *history* or *ghosts* are not in the program. They remember
  what a property needs and no guard reads them.
* Several properties have the form "this does not happen, except ...". Where
  the code does not keep a simple promise, they say exactly what it does keep:
  a bound by the number of requests in progress at once, or a list of causes,
  each recorded by a ghost at the step that is the cause. If any other step
  could bring the state about, the property would fail.
* Names ending in `_Something` directly before a definition are mutants of it:
  the way a plausible bug would change it. Each property has one that breaks it.
* Every module has a type invariant (`TypeOK`, in Sessions `SessionsTypeOK`).
  Each is a theorem and is therefore not also in a run.
* Runs with `CHECK_DEADLOCK FALSE` are on bounded instances that may come to
  rest: every row has its final status, or a bound of the model is used up and
  nobody is in the middle of anything. The runs on AdBilling check deadlock.

## 4. Payments

`Payments.tla` has the payment rows (`payment`), ZarinPal's own view of each
authority (`gateway`), the callback calls (`verifier`), wallets (`wallet`), the
payout calls with their rows (`payout`) and two kinds of stale view: an admin's
approval between read and write (`approving`) and the payouts page
(`shown`).

| Action | Code |
|---|---|
| InitiateRequest, InitiateCreate | `initiate`: open the authority, then write the row |
| VerifyRead .. VerifyEffect | `verify`: read, ask the gateway, claim with a guarded `updateMany`, apply the effect |
| VerifyAnswerLost, VerifyAbort | the gateway's answer is lost; the process dies |
| MarkRefunded | `markRefunded` (one transaction) |
| PayoutCount, PayoutTake, PayoutCheck, PayoutUndo, PayoutAbort | `createPayout`: count outstanding, decrement and create in a transaction, re-read the balance, compensate |
| ApproveRead, ApproveWrite, RejectPayout, ShowApproved, MarkPayoutPaid | the admin's payout operations and the panel that offers them |
| WalletCredit, WalletDebit | the admin's adjustments |

`initiate` here stands for boosts, business accounts and top-ups. The effects
of the first two are assignments to other tables and are only counted
(`delivered`). The effect of a top-up on the wallet is kept.

Run **payments** (one payment of any purpose with two racing callback calls,
two payouts of the same user, amounts 1, adjustments within 1; 274,000 states):
`DeliveredOnce`, `DeliveredIsPaid`, `OwedIsInFlight`, `StatusSettles`, `Solvent`,
`Balanced`, `ImplementsLedger`. Two calls are enough for every race on one row,
because a claim leaves nothing for a third. Two payouts give the double count,
the overdraft, and the compensation of one while the other is checked. One
payment is enough because payments meet only in the wallet, where a payout or an
adjustment can stand for another.

`WalletLedger.tla` is what a bookkeeper would expect: a balance moves only with
an entry that is posted or voided once, or by an adjustment. `PaymentsLedger.tla`
maps a top-up's entry to the effect having run, its reversal to the refund, a
payout's entry to its row, a voided entry to a row deleted by the compensation.
Every step of Payments is a ledger step or a stutter, which TLC checks as a
`PROPERTY`.

`Balanced` says where every unit is, not that users lose nothing. Two terms of
it are money the code takes and does not give back: payouts that were rejected
(`Rejected`: `rejectPayout` writes the status only), and refunds of top-ups that
were claimed and never credited (`NeverCredited`: `markRefunded` looks at the
status only). See section 12.

## 5. Calls

`Calls.tla` has the rows (`call`), the create request of each call (`creator`),
the waiting timer jobs (`timer`), requests in progress (`slot`, one of them the
timeout queue's single worker), LiveKit's rooms, who is connected and who holds
a token (`room`, `inRoom`, `ticket`), undelivered webhooks (`hooks`) and the
chat messages about each call (`notes`).

| Action | Code |
|---|---|
| CreateCheckCaller .. ScheduleTimer | `create`: two busy checks, `createRoom`, the row, the delayed job |
| Request, Webhook, TimerFires | the read and the status check at the top of accept, reject, cancel, end, the webhooks and `markMissed` |
| AcceptCheck | `assertNotInActiveCall` |
| Write, ClearRingTimer, DeleteRoom, PostCallEventMessage | the shared tail: update by id, clear the job, delete the room, write the chat message |
| RefreshToken | `refreshToken` |
| CreateAbort, Abort | the process dies or a statement throws; a stalled job is delivered again, a job that threw is gone |
| Join, Leave, EmptyTimeout | LiveKit and the people (external) |

Timed waits are abstracted to "at any time". Socket events and pushes change no
state of the server and are left out. The webhook controller answers `ok`
whatever happens, so LiveKit never repeats a webhook.

Runs:

* **calls** (1 call, 2 requests at once and the worker, 1 failure; users and
  requests are symmetric; 1,514,000 states): `RingingIsGuarded`,
  `EndedNoteMeansAnswered`, `RevivalsBounded`, `OrphanIsExplained`. All
  interference goes through one row, so one call with two requests and the timer
  has every pairwise race.
* **calls_live** (1 call, 1 request and the worker, no failure, no symmetry;
  35,000 states): `RingingEnds`, `ActiveEnds`.
* **calls_busy** ends in a violation, see section 12.

The last two say what becomes of writing by id what was read before. A call that
is over may be answered all the same, by a request that read it ringing
(`revivals` counts these); but only requests that were in progress when it stopped
ringing can do it, so there are no more such answers than requests at once. An active call
keeps both its users busy, so one whose room is gone had better be explained:
LiveKit's `room_finished` is still to be heard or is about to end the call, or the
call was brought back after its room was deleted, or the webhook came before the
row was there or its handler died (`unheard`). Each of the four does happen.

Fairness (`FairSpec`): weak for the steps of a request in progress and for
`ScheduleTimer`, since Node goes on with a promise that resolved; weak for
`TimerFires`, since BullMQ delivers a due job to its idle worker; strong for
each webhook, since the server serves any number of requests at once and the
bounded slots of the model must not starve it; weak for `Leave` and
`EmptyTimeout`, since people hang up and LiveKit closes empty rooms. No new
request is ever assumed: nobody has to accept, reject or end. `MaxFailures` is
0 in that run because after a failure both properties are false of the code: a
lost timer leaves a call ringing.

## 6. Advertising

`AdBilling.tla` has the wallets (`wallet`), the campaign and ad rows
(`campaign`, `ad`), `dailySpend`, the clock (`day`, `midnight`), what each event
in progress is doing (`charge`), what the hourly job has read and not written
(`plan`), the edits that are between check and write (`activating`, `rebudget`,
`reviewing`, `resubmitting`), and what payouts have done to the same wallet
(`taken`, `short`).

| Action | Code |
|---|---|
| Record, Begin | `recordImpression` and `recordClick` up to `debit` |
| ReadCampaign, ReadDaily, Commit, PauseCampaign, ChargeAbort | the transaction of `debit` |
| CronRead, CronWrite, CronAbort | `pauseExhaustedCampaigns`: one query, then one update per campaign |
| NewDay, ResumeMidnight | the clock, and `resumeMidnight`, which may be missed |
| CreateCampaign, UpdateStatus, UpdateBudget, UpdateDaily | `createCampaign` and `updateCampaign`, the fields of one request one by one |
| AssertWalletForActivation, OwnerActivate, AssertBudgetIncrease, OwnerBudget | `updateMyCampaign`: the checks, then the write |
| CreateAd, ReviewRead, ReviewWrite, UpdateMyAdRead, UpdateMyAdWrite, UpdateAd, DeleteAd | the operations on ads |
| WalletCredit, WalletDebit | top-ups and the admin's credits and debits on the same wallet, in units of 1 |
| PayoutTake, PayoutCheck, PayoutUndo | `createPayout` on the same wallet: decrement without a guard, read the balance again, give back what was not there |

`debit` runs at READ COMMITTED: each read sees what was committed by then, its
writes appear together, and an increment by id checks nothing again. So its
reads are actions of their own and its writes are one. A campaign's `DRAFT`
also stands for `COMPLETED` and `REJECTED`, an ad's `PAUSED` for `ACTIVE` and
`COMPLETED`. Deduplication and rate limits only drop events, targeting and the
serving order only choose them, so they are left out with the figures nobody
decides by (counters, click rate, `ad.spent`, the `AdPayment` trail). The hourly
query has an alternative `{ budget: { not: undefined } }`, and whether that
matches every campaign or none is left open.

Runs (one user, one campaign, one ad; the events are symmetric):

* **ads_race** (2 events at once, cost and budget up to 1, 2 deposits, a payout
  of 1 at a time, 1 day; 1,395,000 states): `OverdraftBounded`,
  `OverspendBounded`. The wallet may hold one cost, which two events, or an event
  and a payout, both find there; the budget likewise.
* **ads_jobs** (1 event, 1 deposit, a payout of 1 at a time, 2 days, an admin who
  pauses ads by hand, no symmetry; 776,000 states): `SpendReconciles`, over a
  midnight in the middle of a charge and the deletion of its ad, and
  `ExhaustedStops`.

The two bounds are the point of this module. `debit` can overdraw a wallet and
overspend a budget, because it compares in one statement and writes in another.
The properties say by how much: one charge for each event that is served at the
same time, and for the wallet what payouts took and have yet to check or give back
(`Unsettled`), and never more however long the program runs. `Events` is the number
of events served at the same time; the code does not limit it.

Fairness (`FairSpec`): weak for `CronRead`, the scheduler fires every hour;
strong for each `CronWrite`, since the process does not die in the middle of
every job. No event, owner or admin has to do anything.

## 7. Signing in

`OtpLogin.tla` has the rate counter and whether it has a time to live (`rate`,
`ttl`), the codes' rows (`created`, `live`, `expired`, `attempts`), the requests
for a code (`sender`) and the attempts in progress (`guess`) for one phone.
Codes are numbered in the order of their creation, so the row `findFirst`
selects is the live one with the largest number.

| Action | Code |
|---|---|
| SendCount, SendExpire, SendClear, SendCreate | `sendOtp`: INCR, EXPIRE, delete the old codes, create the new one |
| SendDies, VerifyDies | the process dies, or a call throws |
| WindowEnds, CodeExpires | Redis drops the counter; a code's time is over |
| VerifyRead, VerifyExpired, VerifyWrong, VerifyRight | `verifyOtp`: the row with its two checks, then either the count of a wrong code or the deletion of a used one |

Run **otp** (2 requests and 2 attempts at once, a limit of 1 wrong code, 2 codes,
1 failure; 746,000 states): `GuessesBounded`, `CodeUsedOnce`, `LiveCodesBounded`,
`TimeToLiveIsOwed`, `RateClears`, `ImplementsCodes`.
Two at once is the first number at which a check and its count can be crossed,
and the bounds are stated in the number at once, so a larger instance has the
same cases. Fairness (`FairSpec`): weak for `WindowEnds`, Redis drops keys whose
time is over; weak for `SendExpire`, a request that has counted goes on. A
request that dies in just that place leaves a counter without a time to live,
and the phone is refused for ever; `RateClears` names that exception (`stuck`),
and `TimeToLiveIsOwed` is its safety half: a counter without a time to live has
exactly one request that is about to set it, or lost it to a death, never both.

`OneTimeCodes.tla` is what a user expects of the codes, without requests, counters
or crashes: a code is good from its issue until it is used or withdrawn, never
again after that, signs in at most once and only while it is good, and is
compared with a limited number of wrong codes. `OtpCodes.tla` maps it to the code:
good are the codes whose row exists, spent those whose row an attempt has deleted
itself. A request that deletes the old rows, or an attempt that finds its row
expired, withdraws; the attempt that deletes its row signs in; everything else
compares or leaves the codes alone. That the refinement holds says more than the
three bounds: no step does two of these at once, and no row comes back. How many
codes may be good at once is the number of requests at once, and how many
guesses one takes includes attempts that overlap or die; the code keeps no
smaller promise.

`Sessions.tla` has the refresh tokens in Redis (`stored`, with the login each
descends from), the browser's cookie (`jar`), what each tab is waiting for
(`tab`) and the ban.

| Action | Code |
|---|---|
| Refresh, Logout | `api.ts` sends the cookie of the moment; one refresh per tab |
| Login, Check, Issue | `verifyOtp` after its code was accepted: ban check, `issueTokens` |
| RefreshGet, RefreshDel, Check, Issue | `refreshTokens`: look the token up, delete it, check the ban, issue another |
| Answer | the controller's cookies reach the browser |
| Revoke, Clear | `revoke` and clearing the cookies |
| RequestLost, TokenEnds | the request or its answer is lost; the token's time is over |
| SetBanned | `banUser`, `unbanUser` |

Run **sessions** (2 tabs, 2 logins, 3 tokens, a ban and its end, 1 loss; 675,000
states): `OneLiveToken`, `LogoutSticks`, `RefusalIsExplained`. Three tokens are
a login and two rotations, or two logins and a rotation; two tabs give the
overlap. The interesting exception is `"overlap"`: the tabs share a cookie but
not the promise that makes a tab refresh once, so two tabs may both get past the
look-up, and the session then has two tokens, of which logging out revokes one.
Safety only: nothing obliges a browser to send anything.

## 8. Posts and search

`PostIndex.tla` has the rows of one owner (`post`, `private`), the search
engine's documents (`index`), the two queues and their workers (`jobs`,
`indexer`, `matches`, `matcher`), what each request still has to tell the search
(`slot`), and saved alerts (`alert`, `marked`, `told`).

| Action | Code |
|---|---|
| Create, Update | `posts.service` `create` and `update` |
| Approve, AdminUpdate, Withdraw | `approve`, `bulkApprove`, `updatePost`; `markSold`, `delete`, `reject`, `deletePost`, `forceExpire`, `resolveReport` |
| SetPrivate, ReindexAll | `updateProfile` and `reindexAll` |
| QueueIndex, DeleteDocument, TellFails | the job or the deletion that follows a row, or its failure |
| IndexRead, IndexWrite, IndexFails | `indexPost`, before and after its read of the row |
| CreateAlert, DeactivateAlert, MatchRead, MatchMark, MatchTell, MatchFails | the alerts and the job that matches them |

No handler looks at the status it overwrites, so rejected, sold, expired and
deleted are one status, `withdrawn`. Which documents match a query is
abstracted to whether a document can be found at all (`Findable`).

Run **index** (2 posts, 2 requests at once, a reindexing limit of 1 in place of
500, 3 changes, 1 failure, 1 alert): `StaleIsExplained`, `AlertedOnce`,
`IndexSettles`. Two posts make one too many for the limit. Three changes are an
approval, something that races it, and something that comes after.

Fairness (`FairSpec`): weak for `QueueIndex` and `DeleteDocument`, a request goes
on; strong for `IndexRead`, since the queue is first-in first-out and no job
waits behind others for ever; weak for `IndexWrite`. No request is assumed.

The three exceptions are in the code: a deletion that fails is not repeated and
an index job has one attempt (`lost`); a deletion next to a running index job, or
next to a new approval, may be undone or undo it (`raced`); posts beyond the
first 500 keep the old privacy (`skipped`).

## 9. Follows, blocks and messages

`Social.tla` has two users' follows, requests, blocks and conversations,
their messages with `isRead`, the calls made in a conversation (`calls`), and
requests cut between statements (`request`).

| Action | Code |
|---|---|
| Follow, FollowTarget, FollowWrite, FollowAsk, Unfollow | `follow`: block check, target's privacy, the row or the request; `unfollow` |
| Block, Sever, Unblock | `blockUser` writes the block, then deletes the follows; `unblockUser` and the admin's removal |
| Open, Find, Make | `startWithUser` and `getOrCreateConversation`: check, look, create |
| Send, Write | `send` |
| Call, CallRefused, CallWrite | `create` of a call: the block check, the other is busy or LiveKit fails, the row |
| PostCallEventMessage | the message that `reject`, `end`, the webhooks and the ring timeout post in the conversation of a call, with no look at blocks |
| Fetch, Mark, Answer | `getMessages`: the page, the mark, the answer |
| RequestFails | the request fails where it waits |

Run **social** (2 users, 2 requests at once, pages of 1 message, 2 messages, 5
requests, 1 failure; users and requests symmetric): `CrossingBounded`,
`BlockSevers`, `ConversationsBounded`, `ReadIsExplained`. Two messages are more
than a page; five requests reach a second conversation, messages in it and a
fetch, or a block, its failure and a follow. Safety only.

`CrossingBounded` counts what users write: follows, requests to follow, messages
and calls. The messages about calls are in the model, and are not counted: nothing
bounds them but the number of calls, since a block ends no call. For who reads
what (`ReadIsExplained`) they are messages like any other.

## 10. Scheduled stories

`StorySchedule.tla` has the clock (`now`), story rows (`row`), sessions
(`session`), the `create` and `createBatch` calls in progress (`request`), delayed
jobs (`timer`), the media worker (`worker`) and runs of the API's cron (`cron`).
The history is what was announced (`told`), by its own request (`own`), and which
sessions were published by somebody who then announced nothing (`quiet`).

| Action | Code |
|---|---|
| CreateStart | `create` up to `ensurePublishSession`: a session it names is published at once |
| BatchStart | `createBatch` up to its own `ensurePublishSession`: `scheduledAt` is written, and `publishedAt` if that has passed |
| Ensure, Insert, Tell | `create` of each story: `ensurePublishSession` under the clock as it is then (:231), the row, and, after the stickers, the announcement under the clock read again (:196) |
| BatchEnd, RequestFails | the delayed job and the answer; a statement that throws or a process that dies anywhere before |
| Remove, Tick | removal by the owner, the admin or the cleaning; time |
| WorkerRead, WorkerPublish, WorkerFails | the media worker's scheduled job |
| CronFind, CronFirsts, CronPublish, CronTell, CronFails | `publishScheduledStories`: the sessions, their first stories, and for each the update and the announcement |

The media worker takes one scheduled job at a time here. Announcements are
counted, not delivered. Stickers, the media job and the index are not in the
model; that they may throw is (`RequestFails`).

Run **schedule** (1 session, 2 stories, 2 requests at once and 2 in all, 2
overlapping cron runs, 2 instants, 1 failure; 1.03 million states):
`SilenceIsExplained`, `AnnouncedBounded`, `DueIsPublished`. Two stories are two of
a batch, or one of a batch and one created in its session meanwhile. Two instants
let the time come between any two steps of a request, and a request may name a
later one, which never comes. Sessions share nothing but the worker. Ids of stories
and slots of requests that are not in use are alike, so a new one is always the
first free one. Fairness:
weak for each run of the cron, which runs every minute; the delayed job and the
requests are not relied on, and `DueIsPublished` holds without them.

## 11. Media objects

`MediaObjects.tla` has the keys that have an object (`objects`; a key is an
upload and a generation), which medium's job deleted which key (`dropped`,
history), the post's media rows (`medium`), the worker's jobs and slots (`jobs`,
`worker`), stories and their archive (`story`, `archive`), and
actors cut between statements: runs of the hourly cleaning, and requests
(`actor`).

| Action | Code |
|---|---|
| Upload | presign, store, confirm |
| CreatePost, OpenEditor, SaveEditor, RecreateMedium | `create`, the edit page, `update` |
| WorkerRead, WorkerStore, WorkerPoint, WorkerDrop, WorkerFails | the image and video processors |
| CreateStory, RepostRead, RepostCreate, Expire | stories of an upload, reposts of a post's medium |
| RequestRemove, RequestHighlight | `delete`, `adminForceDelete`; `resolveArchiveIds` |
| CleanFind, CleanNext | `cleanExpired`, the hourly cron |
| Check, Copy, Delete, Count | `archiveFromStory`, the deletion, `safeDeleteMediaIfOrphaned` |

Run **media** (1 upload given to at most 2 rows, 2 media, 2 stories, 1 worker, 1
cleaner, 2 requests, 1 failure): `MissingIsShared`, `RemovedIsArchived`,
`CopiesBounded`, `ExpiredGoes`. Objects of different uploads never meet. Two rows
of one upload are the case that matters: a repost, or an edit that names the upload
again. There the job of one row does take the object of the other, and
`MissingIsShared` says that nothing else does: no medium loses its object to its
own job, and no removal, cleaner or failure takes one away.
Fairness: weak for the cleaner, a cron.

## 12. Where the code and what is said of it differ

**calls_busy** is a run that ends in a violation, and a finding in
`PROJECT.json`: `OneCallPerUser` is false, because two creates check before either
writes.

The following came up while modelling. They are in the models as the code has
them, and no property claims otherwise.

* Two overlapping `createPayout` calls count before either creates its row, and
  both go through (`apps/api/test/payout.spec.ts:88` expects one to be refused
  when it is alone).
* `markPayoutPaid` updates by id: a payout that another admin rejected meanwhile
  is marked paid. No balance moves by it.
* The schema's comment on `Payout` (`schema.prisma:1189`: "Admin approves ->
  balance is debited atomically") and the admin's dialog
  (`apps/admin/src/app/payouts/page.tsx:307`, which says that the amount is deducted
  from the wallet and the request approved) have approval debit the wallet. The
  code debits on request, approval moves nothing, and `rejectPayout`
  (`admin.service.ts:1449`) gives nothing back: the user of a rejected payout
  has lost the amount. `Balanced` has it as a term of its own (`Rejected`).
* A callback that dies between the claim and the effect leaves a top-up successful
  and not credited. If it is then refunded, `markRefunded` takes from the wallet
  what was never put there (`NeverCredited` in `Balanced`).
* A block ends no call, and `postCallEventMessage` (`calls.service.ts:143`) does not
  look at blocks: a call that was made before a block posts its messages across it.
* An accept that read `ringing` overwrites a cancel with `active`.
* `resumeMidnight` activates a campaign whose ads `pauseCampaign` paused; the ads
  stay paused.
* A process that dies between INCR and EXPIRE leaves a phone locked out.
* Rejected and deleted posts leave the index by one call that is not repeated.
  Boosting a post does not reindex it, although its document says so. Posts
  beyond the first 500 keep their old privacy in the index.
* A `FollowRequest` is written, and nothing accepts or deletes it. A `blockUser`
  that is slow to delete the follows also deletes one made after an unblock.
* Fetching a page marks every message of the conversation as read.
* A due session that the media worker publishes is announced to nobody; so is a
  scheduled batch without a session id. `create` into a scheduled session
  publishes it at once, and before it has a story: if the insert or the stickers
  throw, the session is published and nobody is told.
* `create` reads the clock at `stories.service.ts:231` and again at `:196`. If the
  time of a session comes in between, the request announces the story, the session
  stays unpublished, and one run of the cron announces the story again.
* The worker renames a medium's key to one that has no upload record, so an edit
  that sends it back is refused. A repost of a medium that is not optimised yet
  names an object the worker is about to delete.
* `safeDeleteMediaIfOrphaned` counts the archive, and every removed story has been
  archived just before: it never deletes anything while the archive is kept.
* Nothing queues the worker's story clean-up job.

## 13. What is proved

TLAPS checks these for every value of the constants, from the assumptions named
in the modules: finite sets of payments, payouts, campaigns, events, tabs, requests and
runs,
natural bounds, two users in Social, and special values outside the sets they
mark. Each `*_proofs` module extends its component's module. A proof that a step
preserves an invariant is cut into one lemma per action.

* **TypeCorrect**, **CallsTypeCorrect**, **AdTypeCorrect**, **OtpTypeCorrect**,
  **IndexTypeCorrect**, **SocialTypeCorrect**, **ScheduleTypeCorrect**,
  **MediaTypeCorrect**, **SessionsTypeCorrect**: type correctness.

Payments:

* **OwnerInvariant** and from it **DeliversOnce**, **DeliversOnlyPaid**,
  **OwesInFlight**. None of the three is inductive alone: that a second claim
  is impossible depends on which call owns the effect. `OwnerInv` says, payment
  by payment, that a row that is not settled has delivered nothing and has no
  owner, and that a settled one either has been delivered or has exactly one
  call at `"effect"`, or lost it to a crash.
* **SettlesForGood**: `StatusSettles`, from `TypeOK` and `OwnerInv`.
* **StaysSolvent**: `Solvent`. The only steps that lower a wallet below what
  rows explain are a payout's decrement, which enters `Unsettled` in the same
  step; the sum over `Unsettled` is a cardinality, and the lemmas say how it
  changes when a payout enters or leaves.
* **StaysBalanced**: `Balanced`, the books with what is not given back as terms of
  their own; it follows by `TotalSplits` from the plain books of each user
  (`Books`), which are inductive. A step either enters one
  top-up in `Credited` or in `Reversed`, enters a payout in `Withdrawn` or takes
  one out, or adjusts a balance, and `BooksMove` says that the balance follows.
  It needs `OwnerInv` (an effect runs for a payment not delivered yet) and
  `PayoutsWritten`: a payout has no row before its money is taken, and has one
  until its call is through with it, so that the compensation never gives money
  back for a row that is gone.
* **Implements**: `ImplementsLedger`, the refinement, from the same two
  invariants. Every entry of the ledger is a top-up, a reversal or a withdrawal
  (`EveryEntry`); `PostedThen` says which entries are posted after a step, and one
  lemma for each of the three groups of actions names the step of WalletLedger
  that it is: `Post`, `Void`, `Adjust` or none.

Calls:

* **RingingGuarded**: `RingingIsGuarded`, by `IInv` = `TypeOK` and three facts
  about rows that do not exist yet, slots whose call exists, and calls whose
  status was written: no operation but the first on its row can clear the timer
  while the row still says `ringing`.
* **EndedWasAnswered**: `EndedNoteMeansAnswered`, by `NoteInv`: a call that is
  or was read as active is in `answered`, so a stale `saw` still tells the
  truth about the past.
* **FewRevivals**, **OrphansExplained**: `RevivalsBounded` and
  `OrphanIsExplained`, by `CameBackInv`. It counts a call's revivals together
  with the requests about to answer it (`RevivalsCounted`): a step that adds to the
  first takes one from the second, and while the call rings nothing has been
  revived. `ClosedIsExplained` is `OrphanIsExplained` for every call that is not
  over, since the row may be written after its room was closed. Both need that the
  worker only ever stops a call (`WorkerMisses`).

Advertising:

* **DebitOverdraftsLittle**, **DebitOverspendsLittle**: the two bounds. `IInv`
  adds `SpendInv` (`OverspendBounded`, also for a campaign about to be charged
  for the first time) and that `peak` is not below the budget. Cardinalities are
  compared through finite-set lemmas only: a step either leaves a wallet as well
  off as it was, what payouts took counted, and its charges no more (it *eases*
  it), enters a charge that the wallet still covers (*covers*), or takes one charge
  out and pays it (*pays*),
  and each of the three keeps the bound. Campaigns go the same way.
* **SpendAlwaysReconciles**: `SpendReconciles`, with `DayFixed`: a charge past the
  start of its transaction has a day. Only `Commit` spends (`OthersSpendNothing`),
  and it adds the same units to one campaign of its owner and to one of its days
  (`TotalGrows`).

Signing in:

* **GuessesLimited**, **SignsInOnce**. `OtpInv` adds that, while a code's row
  exists, every wrong code compared with it was counted, is about to be, or
  belonged to an attempt that died (`CountedWhileLive`), and that it was not used:
  the row is the lock.
* **FewLiveCodes**: a request that creates a code has deleted all others, so it
  moves from one side of the sum to the other.

* **CounterGoesOrStays**: `TimeToLiveIsOwed`, with `CounterInv`: a counter that is
  gone has no time to live left, so the request that finds it at zero is the only
  one to owe one.
* **CodesKeepTheirPromise**: `ImplementsCodes`, the refinement. One lemma for each
  kind of step names the step of OneTimeCodes that it is. `Issue` is allowed
  because the request that creates a row is itself counted in `LiveCodesBounded`;
  `Compare` because of `GuessesBounded` in the state after it; `SignIn` because a
  row that is still there was not used.
* **OneTokenPerSession**, **LogoutLasts**, **RefusalsExplained**: the three
  invariants of Sessions, none of them inductive. `SessionsInv` says of each
  session what its tabs, its good tokens and the cookie are to one another, in
  four parts. `Shape`: what a request has in hand depends on how far it came, and
  is of one session. `OneByOne`: as long as tabs do not overlap, one request and
  one good token at most, and no good token between the deletion of the old one
  and the issue of the new. `InHand`: if, moreover, no answer was lost, the good
  token is the one the request in progress holds, or the browser's, and a session
  that was left has none. `StillGood`: if nothing at all has happened, the token
  that the browser will show next is good. The last is why a refusal always has a
  reason. Login, logout and every step of a rotation keep the four in turn.

Search:

* **StaleExplained** with `ComingExists`: only posts that exist are ever told to the
  search, so the worker never indexes nothing.
* **AlertsOnce** with `AlertInv`: what the matcher is about to tell has its row,
  and was not told before. There is one matcher, as the processor of these jobs
  (`search-alert.processor.ts:6`) sets no concurrency and so runs one job at a
  time, and that is what makes it true: jobs are repeated and redelivered, and
  the matcher dies, but two matchers at once are not covered.

Follows and messages:

* **FewCross** with `CrossersCounted`: rows that users wrote across the block,
  requests past the check and the one that blocked are together no more than the
  requests at once. Messages about calls are not among those rows.
* **FewConversations** with `MakersCounted`, the same for creations.
* **BlocksSever**, **ReadExplained** from `RequestsOK`, what a request in progress
  refers to. A follow that crosses a block records it at the step that writes it.

Scheduled stories:

* **AnnouncedFew**, **SilenceExplained** from `Tale` and `Duties`. `Tale`: what a
  run is to announce belongs to the session it found (`Faithful`), what was announced
  by a run was published (`ToldIsPublished`), a story not created yet is nobody's to
  announce (`Unborn`), and the announcements of a story and those to come are counted
  against the runs and the one of the request that created it (`TellersCounted`,
  `Own`). `Duties`: a request announces the story it created and nobody else's
  (`Tellers`), and one that still owes an announcement published its session and is
  between that and `Tell` (`Debtors`). So whoever publishes a session either has its
  announcement still to make or is one of the named causes of a silence.

Media objects:

* **StoriesArchived**, **FewCopies** from `ArchiveInv`: an actor that is about to
  delete has a copy or an owner who declined; copies, and actors about to copy, are
  no more than the actors.
* **MissingShared** from `ObjectsInv`: the key of a row, and the raw key of an upload
  in use, has its object or lost it to some medium's job (`RowsBacked`, by `Kept`);
  what the job of a medium deleted is of an earlier generation than what its own row
  names (`DroppedOld`), so it must have been another's; and a worker's key is its
  row's (`WorkersOwn`). The step `Count`, which could delete the object of a removed
  story, deletes nothing, because a request archives a story before it removes it.

Only model-checked:

* The liveness properties `RingingEnds`, `ActiveEnds`, `ExhaustedStops`,
  `RateClears`, `IndexSettles`, `DueIsPublished` and `ExpiredGoes`: liveness under
  fairness and ENABLED are beyond this prover, as are induction over data and
  RECURSIVE operators. No module here has a RECURSIVE operator.

## 14. Not modelled

* Within modelled components: the gateway's development stub
  (`zarinpal.service.ts:41`, `:77`), which answers without a merchant id and is not
  the gateway; the cached check of access tokens
  (`jwt.strategy.ts`), profile completion and admin promotion; the indexes of
  stories, users and categories, ranking and suggestions; editing, deleting and
  reacting to messages; stickers, views, insights and audiences of stories; the
  story job of the media worker; targeting, serving and analytics of ads.
* Components whose turn in the plan has not come: shops and verification, the web
  client's call view.
* Never planned, because it is I/O, presentation, a pure read or a single-row
  edit: SMS, push and notifications, sockets as transport, query building,
  transcoding, AI and map look-ups, likes, saves and comments, reputation, live
  streams, platform settings, locations and categories, the user interfaces except
  where a property is about them, deployment.

# Lotus online auctions: specification and verification

TLA+ models of the backend under `src/app` (FastAPI, SQLAlchemy async,
PostgreSQL), checked with TLC on small instances and, but for liveness, proved
with TLAPS for every value of the parameters. File references are relative to
the repository; `routers/` and `services/` are those of `src/app`.

## 1. The system

Users list lots, bid on them or buy them at a fixed price, and keep a balance.
A lot closes when a timer fires at its deadline: the last bidder pays, the
seller is credited less a commission, everybody is told, and the buyer may
review the seller. Several worker processes may run (`uvicorn --workers N`);
they share one PostgreSQL database and elect one of them to restore the timers.

| Part | State | Operations | Interacts with |
|---|---|---|---|
| Auctions (`routers/auctions.py`) | `auctions` rows | create, PATCH, DELETE, buy now | balances and settlement (buy now), scheduler (arm, cancel) |
| Bids (`routers/bids.py`) | `bids` rows, price and deadline of the lot | place a bid, extend a closing lot | balances (commitments), scheduler (re-arm), notifications |
| Balances (`routers/balance.py`, `services/balance.py`, `services/transactions.py`) | `users.balance`, `transactions` rows | deposit, withdraw, lock users, compute commitments, append a row | every handler that moves money |
| Settlement (`services/auctions.py`) | the rows above | settle a due lot, settle a purchase, warn and announce | called by the timers and by buy now |
| Scheduler (`services/auction_scheduler.py`) | per process: two dicts, lot to asyncio task | arm, cancel, re-arm, wake, restore all | request handlers call it after (buy now: before) their commit |
| Election (`services/scheduler_election.py`, `app_factory.py`) | a session advisory lock, `_leader_connection` | claim, ping, step down, promote, start, stop | restores timers on a claim |
| Email outbox (`services/email_outbox.py`) | `email_outbox` rows, one worker task per process | enqueue, claim with SKIP LOCKED, send, back off, dead-letter | rows are enqueued in the transaction they tell about |
| Notifications (`services/notifications.py`, `routers/notifications.py`) | `notifications` rows, the flags of `users` | tell one user, tell many, read, read all, delete | bids, settlement, scheduler, outbox, WebSockets |
| Subscriptions and settings (`routers/subscriptions.py`, `routers/users.py`) | `seller_subscriptions` rows, the flags of `users` | subscribe, unsubscribe, save settings | decide who is told of a new lot, and by letter or not |
| WebSockets (`services/websocket_manager.py`, `routers/websocket.py`) | per process: buckets of sockets, sockets per IP | connect, disconnect, fan out, ping | bids, settlement, notifications |
| Accounts (`routers/auth.py`, `utils/security.py`) | credentials in `users`, tokens and links at large | register, verify, log in and lock out, reset and change the password | token versions end sessions and sockets; letters go to the outbox |
| Uploads (`routers/uploads.py`) | quota columns and `avatar_url` of `users`, files on disk | upload a photo, replace or delete the avatar | share the row lock of accounts |
| Reviews (`routers/reviews.py`) | `reviews` rows | create, delete | read who won a lot |

What is hard in it:

* **interleaving in the database.** Under READ COMMITTED each handler is a
  sequence of statements. Row locks (`SELECT ... FOR UPDATE`), the order they
  are taken in and whether a locked row refreshes the session's copy decide
  whether two handlers at once do what one after the other would. Several
  handlers read without a lock on purpose (reset throttle, reviews, settings,
  letters), and rely on a unique constraint, or on nothing.
* **interleaving in the process.** A request commits, and reaches the
  scheduler's dicts at a later await. A timer reads the lot, and commits on
  that copy later. A handshake checks its token and registers its socket after
  an await. Cancelling takes effect only at an await.
* **crashes, restarts and elections.** Timers live in memory; the lock lives on
  a connection that can die without the process noticing.
* **several commits in one operation.** A row and its letter, a fan-out and the
  flag that stops the next one, a file and the column that names it.
* **retries.** SMTP may take a letter whose outcome is never recorded.
* **boundaries.** The closing window, the extension cap, two readings of the
  clock in one handler, the rounding of the commission, lockout tiers, the end
  of a quota window.

Properties that make each part correct: nobody leads for more money than they
have; price, bids and type of a lot agree; a sale moves money once, on both
sides, and the transactions explain the balance (auctions, bids, balances,
settlement). Reviews follow sales. Interleaved handlers are still atomic and do
not wait in a circle before they commit (row locks). No open lot is forgotten,
none is settled twice in a process, nobody gets a second warning while he has the
first, and every lot closes (scheduler, election).
Letters go out at least once, again only for a reason, and are retried or given
up on schedule (outbox). Everybody concerned is told once, with the letters
they asked for (notifications, subscriptions, settings). A broadcast reaches
everyone who is there, and nobody who left holds a place (WebSockets). No write
to an account is lost, guesses are spaced, only a present proof changes a
password, and a change ends what the old one opened (accounts). Bytes charged
and files shown add up (uploads).

## 2. The modules

```
Sums  <--  Market  <--  RowLocks                     Scheduler
  ^           ^
  |           +-------  Reviews                      Notifications
  |
  +----------------+
Accounts  <--  Uploads          Letters <.. EmailOutbox          Sockets

<-- EXTENDS; <.. implements (INSTANCE ... WITH)
SumsProofs, MarketProofs (with Reviews), RowLocksProofs, SchedulerProofs,
SocketsProofs, AccountsProofs (with Uploads), EmailOutboxProofs,
NotificationsProofs: proofs
MCMarket, MCReviews, MCRowLocks, MCScheduler, MCEmailOutbox, MCSockets,
MCAccounts, MCNotifications: instances for TLC
```

### Market: what the handlers promise

Each request or settlement is one atomic action on the tables, and a rejected
request is no step. `PlaceBid`, `BuyNow`, `UpdateAuction`, `DeleteAuction`,
`CreateAuction`, `Deposit`, `Withdraw` and `CompleteAuction` are each a guard
(what the handler checks under its locks: `Biddable`, `Buyable`, `Editable`,
`Due`, ...) and an effect (what it commits: `WriteBid`, `WritePurchase`, ...).
The variables are the columns of `users`, `auctions`, `bids` and `transactions`
that the rules are about; `agreed_end` is a history variable, the deadline the
seller asked for without the anti-sniping extensions. Money is in units of the
`Numeric(12, 2)` grid. A handler that reads the clock twice (`t` for the expiry
check, `s` for the extension) does so here, and commits up to `Latency` later.
`Sums` defines the total of a function over `1 .. n` without RECURSIVE, so that
the sums over a user's commitments, and over the uploads charged in a span of
time, can be proved about.

### Reviews: who may speak of a sale

Extends `Market` by the `reviews` table. `create_review` finds the lot won and
not yet reviewed, and `InsertReview` commits later: in between the market moves
on, another request of the same buyer commits, or a review is deleted. Nothing
is locked; the unique constraint is `CommitAllowed`.

### RowLocks: the same handlers, statement by statement

`RowLocks` extends `Market`: its tables are the committed ones, and `session`
adds the requests and timer ticks in flight. A session waits for the lot's row
lock, checks the row it got, locks users in ascending id, queries commitments
without locks, and writes at its commit. A tick carries the copy of the lot it
read before the lock (`row`), because the `SELECT ... FOR UPDATE` in
`complete_auction` has no `populate_existing`, unlike `lock_users_by_id`. With
its money committed a handler goes on to tell (`Tell`): a bid the outbid user
and then the seller, a purchase the seller, a settlement every bidder and the
seller. The foreign keys of a notice share-lock its recipient (`Announce`) and
then its lot (`Refer`) until the commit, which bids and purchases have after
each notice and settlements after the last. `Abort` rolls a session back
anywhere: a client that disconnects, a lost connection, a victim of the deadlock
detector. The abstract specification is `Market`: `AtomicHandlers == Spec` with
the identity mapping, every commit an atomic step and everything else a stutter.

### Scheduler: timers, restarts, the election

Per process: its `tasks` (with `slot` TRUE while the dict maps the lot to the
task), its requests between commit and dicts (`pending`), whether it is up, its
leader connection. Shared: the lots and the holder of the advisory lock. Each
action runs from one await to the next that matters, so a request that commits
and has not yet called `schedule_auction`, and a task that has read a lot and
not yet committed, are states others can interleave with. What goes wrong is a
`Fault` of a named kind, so that each run says which faults it admits. The lots
here are reduced to deadline, flags and the counts `warnings`, `deleted` and
`settled`; money is `Market`'s. `warnings` and `deleted` stand for the rows of
one bidder, as all bidders of a lot are treated alike. A fan-out reads who has no
row (`ReadBidders`, then "telling") and inserts in a later step (`Warn`); a
reader may delete his row at any time (`DeleteWarning`).

### EmailOutbox: rows and workers, and Letters: what they promise

Rows and, per worker, the candidates of its tick (`todo`) and where it stands
with the one it has claimed. Candidates are selected without a lock and claimed
one by one; the outcome of a send is committed in a later step, and may get
lost (`Lose`, `SendMisreported`). `delivered`, `losses` and `seen` are history.
The clock is in minutes and jumps to the next due time, since nothing else
depends on it; the waits are the real schedule.

`Letters` is the abstract specification: no workers, locks, clock or faults. An
owed letter may go out, is marked sent only once it did, is given up only after
`MaxAttempts` refusals, and does not stay owed. `EmailOutbox` instantiates it
with status, attempts and deliveries of each row; `KeepsPromise` is
`Promise!LettersSpec`, progress included.

### Accounts: one row, many requests

The row of one account in `users`, what is at large about it (access tokens,
reset links, open notification sockets, letters), and the requests under way.
`login`, `change_password` and `password_reset_confirm` go from `waits` to
`locked` (`Lock`: `SELECT ... FOR UPDATE`, the copy in `request[r].row`) to a
commit; a rotation is `closed` in between, after it has closed the sockets of
its process and before it commits, as `_invalidate_user_sessions` orders it.
The others read without a lock: `register` and its unique constraint,
`password_reset_request` and its throttle, the handshake of a socket before
`accept()`, and `FreshToken`, which reads the version for the token after the
commit of a login or a registration has let go of the row. A rotation finds only
the sockets that `user_connections` still has: `FanOutUnregisters` is what the
prunes of `Sockets` do to the others, whose handlers run on. Passwords are model
values and a hash is its password; `modern` tells argon2id from the SHA-256 of
old accounts, which a login replaces. `past`, and `late` and `outlived` of a
socket, are history: what was done, to compare with what the tables say.

### Uploads: quota and avatar on the same row

Extends `Accounts`, whose requests they race. An upload is decoded, charged
under the row lock (`Charge`), and written to disk afterwards; the avatar is
removed first (`RemoveOld`), stored, and saved in a second transaction
(`SaveAvatar`). `BreaksOff` is a client or a disk that fails at any of these. A
file has the number of its upload.

### Notifications: who is told what

One auction, the seller's new lots, the bidders and subscribers, their flags,
rows and letters (bags, so that a second copy shows), and the handlers under
way (`job`). `notify_user` is `CommitRow` and then `CommitLetter` in a second
transaction; `notify_many` is one (`CommitBatch`); a warning looks for whom it has
warned, writes, and sets `ending_soon_notified` in a later commit. A timer that
is due reads the auction (`WakeToSettle`) and settles by that copy, so a second
one may settle what has ended since (`past.late`). A recipient
copied earlier in the session carries its flags (`off`) with it. Readers read
and delete rows, subscribe and unsubscribe, and save settings by an UPDATE of
the columns that differ from their copy. `BreaksOff` ends a handler anywhere.

### Sockets: buckets, fan-outs, slots

`services/websocket_manager.py` and its two endpoints, in one process. Code runs
undisturbed from one `await` to the next, so `Disconnect` is one step, the
endpoint takes its slot in one step and registers after the `await` of
`accept()` in another (`Accept`, or `AcceptFails`), and a fan-out is a step per
recipient, between which sockets come and go. A bucket is a Python list that a
fan-out still refers to after the dict has dropped it, and the prune at the end
tests that list but pops by key. So buckets have identities: `registry` maps a
key to an index of `buckets`, and `fan` keeps the index it began with beside its
`snapshot`. `held` is the count of slots per address, `healthy` says whether the
peer takes a message within the deadline, `heard` is history. `Disconnect` is
also what any other error in the loop does, so it may befall a healthy socket.
`PingFails` is the `break` that skips `disconnect`. A password rotation closes a
user's socket and takes it off the dict (`CloseByRotation`,
`UnregisterByRotation`) while its handler, in "closing", has yet to notice.

### Definitions marked "mutant"

Next to some definitions stands a plausible mistake in them (a dropped guard, a
row lock not taken, an off-by-one). No action uses it; replacing the real
definition by it makes the property named in `PROJECT.json` fail, which shows
that the property looks at that code.


## 3. The runs

`tlc -config <cfg> <module>`. States are distinct states.

| Run | Instance | Shows |
|---|---|---|
| `market_lots` (411 thousand states) | 2 lots of one seller, 2 bidders, 2 extensions, commits up to 1 tick late, PATCH and DELETE, 2 requests for reviews | `TypeOK`, `BidsAscendToPrice`, `LifetimeBounded`, `ReviewsFollowSales`, `DeadlineNeverRecedes`, `FinishedIsFinal` |
| `market_money` (196 thousand) | 2 lots, 2 users who sell, bid and buy, 1 who bids and buys; deposits and withdrawals | `Solvent`, `RowsMatchSale`, `SoldMeansPaid`, `RunningBalance` |
| `locks_handlers` (302 thousand) | 2 sessions, a bid lot and a BIN lot, every kind of request and one timer per lot | `SessionOK`, `HandlersNeverCycle`, `AtomicHandlers` |
| `timers_tasks` (31 thousand) | 1 process that fails anywhere, a reader who deletes a warning | `TypeOK` (every sleeping task can be reached through the dicts), `FiresOnce` |
| `timers_cluster` (244 thousand) | 2 processes; the leader stops, or loses its connection or its ping | `EveryOpenLotIsWatched`, `LeaderHasLock`, `EveryLotCloses` |
| `outbox_workers` (152 thousand) | 2 workers, 2 letters, 2 lost outcomes | `TypeOK`, `NoNeedlessDuplicates`, `BackoffUnlessRaced`, `KeepsPromise` |
| `sockets` (369 thousand) | 3 sockets of one address on a lot and a user, 2 fan-outs | `TypeOK` (no empty buckets stay), `SlotsMatchSockets`, `EveryoneHears`, `LostOnlyToOldFanOut` |
| `accounts` (1.17 million) | 2 requests at once on one account, new or from before the migrations | `TypeOK`, `NothingLost`, `FailuresAreSpaced`, `RotationsAreProved`, `ResetLettersSpaced`, `RotationEndsSockets`, `WindowAddsUp`, `AvatarMatchesDisk` |
| `notifications` (476 thousand) | a seller and 2 others, 2 handlers at once | `TypeOK`, `LettersComeWithRows`, `ToldOnce`, `NobodyMissed`, `SettingsTakeHold` |

The remaining runs end in a violation: they state what the repository says of
itself, and TLC shows the code do otherwise.

| Run | Says | Does |
|---|---|---|
| `locks_two_timers` | `services/auctions.py:280`: FOR UPDATE keeps a duplicate tick from settling twice | the second tick checks the copy it read before the lock and pays again |
| `timers_stranded` | `README.md:68`: every active lot has a timer, restored at start | a restarted follower restores nothing, and the leader never had the lot |
| `sockets_leak` | `routers/websocket.py:102-103`: the slot of an address is always released, even on unexpected errors | the slot is taken (62) and `accept` awaited (64) before the `try` (65): one that raises or is cancelled keeps the slot for good |

How the two timers of `locks_two_timers` come about is in `Scheduler`: a
follower that serves a listing or an extending bid arms its own timer, and a
leader keeps its timers when it steps down.

### What the properties allow

Several properties hold only with an exception that the code leaves open, and
name it, so that nothing else can hide behind it:

* `RotationEndsSockets` is about the sockets of the rotation's process, since
  each process knows its own only, and excuses two kinds: a socket accepted after
  the rotation had closed the others and before it committed (`late`), and one
  that a fan-out has taken off `user_connections`, because a send timed out or
  because it popped the key with an outdated list, while its handler runs on
  (`~ registered`). It says nothing of a handshake that checked its token before
  the rotation and is accepted after the commit; that socket, of an old version,
  lives until the next rotation there. The docstring at `routers/auth.py:54-57`
  speaks of every open socket.
* `SlotsMatchSockets` counts the sockets whose `accept` failed among the holders
  of slots: nothing else leaks one (`sockets_leak` shows that this does).
* `FiresOnce` allows a warning for each one deleted; deduplication looks at the
  rows there are.
* `HandlersNeverCycle` allows circles that contain both a handler that tells and
  one that waits for a user's row. Such circles exist. A bid that tells the
  outbid user has his row share-locked and waits for the lot, which he has
  locked to bid again while he waits for his own row; a purchase or a settlement
  can take his place. `services/balance.py:20-22` takes users in ascending order
  to avoid just that, and PostgreSQL aborts one of the two: a notice is lost, or
  a request that has committed nothing. The notices of new lots, and the
  warnings, also tell, and are not in `RowLocks`.
* `ResetLettersSpaced` excuses two requests that read
  `password_reset_sent_at` before either had written it.
* `ToldOnce` lets a warning repeat after its reader deleted it, or when two
  timers had looked for it before either committed (`past.laps`), and a result
  once for every settlement by a timer that had read the lot before it ended
  (`past.late`): the same stale copy as in `locks_two_timers`, here also after a
  purchase.
* `LettersComeWithRows` lets a letter be missing when `notify_user` broke off
  between its two commits (`past.dropped`).
* `SettingsTakeHold` excuses a letter decided on a copy from before the change,
  and two saves of one user that overlap.
* `WindowAddsUp` bounds a span of 24 hours by twice the quota, not once.
* `AvatarMatchesDisk` excuses requests that broke off, and orphans when two
  overlapped.
* `BackoffUnlessRaced` excuses a worker with candidates from before the failure;
  `NoNeedlessDuplicates` a lost outcome; `LostOnlyToOldFanOut` a fan-out with an
  outdated bucket.

### Bounds, and why they are enough

* Two lots are what commitments need: a bid on one lot changes what may be spent
  on the other. Two bidders and a seller give every order of bids, overbids and
  own bids; a third user who both sells and buys adds the row of a user on both
  sides of different sales.
* Two sessions, because every hazard of `RowLocks` is between two: a lost
  update, a stale copy and a cycle of two row locks. Longer cycles need three
  sessions: that they obey the same rule is proved (`NoDeadlockAmongHandlers`).
  In `locks_handlers` either bidder may lead and be outbid, either lot has a
  timer and a buyer, and each pair of users is locked in both orders.
  Two `Requests` on an account and two `Jobs` of notifications for the same
  reason; two requests for reviews meet the unique constraint.
* `Workloads` in `Accounts` and `Notifications` are the pairs (or triples) of
  operations that touch the same columns or rows. A behaviour draws one of them,
  and all its requests are of these kinds, any number of times one after
  another. Kinds that share nothing cannot disturb each other, and every action
  is in some workload.
* A `Horizon` of 1 to 6 ticks, `Window = Extend = 2` (or 1) and `Durations` of 1
  to 4 let a bid fall before, in and after the closing window, extensions reach
  the cap, and the clock pass a deadline while a commit is under way. In
  `Scheduler`, `Window <= Extend < Lead` keeps the order of 2, 2 and 5 minutes.
* Two lockout tiers, after 2 and 3 failures for 1 and 2 ticks: the first one is
  met, waited for and exceeded. A quota of 2 with pictures of 1 and 2 is filled
  in one upload or two, and a window of 2 within a `Horizon` of 2 ends.
* `MaxRows`, `MaxFaults`, `MaxDeletions`, `LastDeadline` and `Latency` bound
  deposits and withdrawals, faults, deleted warnings of a lot (one in
  `timers_tasks`, none where no property is about warnings), PATCHed deadlines,
  and the age of a clock reading. None cuts off a settlement or a purchase.
  `MaxVersion`, `MaxFailures`, `MaxLetters`, `MaxSockets`, `MaxUploads` in
  accounts, and `MaxBids`, `MaxLots`, `MaxWarnings`, `MaxSaves`, `MaxSubs` in
  notifications bound how often a client acts, each at 2 or 3: once before and
  once after another.
* Two processes: one holds the lock and one wants it; one closes its sockets and
  one does not.
* `outbox_workers` has two attempts, so both the retry and the dead letter
  happen, and a batch that holds every letter, so both workers hold all of them.
* Deadlock checking is off: every instance stops when its clock and its
  requests are used up. Cyclic waiting is `HandlersNeverCycle`.
* Three sockets and two fan-outs: one socket may go and another come back under
  the same key while a third and a second fan-out keep the bucket moving; two
  slots let the cap be met. `sockets_leak` needs no more than one socket.
* Symmetry: bidders who do not sell, sessions, requests, jobs, passwords,
  processes of an account, sockets and fan-outs, in runs without liveness.

### Fairness

`Scheduler`: `WF(Tick)`, time passes; `WF(Run(w))`, the event loop of a running
process executes its ready tasks, its requests' continuations and its heartbeat
(`_heartbeat_loop` survives every error). No request and no fault is fair, and
neither is `Start`: nothing in the repository restarts a process that stopped.
So `EveryLotCloses` has a hypothesis, that again and again some process is up.
`EmailOutbox`: `WF(Tick)` and `WF(Run(w))`, `_worker_loop` survives every error,
and an SMTP call answers or times out. From that TLC derives the fairness of
`Letters`. The other modules claim no liveness: their requests may always break
off.

`EveryLotCloses` holds for the faults of `timers_cluster`. It excludes a
purchase or settlement that raises, whose lot stays open until the next restart
or promotion (`auction_scheduler.py:159`, and section 5 on `buy_now`), and a
follower's restart: that is `timers_stranded`. It also allows a single fault.
With two, a process whose connection died may reclaim the lock after another
leader came and went, and `_heartbeat_tick` arms nothing then, because it
counts the process as having been leader before.

## 4. The proofs

For all values of the constants that satisfy the assumptions of the module
(positive amounts, a commission of 0 to 100 percent, ascending lockout tiers,
natural bounds; TLC evaluates them in every run). Symmetry, `Workloads` and the
small numbers of the instances play no part in them.

| Module | Theorem | States |
|---|---|---|
| `MarketProofs` | `TypeCorrect` | `Spec => []TypeOK`, balances never negative among it |
| | `BidsAlwaysAscend` | `Spec => []BidsAscendToPrice` |
| | `AlwaysSolvent` | `Spec => []Solvent` |
| | `LeaderAlwaysCanPay` | a lot's last bidder can pay the price at any time, so a settlement never trips the balance CHECK |
| | `LifetimeAlwaysBounded` | `Spec => []LifetimeBounded` |
| | `DeadlinesNeverRecede`, `FinishedStaysFinal` | the two action properties |
| | `LedgerExplainsBalances` | `Spec => []RunningBalance` |
| | `SalesRecordedOnce` | `Spec => []RowsMatchSale` |
| | `WinnersPay` | `Spec => []SoldMeansPaid` |
| | `ReviewsImplementMarket` | `ReviewsSpec => Spec`, so all of the above holds with reviews |
| | `ReviewsAlwaysFollowSales` | `ReviewsSpec => []ReviewsFollowSales` |
| `RowLocksProofs` | `SessionsAlwaysOK` | `LockSpec => []SessionOK`: no balance is written over |
| | `NoDeadlockAmongHandlers` | `LockSpec => []HandlersNeverCycle`, for any number of sessions: a circle takes a notice and a wait for a user |
| | `OnlySettlementsAreLate` | every step is a step of `Market` or none, but for settlements by an outdated copy of the lot |
| | `OneTimerSettlesOpenLots`, `OneTimerKeepsTheBooks` | with one timer per lot at most, such a settlement is still of an open lot, and the invariants of money hold statement by statement |
| | `RowLocksImplementMarket` | `LockSpec => AtomicHandlers`, if `PunctualTimers` |
| `SchedulerProofs` | `TasksAreReachable` | `Spec => []TypeOK`: a sleeping task can be cancelled through the dicts |
| | `OneLeader` | `Spec => []LeaderHasLock` |
| | `SettledOncePerProcess`, `FiresOnceInOneProcess` | a process settles a lot at most once; with one process, `Spec => []FiresOnce`, warnings read and inserted in separate steps |
| | `OpenLotsAreWatched` | `Spec => []EveryOpenLotIsWatched`, if `LeadersFail` |
| `SocketsProofs` | `NobodysKeyIsDropped` | `Spec => []TypeOK`: no empty buckets stay |
| | `SlotsAreGivenBack` | `Spec => []SlotsMatchSockets`: the slots held are those of the sockets in the endpoint and of failed accepts |
| | `FanOutSkipsNobody`, `OnlyOldFanOutsUnregister` | the two action properties `EveryoneHears`, `LostOnlyToOldFanOut` |
| `AccountsProofs` | `AccountsTypeCorrect`, `AccountsLoseNothing`, `AccountsEndSockets` | `Spec => []` of `TypeOK`, `NothingLost`, `RotationEndsSockets` |
| | `AccountsSpaceFailures`, `AccountsProveRotations`, `AccountsSpaceLetters` | the three action properties |
| | `UploadsLoseNothing`, `UploadsKeepSteps` | the same six for `UploadsSpec`, the specification the run `accounts` checks |
| | `AvatarsMatchDisk` | `UploadsSpec => []AvatarMatchesDisk` |
| | `QuotaAddsUp` | `UploadsSpec => []WindowAddsUp` |
| `EmailOutboxProofs` | `OutboxTypeCorrect`, `OutboxSendsOnce`, `OutboxDeadLetters` | `Spec => []` of `TypeOK`, `NoNeedlessDuplicates`, `DeadLetterAtLimit` |
| | `OutboxWaits` | `Spec => BackoffUnlessRaced` |
| | `OutboxImplementsLetters` | every step of the workers is a step of `Letters` or a stutter |
| `NotificationsProofs` | `NotificationsTypeCorrect` | `Spec => []TypeOK`: the badge counts no row that is gone |
| | `LettersAlwaysComeWithRows` | `Spec => []LettersComeWithRows` |
| | `NobodyToldTwice`, `NobodyIsMissed` | `Spec => []` of `ToldOnce`, `NobodyMissed` |
| | `SettingsAlwaysTakeHold` | the action property `SettingsTakeHold` |

`Market`. The inductive invariant is `IInv == TypeOK /\ BlankWhenAbsent /\
BidsAscendToPrice /\ Solvent`. `Solvent` is not inductive alone. A settlement
debits the last *bid*, while commitments count the current *price*, so it needs
`BidsAscendToPrice` (they are equal) and that the bidder is not the seller. A
new listing must not inherit bids: `BlankWhenAbsent`. Then each step is one of
three kinds: it leaves a user's commitments alone and does not lower the
balance; it raises one commitment by what was just checked to be available; or
it removes a lot's commitment and debits exactly that. How a total moves when
one entry changes is `TotalUpdate` in `SumsProofs`. `Total` is a recursive
function; that it exists and what it computes is proved there by least
counterexample, from the well-foundedness of finite sets of naturals under
inclusion. `DeadlinesNeverRecede` needs `Window <= Extend` (`SnipingAssumption`;
both are two minutes in `services/auctions.py`).

The ledger. Again three kinds of steps (`StepKinds`): no money moves, and a lot
that completes has no bids (`Free`); a deposit or withdrawal (`Cash`); the sale
of one open lot by settlement or purchase (`Sale`). `MarketInv` adds that a
listed lot has a seller and an unsold one no winner. That a row is recorded once
follows from `RowsMatchSale` itself: before the sale the lot is open, so no row
is about it, and afterwards what the row tells about is final. The lemmas are
about `Steps`, the market's steps in which a settlement needs an open lot but no
deadline (`SettleOpen`), so that `RowLocks` can use them as well.

`RowLocks`. `LockInv` says of each session what it has checked under its locks,
and that nobody else can undo it before the commit: whoever is past the lot's
lock owns that lock; the balances it copied are the committed ones while it
holds the rows (`SessionOK` is a part of it); what it leads for it can pay. What
it read without a lock may move only in the direction that does no harm: another
lot's bid takes a user's commitment away, and only a session that has locked the
user can add one. So every commit is the atomic action of `Market`, with one
exception: a tick checks the copy of the lot it read before the lock.
`OnlySettlementsAreLate` says that this is the only one. With one timer per lot
a lot that was completed while its tick waited was bought and has no bids
(`TickInv`), and settling it again changes nothing; so a settlement that counts
is of an open lot, and the books balance. Only the deadline may be outdated: a
bid extended it, or a PATCH moved it. Hence the hypothesis of
`RowLocksImplementMarket`: `PunctualTimers == Timers = 0 \/ (Timers = 1 /\
NoExtensions)`. It is what the instance `locks_handlers` satisfies, and weaker
is false: the run `locks_two_timers` is the counterexample for two timers, and
section 5 names the early settlement for one. `NoDeadlockAmongHandlers`: in a
circle, whoever waits for a lot holds nothing, and whoever tells holds only what
its notices refer to (`WhoWaits`). So somebody waits for a user
(`SomebodyWaitsForAUser`), and if nobody tells, he waits for one who holds
lesser users and waits for a greater one still (`WaitsUpward`), which cannot go
on (`NoCircleBeforeCommit`).

`Scheduler`. `TidyInv`: each task is in its slot and a slot holds one. Settling
happens in the one step from a task's read to its commit, and afterwards the
lot is closed, so a process settles it once; another process may have read it
before (`SettledOncePerProcess` gives the bound). With one process only one task
of a lot tells at a time, and while it does the bidder has no row: the count of
warnings is that of deletions (`StepOneFanOut`). What could break it is a second
fan-out that reads before the first inserts, and the dict holds one task per lot
which a re-arming cancels. `OpenLotsAreWatched` rests on `WatchInv`: what
a request owes its process never falls behind the rows (`Owed`), a task past its
commit has closed its lot, and while a leader has lost its connection unnoticed
every lot is watched without it (`Outdated`), since it may take the lock back and
restore nothing. The hypothesis `LeadersFail` names
the faults of `timers_cluster`: leaders stop, connections drop, pings time out,
warnings fail, and a stop together with a drop only if there is one fault at
most. Each of the others strands a lot: a failed settlement or purchase takes
the timer with it, a restarted follower restores nothing (`timers_stranded`),
and two faults let a process take the lock back without restoring.

`Sockets`. `SockInv`: every list of a bucket holds each socket once; an entry of
the dict owns its list and lists exactly sockets of its key; a fan-out's
position is in its snapshot, and whoever it has passed has heard it, is gone or
is not well, for good. A list that the dict has dropped stays dropped, which is
what makes an old fan-out dangerous and the only danger (`LostOnlyToOldFanOut`).
What pruning leaves of a list (`Kept`) is a recursive function, proved as
`Total` is. A rotation unregisters sockets whose handlers run on; the slots do
not depend on that, as only the way out of the loop returns one, and only once
(`ReturnStep`).

`Accounts`. `AccountInv` says of each request what it may rely on: whoever holds
the row lock has the row as it is (`q.row = user`), which is what
`populate_existing` is for; whoever has closed the sockets has proved itself,
and in its process any that is open since is late or not registered. The
account's own part is the properties themselves, and that the lockout set
reaches far enough for every tier reached.

`Uploads`. The number of an upload is its own: nobody else shows, replaces or
writes that file (`WorkGood`), so no request removes what another has just
stored. Until a request breaks off or two overlap, the one request on the avatar
replaces the avatar there is, and no other lies on disk (`Undisturbed`). The
quota: no charge lies after the end of its window, and a span that reaches into
the present window has taken no more than the quota before that window began
(`QuotaGood`). A charge moves a `Total` by its size, or opens a window in which
it is the only one.

`EmailOutbox`. A row is locked by one worker at most and pending as long as it is,
and a delivery is recorded, about to be recorded, or counted as lost. What a
worker has yet to try was due, or has been refused since the worker read its
candidates (`CandidatesKnown`): a refusal sets a row back for everybody who had
it on the list, and by then counts one attempt more than they saw.

`Notifications`. All parts of the invariant rest on `Formed` (what a handler
holds at each step, and that a batch tells nobody the same thing twice, which is
what makes it one row per recipient), and each property has a part of its own.
`Warnings`: the warnings there are of a user, and the timers about to commit
one, are at most one more than the laps; a timer that looks while another has
its batch counts as a lap, so it is the timers together that the invariant
bounds, not each. `Audiences`: whomever a timer found has been warned or is in
its batch, so the flag comes after the rows. `Results`: while the auction is
open there is no result and no settlement; a settlement holds all results in one
batch until its commit, and if each breaks off, none exist for good. `Tellings`:
the results one has, and those in batches, are at most one more than the late
settlements. `NewLots`: a lot that has rows has no handler any more, and until
then one. `Posted`: letters, lost letters and letters under way add up to no
more than the rows, exactly as many for a user who never saved settings. For
that equality, and for `SettingsTakeHold`, `Remembered` is needed: a handler's
copy of the settings is that of the version it read, so a copy that differs is
an old one. Rows only ever move to `past.gone`, so what was created never
decreases (`Created`). How a bag changes by a row is stated once (`PlusBag`,
`MinusBag`, `BagOfSingle`); the sums of the community modules, which take an
operator, are not needed for it.

Only model-checked: what rests on fairness, that is `EveryLotCloses` and the
progress that `KeepsPromise` asks of `Letters`. Liveness and ENABLED are out of
the prover's reach. The hypotheses `LeadersFail`, `PunctualTimers` and, for
`FiresOnce`, a single process are needed: `timers_stranded` and
`locks_two_timers` show what happens without the first two, and several processes
may each settle a lot they read open (`SettledOncePerProcess` is what remains).

## 5. What is not modelled

* Categories, the health check, pages, seed data, request limits, paging,
  configuration, front end, templates, migrations, benchmarks: reads, single
  writes or text, with no rule about them. What a letter says and how SMTP is
  spoken; the outbox sees its outcome.
* Decoding and re-encoding pictures (a picture has a size, after the fact), the
  time a refused login takes on purpose, argon2id, the form of tokens.
* In `RowLocks`: the KEY SHARE lock of a bid on its lot (its session already
  holds the stronger one), pool exhaustion and lock timeouts (`Abort` covers
  their outcome), the notices of new lots and the warnings, the response after
  the commit.
* In `Scheduler`: reading the lot and the first statement of the settlement are
  one step, restoring all timers is one step, `on_promote` does not fail; each
  process has the same clock.
* In `Sockets`: the token check (see `Accounts`), the window of messages per
  socket and the replies, which touch nothing shared.
* In `Accounts`: one account, so nothing about two accounts that want one name
  but the constraint that decides it; a change of the email address does not
  exist in the code.
* In `Notifications`: the WebSocket message after the commit (see `Sockets`).

Other disagreements between comment and code, read while modelling and without
a run of their own.

About lots and money: only deposits compare with `MAX_USER_BALANCE`
(`utils/money.py:11-15` names sale credits too); a PATCH of `starting_price`
alone moves the displayed price of a BIN lot away from `bin_price`
(`routers/auctions.py:564`, against 595-598); `delete_auction` explains why
cancelling timers before a commit that fails would leave the row with nobody to
complete it (`routers/auctions.py:671-674`), and `buy_now` does so (328-335; the
fault "purchase fails" of `Scheduler`); a settlement looks at the copy its tick
read, so one that waited behind an extending bid ends the lot early
(`services/auctions.py:277-278`, 290-293; the same stale copy as
`locks_two_timers`); the INSERT of a notice share-locks its recipient and its lot
in no order with other handlers' and can close a cycle, of two bids among others,
which the ascending order of `services/balance.py:20-22` is there to avoid (see
`HandlersNeverCycle` in section 3).

About telling people: the flag an extending bid resets
(`routers/bids.py:193-195`) never leads to a second warning, as the new deadline
is nearer than the lead; a failed warning is not retried
(`auction_scheduler.py:200-204`); an extending bid cancels a tick that has
settled the lot and not yet announced it (`routers/bids.py:230`); if
`notify_user` fails after a bid is committed, the bidder is answered 500 and the
seller and the broadcast are left out (`routers/bids.py:237`); a tab can miss
messages between its first look and its registration (`routers/websocket.py:6-8`
against `websocket_manager.py:103-104`); five email attempts take 81 minutes,
not seven hours (`email_outbox.py:54-55`); a ping that times out returns the
leader's connection to the pool with its lock (`scheduler_election.py:30-34`).

About accounts: the "rolling 24h" cap (`routers/uploads.py:33`, 43, 147) is a
fixed window, and 24 hours across its end may take twice the cap
(`WindowAddsUp`); the old avatar is gone before the new one is written
(`routers/uploads.py:192`); deleting and posting a review again starts its edit
window anew, against `routers/reviews.py:186-190`; two settings requests at once
may leave a mix of both (`routers/users.py:33`); the `refresh` after a login's
commit (`routers/auth.py:235`) hands a login that was overtaken by a rotation a
token of the new version; a reset link is made from a copy read without a lock
(`routers/auth.py:330`).

## 6. Plan

Done, in this order: `Sums`, `Market` and their proofs; `RowLocks` implementing
`Market`; `Scheduler`; `EmailOutbox` implementing `Letters`; `Sockets`;
`Reviews`; `Accounts`; `Uploads`; `Notifications`; the proofs about reviews, the
ledger, accounts, uploads and the outbox; those about row locks, the scheduler,
sockets, the quota, notifications and the outbox's waits.

Left:

1. Proofs: that the hypotheses of `OpenLotsAreWatched` and `RowLocksImplementMarket`
   can be weakened no further, fault by fault.
2. In `Scheduler`, clocks that differ between processes, and in `Market` a winner
   chosen by a timestamp of the process that took the bid.
3. `Notifications` composed with `EmailOutbox`, so that a letter's promise
   starts at the row it belongs to.
4. In `RowLocks`, the notices of new lots and the warnings, so that every circle
   of notices and handlers is among those `HandlersNeverCycle` counts.

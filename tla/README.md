# Verification of the szu-one-api gateway

One API is a Go service that sells access to many model providers behind one
OpenAI-compatible interface.  A user presents an API key; the gateway reserves
quota points on the owner's account, forwards the request to a channel of some
provider, and settles the account by the usage the answer reports.  This fork
adds a monthly free quota with a grant ledger, an account balance shared by all
keys of a user, and administrator top-ups.

This directory holds TLA+ models of the parts of the service where points are
made, moved and lost, of the way a request finds its channel, and of the pages
of the three web front ends with the service behind them; the TLC
configurations that check the models; and proofs that TLAPS checks.  All paths are relative to the root of the repository
(`src/...`).

## 1. The system

### 1.1 Components

| component | state | operations | what is hard | what must be true |
|---|---|---|---|---|
| batch updater (`model/utils.go`) | four in-memory maps row → delta, one lock each | `addNewRecord`, the updater's round | requests add while the round swaps; an UPDATE fails; the process stops without a flush | no delta is lost silently or applied twice; the database lags but never shows a value that no instant had; it catches up |
| billing of text calls (`relay/controller/helper.go`, `text.go`, `relay/billing`) | per call: the balance it saw, its reservation, its bill | reserve, refuse, refund goroutine, settlement goroutine | every statement can interleave with other calls, top-ups, deletion of the key; statements and Redis commands fail; a restart | a call holds exactly its reservation, then costs exactly its bill; a call always ends |
| balance, keys and cache (`model/token.go`, `user.go`, `cache.go`) | rows of users and keys; Redis copy of balance, key, user status, with expiry | increase, decrease, fill, DECRBY, expire, delete key, top-up | read-then-set races, DECRBY on an expired key, stale copies | the cache never invents quota; it heals |
| monthly quota (`model/monthly_quota.go`) | grant rows (unique per user and month), bills, a timer per master | grant transaction, run over all accounts, scheduler | several masters, registrations and promotions at once; deadlock victims; a disabled account in the middle of a run | at most one grant of a month; bills say what was granted; a run reaches everybody and ends |
| redemption codes (`model/redemption.go`, `controller/redemption.go`) | rows with status and quota | redeem (locks the row), edit (read, then write back), delete | requests race for one code; an edit that read the row before it was redeemed | one payment of a code; it is what the row says |
| user administration (`controller/user.go`, `model/user.go`) | user rows | register, manage, edit, delete, top up | `Update` writes back a row that was read earlier | no lost update of the balance; roles and balances agree |
| authentication (`middleware/auth.go`, `model/cache.go`) | cached key, cached user status, blacklist | accept or refuse | caches outlive the row | a deleted key or a blocked user stops working in bounded time |
| channel routing (`model/channel.go`, `ability.go`, `cache.go`, `middleware/distributor.go`) | channels, abilities, in-memory copy | choose, enable, disable, update, delete, synchronise | statements without a transaction; overlapping changes; the copy lags; an interrupted change keeps the process from starting | abilities follow channels; the copy says what was true since it was read; it converges |
| relay retry (`controller/relay.go`) | loop counter, last failed channel, a goroutine per failed attempt | try, retry, give up | goroutines disable a channel while the loop has moved on | bounded attempts, never twice in a row on one channel; a channel is disabled by its own errors only |
| channel monitor and tests (`monitor/`, `controller/channel-test.go`) | window of results per channel, a list of channels to test | emit, disable, test, enable | unsynchronised windows; a test against a manual disabling | a channel is disabled by its own failures only |
| rate limiter (`common/rate-limit.go`, `middleware/rate-limit.go`) | queues of instants, in memory or in Redis | request, clear | check and push are separate Redis commands | at most N admissions per window |
| image, audio and proxy relay (`relay/controller/`) | reservation per call | as for text, with other shortcuts | deferred charges, rollback without refresh | as for text |
| verification codes (`common/verification.go`) | map address → code, time | register, verify, clean | the map's limit; verify and delete are two calls | an address is given to an account only after a code was mailed to it |
| options (`model/option.go`, `controller/option.go`) | option map per node | list, update, periodic reload | reload races an update; credentials are not listed | a save changes what was edited; nodes converge |
| tables of the front ends (`web/{default,air,berry}`) | rows, page, search, spinner per table | load, page, search, sort, switch, delete | every handler is cut at its awaits; answers come in any order | a row never shows a status it never had; at rest the table is right |
| settings pages | fields, the options as loaded | load, edit, toggle, save a card | submit before the options are there; two administrators; credentials that are not shown | untouched settings stay; no credential is erased |
| account pages | forms, countdowns, the signed-in user | register, reset, bind, redeem, sign in and out, delete | countdowns against slow answers; lost answers | an address shown was proved; what is shown is what the service holds |
| provider adaptors (`relay/adaptor*`) | none | translate | – | – |
| OAuth logins (`controller/auth`) | user rows | bind, log in | – | – |
| logs, dashboards, HTTP surface, editors and layout of the front ends | append-only logs | – | – | – |

### 1.2 How they interact

* A text call passes authentication, the distributor, the retry loop and
  `RelayTextHelper`.  The latter reads the balance through Redis, reserves in
  Redis and then in the database, calls the adaptor, and leaves a goroutine
  behind which settles (`postConsumeQuota`) or refunds
  (`ReturnPreConsumedQuota`).  Both end with a refresh of the cached balance.
* Balance changes go through `IncreaseUserQuota`/`DecreaseUserQuota`, which
  write the row at once or, with `BATCH_UPDATE_ENABLED`, add to the batch
  store.  Redemptions and monthly grants add to the row itself in their own
  transactions, whatever the mode.
* The monthly run, a registration and a promotion execute the same grant
  transaction on any number of nodes; the row of the grant and its unique index
  serialise them.  `ManageUser` writes the same user rows without taking part.
* A request for a model is routed by abilities (without the memory cache) or by
  the copy that `SyncChannelCache` builds from two SELECTs.  The retry loop asks
  the copy again; each failed attempt leaves a goroutine behind which may disable
  the channel, with the same two statements as an administrator's change and as
  the tests.  Nothing but the database orders these changes.
* The database and Redis survive a restart; the goroutines, the batch stores and
  the copy do not.  A process builds the copy before it serves.
* The three front ends are alternatives over the same `/api`.  A page loads rows
  or options once, keeps them, and sends one request per change; it hears of
  nobody else's changes.  Options, verification codes, sessions and the e-mail
  endpoints appear here as the pages meet them.

### 1.3 Hazards

`PROJECT.json` lists the forty places that matter most, with the properties that
cover them or the reason why none does.  The models below are aimed at that list.
Known and not on it, because no module here reaches them:

* `controller/user.go:602`: an administrator demoted to teacher gets the monthly
  quota without a grant row, and the next catch-up grants it again;
* `model/cache.go:108`: the cached status of a user outlives the change of the row;
* `common/rate-limit.go:56`: the in-memory limiter's cleaner deletes a queue that a
  request has just been given;
* `common/verification.go:41`: the map of codes drops entries at its limit;
* `model/option.go:95`: the periodic reload of options races an update;
* `relay/controller/image.go:196`, `audio.go:94`: deferred charges, and a rollback
  without a refresh of the cached balance;
* `monitor/metric.go:12,19`: two goroutines change one channel's window without a
  lock, and the window's success rate is computed from a moving length (the metric is off by
  default);
* `controller/relay.go:98`: the error's message is changed while the goroutine
  started at line 90 reads it.

## 2. The modules

| module | models | extends / instantiates |
|---|---|---|
| `BatchUpdate` | `src/model/utils.go` | |
| `BillingLedger` | the promise to the owner of an account (abstract) | |
| `RelayQuota` | `RelayTextHelper` with everything it calls on the account | `BillingLedger` as a refinement |
| `MonthlyQuota` | `monthly_quota.go`, registration, `ManageUser` | |
| `Redemption` | `redemption.go` of model and controller | |
| `ChannelRouting` | `model/channel.go`, `ability.go`, the channel part of `cache.go` | |
| `RelayRetry` | `distributor.go`, `controller/relay.go`, `monitor/channel.go`, `channel-test.go` | `ChannelRouting` |
| `Browser` | a tab: handlers, requests, answers | |
| `ListServer`; `DefaultLists`, `AirLists`, `BerryLists` | the list endpoints; the fifteen tables | `Browser`; `ListServer` |
| `OptionServer`; `DefaultSettings`, `AirSettings`, `BerrySettings` | the option endpoints and what the pages share; the nine pages | `Browser`; `OptionServer` |
| `AccountServer`; `DefaultAccounts`, `AirAccounts`, `BerryAccounts` | the account endpoints and the mailbox; the account pages | `Browser`; `AccountServer` |
| `BatchUpdate_proofs`, `RelayQuota_proofs`, `MonthlyQuota_proofs`, `Redemption_proofs`, `RelayRetry_proofs`, `MCWebSettings_proofs`, `MCWebAccounts_proofs`, `MCWebLists_proofs` | theorems | their module, `TLAPS` |
| `MCBatchUpdate`, `MCRelayQuota`, `MCMonthlyQuota`, `MCRedemption`, `MCRelayRetry` | constants for TLC | their module |
| `MCWebLists`, `MCWebSettings`, `MCWebAccounts` | all pages of a kind, and their properties | the three modules of the kind |

Operators commented `Faulty:` are plausible bugs.  They are used by no
specification; each shows that a property notices such a change of the code.

### 2.1 BatchUpdate

`store` is `batchUpdateStores`, `taken` the local map that `batchUpdate` swaps
out under the lock, `cursor` its loop variable.  A map entry of 0 and a missing
one have the same effect, so maps are total functions.  `Swap` is the critical
section, `Apply` one iteration of the inner loop, `ApplyFails` the same with an
UPDATE that returns an error (logged, and the loop goes on).  `AdjustUserQuota`,
`RecordUsage` and `CreditRow` are the callers.  `Crash` is a stop of the process;
the code has no flush on shutdown.  The history variables `issued` (what
immediate writes would have given), `cut` (`issued` at the last swap) and `lost`
exist for the properties only.

### 2.2 RelayQuota and BillingLedger

`pc[c]` is where call `c` is; the labels stand for the code as follows.

| label | code | next |
|---|---|---|
| `get` | `CacheGetUserQuota`: GET | `admit` if the cached balance is believed, else `fill` |
| `fill`, `put` | `fetchAndUpdateUserQuota`: SELECT, then SET | `admit` |
| `admit` | `preConsumeQuota`: refuse, trust, or cap the reservation and DECRBY | `rejected`, `upstream`, `check` |
| `check`, `reserve` | `PreConsumeTokenQuota`: read key and balance, compare; then decrease | `upstream` or `rejected` |
| `upstream` | adaptor, `DoRequest`, `DoResponse` | `post` or `done` |
| `post` | `PostConsumeTokenQuota(bill - pre)` | `refresh`, `reload`, `done` |
| `reload` | the refund goroutine loads the key again | `refresh` or `done` |
| `refresh`, `store` | `CacheUpdateUserQuota`: SELECT, then SET | `record` or `done` |
| `record` | consume log and used-quota counters | `done` |

A Redis key is `none`, `volatile` (it has an expiry) or `persistent` (DECRBY
created it after the old one had expired).  Any volatile key may expire at any
time.  A top-up is `AdminTopUp`, a redemption or a monthly grant, followed by
its own refresh of the cache.  `DeleteToken` deletes the key's row; with Redis
a cached key is still accepted afterwards.  `SwapStore` and `Drain` are the
batch updater restricted to balances.  `Crash` ends every call and goroutine of
the process, and drops the batch store.  The data is reduced to what decides
anything: the sizes of a prompt, of `max_tokens` and of an answer, with a price
of one point per prompt token and two per completion token.  A retry of a call
on another channel runs `RelayTextHelper` again and is another member of
`Calls`.

`BillingLedger` says what the owner may rely on: a call reserves at most once,
is settled at most once, and may be closed with what it holds; a credit adds.
No other step touches an account.  The refinement maps the balance to
`db + store + taken + lost` (what a restart or a failed UPDATE dropped is still
owed) and derives the phase of a call from `settled`, `pc` and `posted`.

### 2.3 MonthlyQuota

A grant is one transaction; its statements are steps (`ReadUser`, `Skip`,
`LookupFinds`, `LookupMisses`, `Insert`, `Commit`, `TargetUnavailable`, and
`TxFails` for an error or a deadlock victim).  From the statement that finds or
inserts the grant's row to the commit the row is locked (`Holds`), and its
writes become visible at the commit.  `INSERT ... ON CONFLICT DO NOTHING` waits
for the transaction that holds the row and finds either nothing or the row.
With a log database of its own the bill is a step after the commit (`WriteLog`).

A scheduler is `off` (starting), `running` (`todo` are the ids it plucked) or
`waiting` for `due`.  The first error ends the run (`Return`).  Time is reduced to what
`nextMonthlyQuotaGrantTime` tells apart: before or after 00:05 of the first day
of each month.  `ManageRead` and `ManageWrite` are the two halves of
`ManageUser` around `user.Update`, which writes back every non-zero field it
read.  Deleting a user through `ManageUser` is, for this module, a status other
than enabled.  Nobody spends here; that is `RelayQuota`.

### 2.4 Redemption

`LockRow` is the SELECT ... FOR UPDATE with the check of the status, `Pay` the
rest of the transaction with its commit, `RollBack` any error.  `ReadRow` and
`WriteRow` are the halves of `UpdateRedemption`; the write waits for the row's
lock but reads nothing again.  `opening` and `payments` are history.  The refresh
of the cached balance after the commit is `RelayQuota`'s top-up.

### 2.5 ChannelRouting and RelayRetry

`row` and `ability` are the tables; every channel of this fork has one model, and
one group is modelled, so a channel has one ability.  `job[w]` is the statement
that worker `w` (an administrator's handler, the goroutine of an attempt, or the
goroutine of the tests) executes next:

| change | statements |
|---|---|
| `Channel.Update` | `write` (UPDATE), `reload` (First), `clear` (DeleteAbilities), `add` (AddAbilities) |
| `UpdateChannelStatusById` | `mark` (abilities), `status` (channel) |
| `Channel.Delete` | `delete`, `unlist` |
| `Channel.Insert` / `BatchInsertChannels` | `insert`, `add` |
| `DeleteDisabledChannel` | one statement; abilities stay behind |

Each may fail (`MaxFaults`), and the code's reaction is modelled: the status
change goes on after a failed first statement and `Update` after a failed `reload`, the
others stop where they are.
`sync` is `InitChannelCache`: the SELECT of enabled channels, that of abilities,
and the assignment of the new copy.  When it has read an enabled channel and the
second SELECT brings no ability, it writes into a map that does not exist and the
process ends (`cache.go:173`).

`RelayRetry` adds `Distribute` (for a model, or for a channel named by the key), the
loop with its `lastFailedChannelId`, the goroutines that may disable a channel, and
`testChannels`.  `Survives` says what a stop leaves of requests and tests.  `tangled`,
`was` and `alone` are history: whether changes of a channel overlapped or broke off
since the last undisturbed `Update`, and which offers a channel had since the copy was
read.  What an attempt costs is `RelayQuota`.

### 2.6 Browser and the pages

React runs a handler to its next `await`.  In `Browser` a handler is one action up to
its first request (`Sends`), and one action named `...Returns` for what follows each
await (`Back`, `GoesOn`, `Ends`); `Rejected` is a rejection that nothing catches.
`net` holds the requests under way, with what the closure captured; they are answered,
refused (`success: false`) or broken in any order.  `view` is the `useState` of the page
that is open; `server` what the service keeps of the page's data; `Disturbed` steps are
changes by others.  `history.alone` says that the reader always waited for an answer.

* **Lists.**  A row is an id and a status.  `ListServer` pages, filters, sorts,
  searches, switches and deletes rows.  What differs between the tables is what their
  code does differently: page 1 replaces, later pages append (default, air) or replace
  (berry); searches use a snapshot of the rows; berry keeps a switch per row beside
  the row; the logs reload when the filter changes.  `Filtered` and `Arranged` are what
  `filter` and the stable `sort` of arrays return, by places and by ranks; `With` adds
  fields to a record.  `tidy` of `MCWebLists` remembers whether a list ever held a row
  twice or all disabled channels were asked to be deleted; no action reads it.
* **Settings.**  A page is a set of cards; a card has fields, checkboxes and buttons,
  and a button is the sequence of its submit function's steps, each saving an option
  unless its field is as loaded or empty.  Values are kinds (`"new/"` is an address with a
  slash at its end, `"undefined"` a field that is missing), since the functions tell only these
  apart.  A behaviour stays in one card: the cards share no field but the SMTP credential.
* **Accounts.**  The service has one account, a session, a mailbox and the map of
  codes.  `Countdown` is a counter of ticks (30 seconds in the code), as timers tick
  independently of the answers.

The initial state of `MCWebLists`, `MCWebSettings` and `MCWebAccounts` picks the page.
Assumptions about the browser: a Semantic UI form that is loading takes no clicks but
does take typing; a status 401 leaves the page for the login page (`"expired"`).

## 3. What the runs check

### 3.1 The runs

| run | instance | shows |
|---|---|---|
| `batch_update` | 2 rows, 4 counters, deltas −1 and 2, `MaxRecords` 3, failing UPDATEs, 1 restart | `NothingLostOrDoubled`, `DatabaseShowsACut`, `EventuallyCaughtUp` |
| `relay_quota` | 2 calls on 1 key, Redis, failing database statements, 1 top-up, expiry, deletion of the key | `TypeOK`, `ReservationIsHeld`, `MoneyIsConserved`, `CacheIsSound` |
| `relay_ledger` | 2 calls, failing Redis, 1 restart | `EndedCallIsSettled`, the refinement `ImplementsLedger`, `EveryCallEnds`, `CacheHeals` |
| `relay_batch` | 2 calls, no Redis, batch mode, failing statements, 1 restart | `MoneyIsConserved` |
| `monthly_quota` | 1 account, 2 masters, 1 handler, 2 months, failing transactions, all administrator actions | `TypeOK`, `OneGrantPerMonth`, `BillsFollowGrants` |
| `monthly_catch_up` | 2 accounts, 1 master, promotions, separate log database, 1 restart | `CatchUpReachesEveryone`, `NothingElseIsBilled`, `EveryRunEnds` |
| `redemption` | 1 code, 3 requests, 2 users, 1 administrator with every edit, failing statements | `PaidOncePerOpening`, `PaymentMatchesTheRow`, `EveryRequestIsAnswered` |
| `relay_retry` | 2 channels, 1 request with 2 retries, 1 administrator, tests, 1 change, 1 failure or stop | `TypeOK`, `RetriesMoveOn`, `DisabledForItsOwnErrors`, `NoneMeansNone`, `OnlyChangesEndTheProcess` |
| `channel_routing` | 1 channel, 2 administrators, tests, 2 changes, 2 failures or stops | `AbilitiesFollowChannels`, `CopyIsOfItsSync`, `CopyConverges` |
| `web_lists` | 15 tables, 4 rows, pages of 2, 3 events | `RowsShowThePast`, `WhatIsShownIsTrue`, `NoUserTwice` |
| `web_settings` | 9 pages, 1 edit, 3 events | `SecretsAreNeverErased`, `UntouchedSettingsAreKept`, `CheckboxesAreTrue`, `PasswordLoginStaysUnlessConfirmed` |
| `web_accounts` | every account page, a countdown of 2, 3 events | `MailsAreSpaced`, `GivenAddressesWereProved`, `ShownIsHeld`, `SignedInMeansSession` |

The type invariants of `BatchUpdate` and `Redemption`, and `GrantIsExclusive` of
`MonthlyQuota`, are proved (section 5) and not repeated by a run.

### 3.2 Where the code falls short of what one would expect

The properties above are stated as the code keeps them; this is what they had to
leave room for, or what was met while the code was read for them.

Billing, grants and codes:

* `model/token.go:210`: a key deleted while its call is served makes
  `PostConsumeTokenQuota` fail; the error is logged, the consume log still says that
  the call was paid (`helper.go:89-90` says a log is written only for consumed quota).
* `model/token.go:173`: two calls compare with the same balance before either
  subtracts; both reserve and the balance is negative.
* `model/monthly_quota.go:169`: an account disabled between the first and the last
  statement of its grant ends the run; the remaining accounts wait for the next one.
* `model/user.go:207`: `ManageUser` reads the row, a grant commits, `ManageUser` writes
  the balance it read.  Marker and bill stay, the points are gone.
* `controller/redemption.go:132`: an edit of a code's quota that read the row while the
  code was enabled puts `enabled` back after it was redeemed; a second request is paid.

Channels:

* `model/cache.go:173`: a synchronisation that meets an enabled channel while no
  ability exists (a channel between `DeleteAbilities` and `AddAbilities`, an insertion
  half done, a failed SELECT of abilities, whose error is ignored) ends the process.  If
  the change itself broke off there, every start ends the same way.
* `InitChannelCache` ignores a failed SELECT of channels too: the copy is empty until
  the next synchronisation.
* An update from a page that still shows a deleted channel writes abilities for a
  channel that is gone; `Distribute` then answers that the database is inconsistent
  (`distributor.go:52`).  `DeleteDisabledChannel` leaves such abilities as well.
* Of two overlapping updates the second `AddAbilities` may fail on a duplicate key, and
  abilities may say something else than the channel until the next update.
* `channel-test.go:230-233`: when the list of channels cannot be read,
  `testAllChannelsRunning` stays true, and no test runs again in this process.
* A successful test enables a channel that was disabled by hand.
* `cache.go:217`: when the first channel's priority is 0 or less, the draw from the copy
  ignores priorities.
* A retry that draws the channel that failed last is skipped and counted; the errors of
  later attempts do not ask `shouldRetry`.

Tables: a slow answer to a search or a page replaces a newer one; a search result of
exactly one page is extended by unfiltered rows; a blank search of the accounts table
sends two loads with different orders; a refused deletion still removes the row in air
(`TokensTable.js:206`); a refresh of a later page appends its rows again; in berry the
switch of a row is not updated by a reload, and the last row of a later page stays shown
after its deletion.  `WhatIsShownIsTrue` therefore speaks of a reader who waits, and berry
only keeps `RowsShowThePast`.

Two more ways to a stale row were found by the proof, when a weaker condition (no row is
there twice *now*) turned out not to be inductive; TLC confirms both with `MaxEvents` 6, the
first with six rows, which is beyond the bounds of the run:

* `TokensTable.js:97` of default: a key is deleted on page 2 and the list is sorted; a
  refresh of page 2 splices in, a second time, a row that the sort moved to page 1.  The
  reader deletes one copy of it and refreshes again: the marked copy is overwritten, the
  other one still shows the deleted row.  Hence `tidy`: the list *never* held a row twice.
* `deleteAllDisabledChannels` of air's channels, on page 2, loads page 2 only: a deleted
  channel of page 1 is still shown.  Hence `tidy` excludes that button.

Settings: `SystemSetting.js:174` of default saves a field the edit never writes, so a
new whitelist of addresses is not saved; a submit before the options have arrived saves
the page's defaults over the unguarded settings (`view.early`); `originInputs` is not
refreshed after a save; air's message pusher saves every keystroke; berry's
`OperationSetting.js:98,178` reports success when the service refused; a list of options
that arrives late overwrites a checkbox in berry.

Accounts: the mail button of registration is not stopped by a countdown in default and
not locked in berry, which is why `MailsAreSpaced` names the pages that count down; an
answer that comes late re-enables a button of a later countdown; a redemption's late
quota is overwritten or added twice; in default a deletion whose logout is lost leaves
the page signed in, in air and berry a failed logout is shown as signed out while the
session lives; a reset whose answer is lost sets a password nobody saw; asking for a new
code invalidates the old one even when the mail cannot be sent; berry's deletion dialog
deletes nothing.  In the service, `EmailBind` (`controller/user.go:890`) does not delete the
code it used, and `IsEmailAlreadyTaken` (`model/user.go:323`) compares the count with 1,
so an address held twice counts as free.

### 3.3 Bounds

* `MaxRecords` 3: enough for a change before, during and after a swap of the
  same entry, and for entries of two rows in one round.
* Two calls: the account is the only thing that calls share, and every step of
  a call is one statement on it, so the races are between two calls, or between
  a call and a top-up, the cache, the updater or a deletion.  The initial balance
  of 101 is next to the threshold of trust (`balance > 100 * reservation`): a call
  without `max_tokens` (a reservation of 1) is trusted until somebody else takes
  quota, one with 35 (a reservation of 71) is not, and two such reservations do
  not fit into the balance.  An answer of 60 tokens costs more than the balance
  (121), so that the other call can be refused.  `MaxTopUps` 1 and the amount 5 let a top-up fall
  between any two steps.  `relay_quota` has a failing database and no restart,
  `relay_ledger` a failing Redis and a restart, `relay_batch` the batch store; the
  three together would be beyond TLC, and the theorems of section 5 cover all
  combinations.
* `MaxCrashes` 1: a second restart starts from the same kind of state, because
  everything in memory is lost.
* `MaxMonth` 2 and clocks before and after 00:05: a run of the wrong month, a
  month without a run, and a run that is late.
* `StudentQuota` 1, `TeacherQuota` 3, `AdministratorQuota` 9: pairwise different,
  with a difference (2) that is none of them, so that a grant, an upgrade and a
  bill of the wrong amount are told apart.
* Three requests for one code: one that pays, one that waits for it, one that
  comes after an edit.
* `RelayRetry` has two instances.  `relay_retry` needs two channels, one that fails and
  one to move on to, and two retries, so that a channel can come back after another one
  failed; one change and one failure (`MaxOps`, `MaxFaults`) put any statement of an
  administrator or of the tests between any two steps of the request.
  `channel_routing` needs one channel, because channels share nothing but the copy, but two
  changes that overlap, and a failure together with a stop.  Both priorities, 0 and 1, are
  there for the rule of `cache.go:217`.
* `MaxEvents` 3 bounds handlers that send a request, breaking requests and changes by
  others together: two handlers and a disturbance, or three handlers, beside the load that
  opens the page.  A handler that goes on to further requests is not stopped by it.
* `PageSize` 2 of 4 ids, 3 of them present: a full page, a second page, a row that is
  added and shifts them; the rows 2 and 3 match the search, one on each page.
  The theorems have no such bounds; section 3.2 shows that this matters.
* `MaxEdits` 1: a save of one field next to those the reader left alone; the submit
  functions compare fields one by one.
* `Countdown` 2: the button is reached before, at and after the end of the countdown.

Symmetry (of calls; of masters; of channels) is used in `relay_quota`,
`monthly_quota` and `relay_retry` only, which check no liveness.  Deadlock is not
checked where calls, months, changes or events are bounded, since those systems come
to rest; it is checked in `BatchUpdate` and `Redemption`.

## 4. Fairness

* `BatchUpdate`: weak fairness of the updater's steps.  The goroutine sleeps a
  fixed time and its loop has no exit.  Nothing forces a request to arrive.
* `RelayQuota`: weak fairness of the steps of a call that has arrived, of the
  rest of a top-up, of the updater and of the expiry of a key.  Handlers and
  goroutines are scheduled by the Go runtime; Redis expires keys by itself.  That
  the upstream request ends is an assumption: `RELAY_TIMEOUT` is 0 by default, so
  only the provider or the client ends it.  Nobody has to send a request, make a
  top-up, delete a key or stop the process.
* `MonthlyQuota`: weak fairness of schedulers and handlers (a node that stopped
  is started again) and of time.  Nobody has to register or to manage a user.
* `Redemption`: weak fairness of a request that was accepted.  Row locks are
  released by a commit or a rollback, which are themselves steps of a request, and
  the requests of an instance are finitely many, so weak fairness is enough for
  the queue of a row.
* `RelayRetry`: weak fairness of the statements of goroutines, of the
  synchronisation (a loop without an exit), of a restart (a supervisor starts the process
  again) and of the tests.  That the request of a test ends is an assumption, as for the
  upstream request of a call.  Nobody has to send a request or to
  change a channel.
* The web modules have none: a reader may stop anywhere, a request may stay
  unanswered, and only safety is checked.

## 5. What is proved

The assumptions of the theorems are those of the modules: `BatchAssumption`,
`RelayAssumption`, `MonthlyAssumption`, `RedemptionAssumption`, `RoutingAssumption`,
`RetryAssumption`, `BrowserAssumption`, `ListAssumption`, `OptionAssumption`, `AccountAssumption`.  They fix the kind of each
constant, that there are finitely many calls (a sum over them must exist) and finitely
many channels with integers as priorities and, for the months, that the feature is on;
numbers of calls, accounts, keys, nodes, months, codes, requests, channels, retries,
prices, failures, clicks and answers are arbitrary.  One theorem has hypotheses of its
own, `Catch_up_reaches_everyone`, and needs them: a statement that fails ends a run
early, and an account that is disabled while the run goes on is an error that does too.

* **BatchUpdate_proofs.**  `TypeCorrect`, `Conservation` (no delta lost or
  doubled), `CutConsistency`.  The invariant splits conservation at the swap:
  `BeforeTheSwap` says that the last cut of a counter is in the database, in the
  updater's hands or lost, `AfterTheSwap` that everything later is in the store.
  Conservation alone is inductive for additions but does not say which part of
  the total a swap takes.
* **RelayQuota_proofs.**  `TypeCorrect`, `Reservations_are_held`,
  `Ended_calls_are_settled`, `Cache_is_sound`, the refinement
  `Relay_implements_ledger` and `Money_is_conserved`.  The invariant `IInv` adds to the type `Stage`, which
  relates what a call has paid to where it is (a call is unsettled up to `post`,
  its bill is 0 until the upstream answers, `settled` means paid at the bill), and
  `CacheBound`, which bounds by `peak` every copy of a balance: in the cache, in the
  variable of a call between its SELECT and its SET, and in that of a top-up.
  For the refinement each step of `Next` is shown to be a reservation, a
  settlement, a closing, a credit or a stutter of the ledger under the mapping.
  Conservation is proved of the ledger's steps and carried over by the refinement.  Its
  sum over the calls of an account changes with one of its parts (`SumOver`): the sum is
  a recursive function on subsets, and a set for which its equation failed would have a
  smallest one, which a finite set of calls does not have.
* **MonthlyQuota_proofs.**  `TypeCorrect`, `Grants_are_single`,
  `Bills_follow_grants`, `Grants_are_exclusive`, `Nothing_else_is_billed`,
  `Catch_up_reaches_everyone`.  The invariant adds `TxInv`: a
  transaction that holds the row carries in `base` what the row says, and no two
  hold the same row.  That is what makes the commit of a difference exact.
  With a log database of its own the bill follows the commit, so `BillsFit` counts what
  committed transactions still owe: the entries of two of them are for different parts of
  the grant.  For the catch-up `RunsOK` says of every account of a run's list that it is still
  to be visited or has its grant, and that the transaction of the run is about the account
  that is visited and about the month of the run.
* **Redemption_proofs.**  `TypeCorrect`, `Payment_matches_row`,
  `Paid_once_per_opening`.  `LInv` says that a locked row is as it was read and
  locked by one request; `OnceInv` adds that a code paid since it was last opened is
  used or deleted (`PaidCodesAreSpent`).

* **RelayRetry_proofs.**  `Types`, `Abilities_follow`, `Copy_is_of_its_sync`,
  `Retries_move_on`, `Disabled_for_its_own_errors`, `None_means_none`,
  `Only_changes_end_the_process`.  The invariant is `TypeOK /\ Routes /\ Requests /\
  Copies /\ DisabledForItsOwnErrors`.  `AbilitiesFollowChannels` is about channels at rest
  and says nothing while a change is under way, so `Routes` carries it through the
  statements: `Phases` says for each statement of a change what row and ability are
  by then, `Jobs_are_ok` and `Alone_is_alone` that a change marked as alone is the only one of
  its channel, `Untangled` that an untangled channel has no second change, and `Rest` is the
  claim at rest.  `Copies` bounds the copy, and what a synchronisation has read, by `was`; it gives
  `CopyIsOfItsSync` and the cached half of `NoneMeansNone`.  `Requests` relates the loop's counter to
  the attempts made, which gives the bound and the change of channel.  That a draw by the
  highest priority finds a channel uses that a finite set of integers has a greatest
  element (`Top_exists`, from `FS_StrictSubsetOrderingWellFounded`).

* **MCWebSettings_proofs.**  `Secrets_are_never_erased`, `Untouched_settings_are_kept`,
  `Password_login_stays`, `Checkboxes_are_true`: all four properties of the settings pages,
  for every card of the nine pages.  `CardOK` says what the cards have in common (which
  steps of a function compare before they send, that a checkbox has no button), and is
  proved card by card.  `Ranked` and `WalkEntries` say that a walk over the steps of a
  function sends only what a step that is not skipped sends; the walk picks the step of
  each rank, and that there is one is a bijection between the chosen steps and their ranks.
  `IInv` then follows what is under way: `EntriesOK` says of every option a request saves,
  or will save later in its walk, that it may be saved (a credential is not empty, the
  warning was confirmed, the field was used); `ClosuresOK` says of the fields a handler
  holds, and of the page's own, that a field not used is as it was loaded.  For the
  checkboxes `OneAtATime` says that no two requests to save are under way where the form
  locks itself or the reader waits, `TogglesEnd` that a checkbox is saved alone, and
  `BoxesOK` what page and service say while the one request is sent, answered or refused.
  None of the properties is inductive without these: after an answer the next request of
  the walk goes out with values of an earlier moment.  A step of `Next` is of one of nine
  kinds, each with a lemma; only then are the some fifty actions of the pages assigned to them.

* **MCWebAccounts_proofs.**  `Mails_are_spaced`, `Given_addresses_were_proved`,
  `Shown_is_held`, `Signed_in_means_session`: all four properties of the account pages, for
  the twenty-seven pages of the three front ends, any number of clicks, requests, mails and
  failures, and any length of the countdown.  Each property compares what a page shows with
  what the service holds, and in between are requests at every stage.  `IInv` therefore says
  what each request under way has done to the account and has still to tell the page:
  `PasswordOK`, that a reset link is used once and the answer carries the password that is
  current; `TokenOK` and `QuotaOK`, how far the token and the quota on the page lag behind
  while the one request of a reader who waits is sent, answered, refused or broken;
  `SessionOK`, that a page whose session is gone has a request under way that will sign it
  out (`Leaving`), through the two requests of deleting an account.  `ClockOK` relates the
  countdown to the time since the last mail, which makes a button that is enabled again one
  whose time is over, whether or not the reader waits for the answers.  For the addresses `CodesOK` says that a code of a mail is only good for the address it was mailed
  to, and `AskOK` that a code under way is one a reader can have (`Codes`): nothing, a wrong
  one, or one of a mail.  The handlers of the service are proved one by one
  (`ServeKeeps`), those of the pages through a lemma for each kind of handler, to which
  `DefaultKeeps`, `AirKeeps` and `BerryKeeps` assign the some 130 actions.

* **MCWebLists_proofs.**  `Lists_are_sound`, `Rows_show_the_past`, `What_is_shown_is_true`,
  `No_user_twice`: all three properties of the fifteen tables, for any number of rows, page
  sizes, clicks, requests and changes by others.  What a table shows was put together by
  handlers that each go on with a list of an earlier moment, so none of the properties is
  inductive.  `IInv` has six parts.  `PageOK` and `RequestsOK` say that the rows of the page
  and of every closure are of the past (`Past`), that an answer tells of a row what it was
  (`Told`), and that the place a handler goes on with (`IndexOK`) is that of its row in the
  closure's list, whatever the page shows by then.  `ServerOK` and `CountOK` are types, with
  a bound on what is under way.  `EraOK` is about the three tables that push a page onto the
  array of the closure: two closures with one array hold the same rows, and so does the page
  while it shows that array.  `QuietOK` is for the reader who waits: there is one request at
  most that matters, and a row that is not true is one whose new status that request is to
  tell.  The lemmas come in three layers.  The first is about lists: each operator on rows
  (`Spliced`, `Arranged`, `Filtered`, `Reversed`, `Removed`, `Marked`) keeps a list in
  `Seq(T)` for any set `T`, which serves `Past` and, in quiet times, the rows that are true,
  alike; sorting is by ranks, and that each rank has one row is a bijection between finite
  sets (`ArrangedLists`, `RankOnto`).  The second has a lemma for each kind of step
  (`ShowsKeep`, `SendsKeep`, `EndsKeep`, `EndsMarkingKeep`, `EndsPushingKeep`, `GoesOnKeep`,
  `RejectedKeep`, and `ServeKeeps` and `ElsewhereKeeps` for the service).  The third assigns
  the some 120 actions of the tables to them, one lemma for each table (`TokensKeep` to
  `berryLogsKeep`).

Every invariant and every safety property of a step that a run checks is proved.  Only
model-checked: liveness (`EventuallyCaughtUp`, `EveryCallEnds`, `CacheHeals`,
`EveryRunEnds`, `EveryRequestIsAnswered`, `CopyConverges`), which the prover does not
reach.

## 6. What is not modelled

* The rate limiter; image, audio and proxy relay; the window of successes of a channel
  (off by default) and the update of channel balances; the expiry of the caches of keys and of
  user statuses; the periodic reload of options on several nodes; the limit of the map
  of verification codes.  They are planned below.
* Provider adaptors translate formats and keep no state.  OAuth exchanges with the
  providers happen outside; `AccountServer` has the session and the one use of a code.
  Logs, dashboards and the HTTP surface have no protocol of their own.
* Of the front ends: editors (one request for a form), dashboards and layout; copying of
  links and keys, air's drawers and the
  table of `/api/mj`, which the service does not route; the deletion of old logs and the
  check for a new version; payment links and avatars.
* Of channels: several models or groups per channel, balance, response time, key and
  settings; abilities of one channel are written by one statement in the code, so a second
  model would not be in another state.  The body of the final error is left out.
* A handler of the service is one step in `ListServer`, `OptionServer` and
  `AccountServer`; in particular `ResetPassword`, whose check, update and deletion of
  the code are three calls.
* In `RelayQuota`: the mail that warns of a low balance, the text of logs, the
  count of tokens (a size is chosen), model and group ratios (they scale prices),
  `billing.PostConsumeQuota` of the audio relay.  Of the cache of keys only its effect
  is there: with Redis a deleted key may still be accepted.
* In `MonthlyQuota`: spending, and `UpdateUser`, `UpdateSelf`, `EmailBind`.  That a
  catch-up which is still going at 00:05 of the next first day skips that month is
  behaviour of the model (`Wait` reads the clock when the run is over), but no
  property is stated about it yet.
* In `Redemption`: adding and listing codes; changing a code's name.

## 7. Plan

1. `RateLimiter` and `RedisRateLimiter` against an abstract sliding window: the
   in-memory limiter refines the window, the Redis one is measured against it.
2. `TokenAuth`: caches of keys and of enabled users, blacklist.
3. `MediaQuota`: image, audio and proxy calls against `BillingLedger`.
4. `UserAdmin`: every handler that writes a user row; lost updates of balances and
   roles; the demotion of an administrator that is granted twice.
5. `Options` on several nodes, the limit of verification codes, the window of
   `monitor/metric.go`.
6. Composition of `RelayRetry` with `RelayQuota`'s ledger: a request is billed by its
   last attempt only.
7. A property of the months that are run when a catch-up is still going at 00:05 of the
   next first day.

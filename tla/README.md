# AzariPay in TLA+

A verification development for AzariPay (BongoPay), a NestJS service with
Postgres (TypeORM), Redis and a few external providers. Line numbers are those
of the repository at the commit this directory belongs to; `PROJECT.json` maps
every definition to its lines.

## The system

| component | state it keeps | operations | who it talks to |
|---|---|---|---|
| APT Pay webhooks (`webhooks/services/aptpay-webhook.service.ts`) | `aptpay_webhook_events` rows | `processWebhook` and a handler per payment status | APT Pay (posts, retries), transactions, CAD wallets, payment requests, Redis cache |
| Transactions (`wallets/services/transaction.service.ts`) | `transactions`, CAD wallet balance | create pending, complete, fail; history, statistics, statement | called by the webhooks and by payment initiators that are not in the repository |
| Sign-in and sessions (`auth/services/auth.service.ts`, `JwtStrategy`, `JwtAuthGuard`) | `users` (password, tokenVersion, lockUntil), `refresh_tokens`, Redis: tokens, blacklist, failure counters | signin, refreshToken, logout, logoutAllDevices, revokeSession, password change and reset | Redis, Postgres, mail, Firebase |
| Signup and one-time codes (`auth.service.ts`) | Redis codes and attempt counters, `users` | signup, resend, verify, basic info, password; codes of password, e-mail and KYC changes | SMS, mail, wallet creation, onboarding |
| PIN management | `users.pin`, Redis codes and tokens | set, change, reset, verify | SMS, mail |
| Onboarding tracking (`onboardingTrackingService.ts`) | a JSON state per phone number in Redis | read, change, write back, per step | signup, PIN, KYC |
| Identity verification (APT Pay service, `webhook.service.ts`) | `identity_verifications`, `users.kycStatus` | APT Pay's completed and failed, Sumsub's GREEN and RED | APT Pay, Sumsub, onboarding |
| NGN account webhooks (`webhook.service.ts`) | `transactions`, NGN wallet balance, `notifications` | account credited | DotBank |
| Wallet creation (`wallet.factory.ts`) | NGN and CAD wallets | `createWallet`, which always throws | signup |
| Rate limiting (`rate-limit.guard.ts`) | Redis counters and blocks | check, block, count | every guarded route |
| Notifications and push (`notifications.service.ts`, `firebase.service.ts`) | `notifications` | create and push, mark, delete | Firebase |
| Places (`geographic.service.ts`) | a cache in the process | places, cities, towns, villages | CGNDB |
| Profiles and files (`country.service.ts`, `filestore.service.ts`) | `users`, `file_store` | picture, names, address, e-mail, tokens, files | Wasabi (S3) |
| History and statements (`transaction.service.ts`) | read `transactions` | pages, statement with its PDF table | clients |
| Mail, SMS, fees, beneficiaries, reports | one table each, or none | look-up, insert, delete | SendGrid, Twilio |

What is hard here is that Node runs one request up to its next `await` and then
any other. Nothing takes a database lock, `completeTransaction` alone opens a
database transaction (READ COMMITTED), Redis is read and written in separate
calls, and TypeORM's `save(entity)` writes back every loaded column that
differs from the row, so a copy loaded before an `await` undoes what others
wrote. On top of that APT Pay repeats, delays and reorders its posts, calls
fail, and the process restarts between any two awaits.

What makes each part correct, modelled or not:

* payments: a transaction follows the verdict of APT Pay, once; the wallet
  moves once per payment; a request ends like its transaction;
* sessions: a session that was ended cannot be renewed or used; a lock ends with
  time or a password reset, nothing else; a failure counter always expires;
* one-time codes: one code authorises one change, a wrong code counts;
* onboarding: the app resumes from the steps that were marked; the three places
  a verdict is written to agree;
* deposits: a wallet shows no money that was not recorded, and loses none
  without a cause;
* notifications: sent means pushed, and what the user marked stays;
* rate limit: no window admits more than its points, and every refusal ends;
* history and statement: every page and every sum covers the rows it should;
* places: a gap in a list is the gap of a recent fetch;
* users rows and files: one address, one user; nothing names a file that is not
  there; requests undo each other only by saving what they read before.

## Modules

    AptPayWebhook ---- AptPayProperties ---- MCAptPay          (runs AptPay*)
                            |   `-- AptPayProofs
                            `-- INSTANCE PaymentLedger         (abstract)
    AuthSession ------ AuthProperties ------ MCAuth            (runs Auth*)
                            |   `-- AuthProofs -- AuthSerialProofs
                            `-- INSTANCE SessionLedger         (abstract)
    OneTimeCodes ----- CodesProperties ----- MCCodes           (runs Codes*)
                            `-- CodesProofs
    NgnDeposits, Onboarding, Inbox, RateLimit, Statements, Geography, Profile
                    `--- Services ------ MCServices            (run Services)
    NgnDeposits ------ NgnDepositsProofs ---.
    Onboarding, Profile --- AccountProofs --+-- ServicesProofs
    Services, SumProofs --------------------'
    SumProofs (sums over finite sets) also serves AptPayProofs

A request being served is a *handler*: a record whose `pc` names the call it
awaits and which carries the entities it has loaded. One action is the code
from one `await` to the next. `Mutant` definitions are plausible slips in the
code that the definition after them models; they are not part of `Next` and
show that the properties can fail.

### AptPayWebhook: settling payments

`verdict[i]` is what APT Pay has decided of payment `i` (external, once and for
all), `acked[i]` the statuses we answered with 200; the other variables are our
rows: `tx`, `balance`, `request`, `events`, the Redis `cache`, and `handler`.
`ProcessWebhook` is `processWebhook` with its catch block, `HandleVerdict` the
handlers of SETTLED, FAILED and ERROR together with `completeTransaction`
(`Complete*`) and `failTransaction` (`Fail*`). What the code does and a reader
may not expect is in the model because it is in the code:

* `aptPayId` is indexed, not unique, so a second event row is accepted
  (`CreateEvent`), and the catch block may load either (`ErrorFindEvent`);
* a retry with the status the row already has is answered and not processed;
* completing a DEBIT leaves the wallet alone, because `newBalance` is assigned
  for a CREDIT only;
* the REFUND record lacks the NOT NULL `currency`, its insert is rejected and
  the error logged, so no refund record ever appears;
* a failed request whose cached data has expired throws after its transaction
  was failed, and its `payment_requests` row stays pending (`ReadCache`);
* a `BadRequestException` is answered with 200, everything else is retried.

Abstractions: amounts are natural numbers (rounding to cents is not modelled);
`balance` in the payload is not used by the modelled writes; awaits that only
read what cannot change (the user, the wallet's existence) are merged with
their neighbour; push notifications catch their own errors and are left out; a
`save` with the re-read TypeORM does is one step; every payment has a user with
a CAD wallet; no unique constraint is hit, so `isDuplicateKeyError` is false.
`createPendingTransaction` has no caller in the repository: the initiator that
calls it and fills the cache is modelled from how the webhook uses both.

### AuthSession: one account

The `users` row (`user`), the two failure counters and their TTLs
(`attempts`, `ttl`), the pairs of access and refresh token handed out
(`version`, `expired`, `blacklist`, `row`, `redis`, `client`) and, for the
properties, how each pair was ended by a request answered with success
(`ended`). `Judging` is signin up to the verdict on the credential, `Issuing`
the rest of it and refreshToken, `Ending` JwtStrategy, JwtAuthGuard and the
requests that end sessions, `Updating` the password and FCM-token updates.

Abstractions: one account and one address; the limits 5 and 10 are constants;
time is the expiry of keys, tokens and the lock, with the lock hour outlasting
the fifteen minutes of the counter that set it; a uuid is reserved when the
request arrives; awaits that change nothing modelled (the attempt count read
for a log, mails, lastUsedAt, unread counts) are merged; an FCM update stands
for all the saves of a full users row. `signature` is a biometric signature
that verifies.

### OneTimeCodes: what a user proves a change with

Twenty endpoints of three services do the same kind of thing: look something
up, SET a code or token with a time to live, send it, GET and compare it, write
a row, DEL it. Each is a sequence of the calls it awaits, in the order of its
source, `<<call, key>>` (`SetPin` to `CompleteAddressEdit`, collected in
`Calls`), and each kind of call is an action: `Issue` is the generated code and
its SET, `Send` the message or the answer that carries it, `Accept` and `Reject`
the comparison, `ReadAttempts` and `CountAttempt` the counter of
`signupVerifyOtp`, `Remove` a DEL. A handler may stop at any call (`Fault`) and
keys expire at any time (`Tick`). The endpoints fall into six groups that share
no key and no column (`EndpointsOf`); a behaviour is about one of them, chosen
initially. `redis` holds the value of each key and the time it has left; `path`
and `to` beside it are for the properties: the endpoints a code came through,
and the address it was sent to. `known`, `wrong`, `latest`, `spent` and
`overlapped` are history: what the user was given, the wrong guesses at the
stored code, the last code handed out, the codes of requests that ran to their
answer, and whether two requests have been in flight together.

What the code does and a reader may not expect: both `emailChangeInitiate` and
`changeEmailInitiate` say `emailChangeOtp:`, but one appends the user id, the
other the phone number, and only the first keeps its code for 240 s; password
reset uses the key `otp:` of signup, so that either code serves both;
`verifyEmailChange` reads a counter of wrong codes that nothing writes, keeps
the new address nowhere, and answers without a body when a call fails;
`signupVerifyOtp` alone counts wrong codes.

Abstractions: codes are numbered as they are generated, so two are never equal
(six random digits can be); a request offers a code that some key still holds
and the user was given, or a wrong one; mail and SMS are one step; the DELs of
`passwordResetOtp:` and `pendingAddress:`, keys nothing sets, are left out; the
onboarding state that signup also writes belongs to the onboarding component.

### The seven parts of Services

These parts share no variable with each other or with the modules above, so
`Services` puts them side by side and lets one of them, chosen initially, run
(`service`): one run of TLC explores each for itself. Each is a module with its
own specification (`DepositSpec`, `InboxSpec`, ...), which is what is proved
about. All use the same form of handler.

* **NgnDeposits**: `processVirtualAccountNotification`. It reads the wallet,
  saves the credit, writes the balance it read plus the amount, saves a
  notification and pushes. A notice is complete or lacks a part (`Oddities`).
  The code looks for no transaction of the same reference, so a repeated
  notice is credited again; without an amount the credit is 0 and the balance
  `NaN`; an amount with separators is refused by the column, although it is
  stripped of them for the balance two lines later.
* **Onboarding**: what a signup, Sumsub and APT Pay do to the state in Redis,
  the users row, the identity row and the event row; each endpoint is its
  sequence of calls, as in `OneTimeCodes`. `signupBasicInfo` signs its token
  for a user it looked up before the insert, null: it fails after the row is
  there and its later marks are never reached, so that no state ever gets a
  `userId` and `markPinCompleted` finds none. A mark completes the step it
  leaves. APT Pay's COMPLETED stops at a VERIFIED row, FAILED does not look. A
  read of the state that fails is taken for no state, and the request goes on
  without its mark (`MissSession`); a GREEN that fails half-way is logged and
  answered as if it were done (`SwallowGreen`).
* **Inbox**: rows of notifications. `create` inserts, pushes and saves the
  entity it inserted with `isSent`; marks find and save; `save` inserts a row
  again that was deleted meanwhile. `DELETE bulk-delete` and `DELETE
  clear-read` are declared after `DELETE :id`, whose `ParseIntPipe` refuses
  them, so they are no actions.
* **RateLimit**: `checkRateLimit` of the guard, from Redis command to command,
  for one caller of one endpoint, with time passing in between. `INCR` on a key
  that expired since it was read makes a counter without expiry.
* **Statements**: the history page by page (a count and a query per page), the
  statement of a range of days, its summary, the statistics, and where
  `createTransactionTable` puts its rows. `getUserTransactionStats` has no
  caller; it is the second definition of the sums the statement prints.
* **Geography**: `getAllPopulatedPlaces` of one province with its cache. A
  failed type is left out and the rest cached for days. The data of the service
  itself has no places for NB, NL, NT, NU, PE and YT.
* **Profile**: `users` columns written by `uploadProfilePicture`,
  `updateProfile`, `completeAddressEdit`, `emailChangeComplete`,
  `updateFcmToken` and `updateFaceIdKey`, and `uploadFile` with its object and
  row. `updateProfile` writes the names a request gives; it has code for an
  address too, but the field of its DTO has no decorator and the global
  `ValidationPipe` (`main.ts:51-57`) refuses a request that gives it. `save` writes the row as it was read with the own change, `update` its
  columns only. `emailHash` is unique; it is the hash of the address as typed,
  while forms compare it in lower case, so an address in two spellings is two
  addresses here as in the code. A row that cannot be inserted leaves its
  object in the bucket.

Abstractions: an amount, a file, an address or a token is a number or a model
value; a row is the columns the modelled requests write; the fields of basic
info, texts of notifications, formats and filters by date of the history are
left out, the last but in `HistoryRange`; the sign-in tokens a signup hands out
are `AuthSession`'s.

### The abstract specifications

`PaymentLedger`: a payment is decided, its transaction follows once, a settled
request is credited in that step, a failed disbursement is refunded afterwards
(lost only by a fault, `Lossy`). `SessionLedger`: a set of renewable sessions;
a sign-in begins one unless the account is locked, renewal replaces one in one
step, ends remove them. Both are implemented with one request at a time;
with two at a time they are not, and the violation runs show how.

## Runs

| run | bounds | what it shows |
|---|---|---|
| AptPayConcurrent | 2 handlers, a request and a disbursement of one user, SETTLED and FAILED, no fault | `TypeOK`, `TxMatchesVerdict`, `RequestMatchesVerdict`, `TxFinal`, `BalanceHasCause` in every interleaving |
| AptPaySerial | 1 handler, the same and an unknown id, rows inserted late, cache expiry, one repeated delivery, one fault | `LedgerExact`, `NeverOverpaid`, `AckedIsDone`, `RequestMatchesTx`, `ImplementsLedger` |
| AptPayOrdered | 2 handlers, one prompt request, one repeated delivery, fairness | `SettledIsCredited` |
| AptPayRetry, AptPayDuplicate | as above | violations, see Findings |
| AuthSerial | 1 handler, 2 pairs, every request, one fault, limits of 2 | `EndedIsRejected`, `LimitLocks`, `OnlyTimeUnlocks`, `ImplementsSessions` |
| AuthConcurrent | 2 handlers, 2 pairs, sign-in, refresh, logout, logout of all devices, limits of 2 | `TypeOK`, `EndedRefreshIsRejected`, `LoggedOutAccessIsRejected`, `CountersExpire` |
| AuthRevive | 2 handlers, 2 pairs | a violation, see Findings |
| AuthUnlock | 1 handler, sign-in and password reset, limits of 2 | a violation, see Findings |
| Codes | 2 handlers, each of the six groups, 2 codes, lives 2, 1 and 3, limit 2, one fault | `TypeOK`, `SpentCodeIsDead`, `CodesKeepTheirPurpose`, `LastSentWorks`, `VerifiedEmailGotTheCode`, `LockHolds` |
| CodesSetPin | 2 handlers, the PIN group | a violation, see Findings |
| Services | 2 handlers in each part, one fault; bounds below | `BalanceBacked`, `LossHasCause` (deposits); `KycAgrees`, `ResumeIsEarned` (onboarding); `SentWasPushed`, `MarksStick` (inbox); `LimitHolds`, `LimitLifts` (rate limit); `PagesPartition`, `StatementMatchesHistory` (history); `GapsHaveCause` (places); `EmailsAreOwn`, `FilesAreRetrievable`, `EditsStick` (profiles); `ServicesTypeOK` |

Why the bounds are enough for the cases to happen. Two handlers give every
race between two requests; a request and a disbursement of the *same* user
share a wallet, so lost updates happen (and are why `LedgerExact` is checked
one delivery at a time only). The opening balance of 1 against the
disbursement's 2 makes the insufficient-balance branch reachable before the
request is credited, 2 makes the other reachable. `MaxDuplicates` = 1 and
`MaxFaults` = 1 place one repeated delivery and one failed call or restart at
every possible step. ERROR is treated as FAILED by every line that tests it
and is left out of `Verdicts` for size. Two pairs are a session and its
renewal, or the sessions of two devices; limits of 2 reach the lock, the block
of the address and the counter's renewal; `MaxFailures` bounds failed sign-ins
at one beyond the limit. `CHECK_DEADLOCK` is off because the system rests when
every payment is closed or every pair is used up. Symmetry is used for safety
only. Two codes are a code and the token it is exchanged for, or a code and the
one that replaces it; lives of 2, 1 and 3 keep the order of the code's 240, 180
and 300 seconds, so that a code expires before the counter of its wrong
guesses, and an address with its code. `LastSentWorks`,
`VerifiedEmailGotTheCode` and `LockHolds` are stated for requests that come one
after the other (`~overlapped`): two at once do get more guesses out of the
counter, delete each other's newer code, and mix up address and code.

Bounds of `Services`: two wallets and three notices, so that two notices cross
on one wallet while the other must stay exact; four requests or webhooks of a
signup, enough for a row, a verification begun and two verdicts that contradict
each other, or for a session, a mark and a repeated signup; two notifications
and three marks, so that a mark, a deletion and a bulk mark meet a push; two
points, a window of 2 ticks and a block of 3, so that windows meet, expire
between GET and INCR, and end before their block, with requests unbounded;
three transactions, pages of 2, two days and statements of one or both, so that
there is a second page and rows on both sides of midnight; two types of places and a life of 2 ticks, so
that one type fails and the other is cached, by two requests that cross; two
users, one address nobody has and three requests, so that two saves cross and
an address given up is taken by the other. `LimitHolds` and the onboarding
properties are about requests that do not overlap (`crowded`, `tangled`): two
at once do pass the limit and lose marks. `PagesPartition` is about a table
that does not change while it is read, and rows of different instants.

`Prompt` payments are those APT Pay decides after we have stored the
transaction and answered OK, which is how payments normally go. `AckedIsDone`,
`RequestMatchesTx` and `SettledIsCredited` are about these: for others a
verdict that comes first is acknowledged and never processed, by design of
`isStatusProgression`.

### Fairness

`FairSpec` gives weak fairness to each started handler: the event loop resumes
it, and calls return or fail. It gives strong fairness to each delivery APT Pay
owes: it retries until it is answered with 200, which is what the controller's
comment relies on. `Services` assumes one thing, for `LimitLifts`: that time
passes (`TickLimit`); no request has to come or to end. Nothing is assumed of the environment's choices, of Redis
expiry or of faults.

## Findings

* `AptPayRetry`: "Re-throw other errors to trigger APT Pay retries"
  (`aptpay-webhook.controller.ts:76`), but the retry is an exact duplicate for
  the event row the failed attempt has saved, and is answered without being processed.
* `AptPayDuplicate`: "prevent duplicate processing", "Handle duplicate key
  errors (race condition)" (`aptpay-webhook.service.ts:368, 430, 292`), but
  no unique key exists and two concurrent deliveries credit a request twice.
* `AuthRevive`: "Increment token version (invalidates all existing tokens)"
  (`auth.service.ts:2663`), but a concurrent sign-in saves the old version back.
* `AuthUnlock`: "you can reset your password to unlock it immediately"
  (`auth.service.ts:953`, and 965 to the same effect), but
  `passwordResetComplete` saves the password alone (1358-1360): the lock stays
  until its hour is over.
* `CodesSetPin`: "PIN already set. Use change PIN to update your PIN."
  (`pin-management.service.ts:84-86`), but the update at 91 is not conditional
  on what was read at 74, and a concurrent request's PIN is replaced.

Two more that a reader of the runs will meet: the warning mail announces the
lock "after one more failed attempt" (895) in the attempt that locks; and
messages and comments speak of codes valid for three minutes, which most keys
keep for 240 s.

Slips met while modelling that no run is about: `signupBasicInfo` always fails
after its insert (`auth.service.ts:492`), so that onboarding is never
COMPLETED; `createWallet` always throws before it saves
(`wallet.factory.ts:153`, the hash of an account number nothing assigns);
completing a DEBIT leaves the wallet as it was, though `completeTransaction`
says that it updates it (`transaction.service.ts:691`); a
deposit is credited again when its notice is repeated, and one without an
amount makes the balance NaN (`webhook.service.ts:342`); a request for a CSV
statement is never answered; `findAllTransactions` joins a relation that is not
there; `DELETE user` has no guard, so that `req.user` is undefined; the two
shadowed deletions of notifications.

## Proofs

TLC checks the runs' small instances; the theorems below hold for every value of
the constants that their named assumptions allow: any sets of handlers, payments,
users, codes or rows, any amounts and limits, any number of faults and repeated
deliveries. Every safety property and both refinements that the passing runs
check are proved. A theorem about requests that come one at a time says so: it
assumes `Serial` (any two handlers are the same), as the run of the property has
one handler, or the property itself begins with `~overlapped`, `~tangled` or
`~crowded`.

### Payments: `AptPayProofs`

Under `PaymentAssumption` alone:

* `TypeCorrect`: `Spec => []TypeOK`;
* `TxIsVerdict`: `Spec => []TxMatchesVerdict`;
* `RequestIsVerdict`: `Spec => []RequestMatchesVerdict`;
* `TxNeverReopens`: `Spec => TxFinal`;
* `BalanceCause`: `Spec => BalanceHasCause`.

The inductive invariant is `IInv`: `TypeOK`, `TxMatchesVerdict`,
`RequestMatchesVerdict` and `HandlerInv`. The first three are not inductive by
themselves: a handler about to complete a transaction must be known to serve a
SETTLED delivery, and one about to fail a request must have failed its
transaction. `HandlerInv` says this of each `pc`: which payment and verdict it
serves, where a nested call returns to, and that its transaction is failed
already where a refund or a failed request follows. It is stable under other
handlers because a verdict never changes and a FAILED transaction is never
reopened. That is proved once (`NextStable`, `OtherHandlerOK`), so each action
is only examined for its own handler (`ProcessWebhookOK`, `HandleVerdictOK`);
`NextInv` combines them with the types (`NextType`). The two action properties
follow from `IInv` in every step. That a transaction cannot be both completed
and failed thus rests on APT Pay deciding once, not on any lock of ours:
without it the unlocked checks of `failTransaction` do not suffice.

With `Serial` besides:

* `LedgerRefined`: `Spec => ImplementsLedger`. What fails with two deliveries
  and must hold with one is that a handler writes what it has just read:
  `SeenInv` says that the transaction is still PENDING and the balance still the
  one in hand at the writes (`SeenPcs`), and that a disbursement about to be
  paid was affordable. Then each step is one of the ledger or a stutter:
  `CompleteCommit` credits or pays out, `FailSave` fails a request or a
  disbursement, `RefundSave` refunds, a fault in the middle of a refund is
  `LoseRefund`.
* `LedgerIsExact` and `NobodyOverpaid`: `[]LedgerExact` and `[]NeverOverpaid`.
  `WalletInv` says of each wallet that finitely many payments are closed, that
  its balance is at most what they come to, and exactly that before the first
  fault; a closed payment leaves or enters one of three sums. What these proofs
  need of sums (adding, removing or moving one element, nothing for the empty
  set) is in `SumProofs`, proved without an induction theorem: a smallest set
  for which the recursion of `SumFunctionOnSet` says otherwise does not exist, because
  proper subsets of finite sets are well-founded.
* `AckedMeansDone` and `RequestEndsAsTx`: `[]AckedIsDone` and
  `[]RequestMatchesTx`. `PromptInv` follows one event row: as long as it is new
  the payment is untouched, afterwards it is done or a handler carries it; and
  for each `pc` what the handler may rely on (`DealsWith`), such as that the
  request is pending when its transaction was just completed. It holds until the
  first fault, which is what both properties are about.

### Sessions: `AuthProofs` and `AuthSerialProofs`

For any requests in flight, under `AccountAssumption`:

* `TypeCorrect`: `Spec => []TypeOK`, with what a request at each `pc` carries
  (`Typed`, `Sound`, `OnRoute`);
* `EndedRefreshStaysRejected`: `Spec => []EndedRefreshIsRejected`;
* `LoggedOutStaysRejected`: `Spec => []LoggedOutAccessIsRejected`;
* `CountersAlwaysExpire`: `Spec => []CountersExpire`.

A refresh token that was ended stays rejected because its row is revoked and
nobody makes it live again: a row is written live only by the request that
reserved its uuid, before the client has it, and no two requests reserve the
same (`Issuance`). `Knows` is what a request knows of the tokens at each `pc`;
it only ever speaks of facts that other requests cannot undo (`Forward`,
`KnowsStays`), so each action is examined for its own request. A blacklist
entry goes only when its token has expired (`LoggedOut`). A counter without expiry has
a request that is about to set it.

With `Serial`:

* `EndedStaysRejected`: `Spec => []EndedIsRejected`;
* `LockEndsWithTime`: `Spec => OnlyTimeUnlocks`;
* `LimitAlwaysLocks`: `Spec => []LimitLocks`;
* `SessionsRefined`: `Spec => ImplementsSessions` (with `Handlers # {}`, since the
  proof speaks of what the one handler does; without one nothing happens).

What a concurrent sign-in breaks (`AuthRevive`) is that the row a request saves
in full is the row it read. `InStep` says that this is so: at every call between
load and save the loaded user equals the `users` row, a sign-in that goes on
found it unlocked, and every version in a token is at most the row's, and less
for tokens of before a sign-out of all devices. `LimitReached` adds the sign-in
that has counted to the limit and has still to lock. For the refinement,
`InPlace` says where the session of a renewal is; the ledger's sessions are the
accepted refresh tokens, where a renewal in progress counts as the old one until
its token is dropped (`Live`, `Used`). `MintRow` signs in, `RefreshDrop` renews,
`RevokeAll` ends all, `LogoutRedis`, `SessionRedis` and the expiry of a refresh
token end one, `LockSave` and `LockExpires` lock and unlock, a fault between the
insert of the new token and the deletion of the old leaves two; every other step
stutters.

`EndedIsRejected` says of each way a session ends what the code gives, and no
more. The refresh token is refused whichever way it was; the access token, after
a logout of all devices or a password change that was answered, whatever has
failed, because its version is below the row's, and after a logout until a call
fails, for a failing SET of the blacklist is swallowed. Revoking a session and
renewing it leave its access token alive. `OnlyTimeUnlocks` excepts the save of
a password reset, which the lock mail says unlocks the account: that it does not
is the run `AuthUnlock`.

### Codes: `CodesProofs`

For any number of handlers, codes, addresses and faults, any times to live in
the order `CodesAssumption` states, and any limit:

* `CodesTypeCorrect`: `Spec => []TypeOK`, with the bound on the counter;
* `SpentCodesAreDead`: `Spec => []SpentCodeIsDead`;
* `CodesServeTheirPurpose`: `Spec => []CodesKeepTheirPurpose`;
* `LastCodeWorks`: `Spec => []LastSentWorks`;
* `VerifiedEmailIsTheCodes`: `Spec => []VerifiedEmailGotTheCode`;
* `WrongCodesLock`: `Spec => LockHolds`.

The table of endpoints is looked at three times, for three facts about every
sequence of calls; the steps then reason about one call of any endpoint:

* `WellFormed` (`CallsAt`): every sequence that checks a code removes the same
  key later and nowhere earlier. `CodesInv` adds to the types and the property
  that no code above `issued` is anywhere (`Fresh`), that no two keys hold one
  code (`Unique`), and that a request which has accepted a code but not yet
  reached its DEL is the only way the code can still be stored, while one beyond
  its DEL has left it nowhere (`Held`). A step that only shortens what Redis
  holds keeps all of them (`Shrinks`); `Issue` stores a new value; `Finish` needs
  `Held` at the end of the sequence, which is where the DEL must have been.
* `Rights` (`RightsAt`): the keys an endpoint checks hold what it wants, and
  what it issues stands, under its key, for the code it checked. `Rightful` says
  of what is stored under each key which endpoints it came through (`KeyPaths`),
  and of a request the same of the code it has accepted.
* `Order` (`OrderAt`): an endpoint issues and checks one code at most, sends what
  it has issued, removes what it has checked and never what it issues, and has
  done neither before a call that may turn it away.

The last three theorems are about requests one after the other. `OneByOne` says
what this gives: one request in flight (`Alone`), guesses held against a code
only by `signupVerifyOtp` (`Guessing`), time left on everything stored
(`Lasting`), codes known only once issued (`Told`), and stored only where their
request has stored them (`Own`). On it `Settled` says that between its issue and
its sending a code is stored but not yet the last, and between its removal and
the answer the last but no longer stored; `Pairs`, that a code a user knows is
stored with the address it went to, since it is sent after both were stored; and
`Counted`, that the counter of wrong guesses covers those made at the stored
code, because the counter outlives the code and both are removed together.

### The parts of Services

Each for any number of requests at once (finitely many for the limiter), any
sets and bounds, under the assumption its module names, with the types of its
part.

Deposits, in `NgnDepositsProofs` (`DepositAssumption`). `BalanceIsBacked`,
`DepositSpec => []BalanceBacked`: `BalanceBacked` is not inductive, for a
handler is about to write a balance; `NoticeOK` says that what it has read,
once its credit is saved plus its amount, is covered by what is recorded.
Recorded credits only grow, so a covered balance stays covered (`BackedGrows`).
`LossIsExcused`, `DepositSpec => []LossHasCause`: each wallet has lost money
for a reason already noted, or shows exactly what is recorded with nobody
about to write it, or lacks the one credit that a handler with a fresh read
is about to add, or has two notices in flight that will cross (`LossInv`).

Onboarding and profiles, in `AccountProofs`:

* `VerdictsAgree`, `OnboardingSpec => []KycAgrees`, and `ResumeIsExact`,
  `OnboardingSpec => []ResumeIsEarned` (`OnboardingAssumption`). The table of
  endpoints is looked at once: `WellMade` says of what a request has still to
  do, at any of its awaits, that a state is written only after it was read, that
  a verdict is marked by the last call but one and enters the users row by the
  last, and by whom. `OnboardingInv` holds this of every request, and while no
  two have overlapped and no call has failed (`Untangled`): the copy about to
  be written back is the state in Redis, the steps of a state are those marked,
  and its verification is that of the users row, or the verdict of the request
  that has only its last call to make.
* `EmailsAreUnique`, `FilesAreThere`, `EditsAreKept` (`ProfileAssumption`). A
  copy of a row, however old, has an address with its own hash and a picture
  that can be retrieved, because objects and file rows only grow; the unique
  index compares the hash that is written, so it also stops an old copy. A
  request that has to write a file row has stored its object.

The others, and all of them together, in `ServicesProofs`:

* `SentMeansPushed` and `MarksAreKept` (`InboxAssumption`). The invariant says of
  every copy a request may save that it is sent only if its push was accepted,
  and of a request at each await which ids it has to do with: the one it was
  given by its insert, or those it has still to mark.
* `GapsAreExcused` (`GeographyAssumption`). Every type of a fetch is still to do,
  found, or was missed within this tick; the cached list and the misses that
  excuse it grow old together.
* `LimitIsKept`, `LimitSpec => []LimitHolds`, and `LimitTypeCorrect`
  (`LimitAssumption`). The types need a bound on the counter: what it shows and
  the requests about to raise it are together at most the limit and the number
  of requests (`LimitTyped`). While no two requests have overlapped, `Orderly`
  says that the requests admitted since the window began are what the counter
  shows, and those before it, as far back as a window is long, less than the
  limit: when a window ends, its first tick, which admitted at least one, falls
  out of that stretch.
* `HistoryIsComplete`, `StatementSpec => []PagesPartition` (`StatementAssumption`).
  Rows of distinct instants have one order (`OneOrdering`), and what a reader of
  an unchanged table holds before page p is the first (p - 1) * limit rows of it
  (`Reading`); `TotalPages` pages hold all of them (`PagesHoldAll`).
* `StatementIsTheHistory`, `StatementSpec => []StatementMatchesHistory`. The sums
  and the days are arithmetic; the table is laid out in closed form (`Slot`:
  fifteen rows on the first page, 26 on every other), which the recursive
  `Placed` equals by a smallest row that is elsewhere, and `AnyRowsFit` then
  says for a table of any length what `RowsFit` says of 70 rows.
* `ServicesTypeCorrect` and `ServicesKeepPromises`: `ServicesSpec` implies the
  specification of each part (`DepositRunsAlone` and the like; of the limiter its
  safety part, as its fairness speaks of another action), so the types and all
  safety properties of the parts hold of the specification TLC runs.

### Only model-checked

* `SettledIsCredited` and `LimitLifts`: temporal properties under fairness, which
  like ENABLED are beyond the proof system.
* The properties of the violation runs, which are false.

Induction theorems, whose argument is an operator, cannot be instantiated by the
installed provers; where a proof needs induction over a number or a finite set,
it takes a smallest counterexample from the well-foundedness of the naturals or
of proper subsets instead.

## Plan

Done: payments, sessions, one-time codes and the seven parts of `Services`:
models, properties, abstract specifications, and proofs of every safety
property and both refinements. Next, in this order:

1. What `PaymentLedger` and `SessionLedger` promise by themselves (a wallet moves
   once per payment, an ended session never returns), proved of the abstract
   specifications and carried to the code by `LedgerRefined` and
   `SessionsRefined`.
2. The safety half of `SettledIsCredited` and `LimitLifts`: that a delivery owed
   is never dropped, and that a window or a block never grows without a request;
   fairness then adds the end, in TLC only.

## Not modelled

Everything marked so under "components" in `PROJECT.json`, with the reason.

* Pure I/O or pure functions: mail, SMS, logging, encryption, DTO validation,
  one-off migration scripts.
* Nothing that can go wrong between two steps: fees, beneficiaries, reports,
  countries, which are single statements; the look-up of metadata of files;
  geolocation, GeoNames and the search of places, which ask an external service
  and keep nothing.
* `createWallet`, which never saves. The global `CustomThrottlerGuard` counts
  requests by `RedisService.checkRateLimit`, one atomic MULTI, and never
  refuses one, so that no answer depends on it.
* Without a caller in the repository: `handleIdentityVerification`,
  `updateTransactionStatusCAD`, `createTransaction`, `updateKycStarted`,
  `getTransactions`, `getTransactionByReference`, the marks of liveness and of
  pending verifications. The Paga webhook answers and logs.
* The texts and pushes of `AptPayWebhookService` (1089-1410), whose errors it
  catches, and the statistics of its events, which only read.

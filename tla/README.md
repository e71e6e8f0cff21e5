# Verification of the olmat backend

Olmat's backend is a NestJS program (one process under pm2, `src/ecosystem.config.js`) in
front of MySQL (TypeORM) and Redis. Users register, register batches of participants
for the competition, and pay for a batch with a QR code that Xendit issues; Xendit reports
the payment with a webhook. A backoffice edits the same tables.

This directory holds TLA+ modules translated from that code, the TLC configurations that check
them, and TLAPS proofs. Paths below are relative to `src/src/` in the repository.

    tlc -config Renewal.cfg MCPaymentFlow       # any run of PROJECT.json
    tlapm PaymentFlowProofs.tla                 # a proof module

## 1. Inventory

| Component | State it keeps | Operations | What is hard | What makes it correct |
|---|---|---|---|---|
| Participants and payments (`app-client/participant`, `app-client/payment`) | tables `participants`, `payments` | `create`, `regeneratePayment`, `generateInvoiceNumber` | concurrent transactions, a count taken under a lock, participants read outside the transaction, a process restart anywhere | keplekId numbers without gap or repeat; a batch belongs to one payment, at its price; only paid-for participants are active |
| Prices (`getPrice`, `getFee`) | none (reads event setting, degree, gateway) | pure | free places, amount 0, rounding | every place that is not free is charged; the fee is the nearest integer |
| Xendit webhook (`core/webhook`, `shared/guards/xendit-webhook.guard.ts`) | `payments.status`, `participants.status`; socket rooms | token check, `paid`, `refund`, `emit`, `joinPaymentRoom` | delivered more than once, late, at the same time; a restart between commit and answer; a setting that changes while a token is checked | a payment is settled once, announced at most once and to the room that waits for it, acknowledged only when durable, and acknowledged in the end |
| Registration (`auth/user`: `register`, `resendOTP`, `confirmation`) | Redis keys `AUTH:OTP`, `AUTH:USER`, `AUTH:SESSION`; table `users` | as named | two keys that expire apart, no transaction over cache and database, failure between any two writes | a user is confirmed with the passcode mailed to its own address; a returned token works |
| Passwords (`auth/user`: `forgotPassword`, `updatePassword`, `update`; `app-client/user`; `entities/users.entity.ts`) | `users.password`, `users.hash`; Redis `FORGOT` | as named | entities loaded, kept over an await and saved whole; hashing in an entity hook | hashed once; reset with one's own hash, once; a replaced password stays replaced |
| Database connections (`database/typeorm-config.service.ts`, every `QueryRunner`) | the driver's pool | take, wait, give back | a request that holds a connection asks for another; one that throws without giving back | not everybody waits for everybody |
| Login, sessions, admins' login (`auth`) | Redis `AUTH:SESSION:<id>` | `login`, `logout`, JWT strategies | users and admins share the key | a session is its owner's |
| Settings (`core/setting`) | a row, copied to Redis without expiry | `findByKey`, `save` | the cache is emptied before the row is written; finds fill it late | the copy is the row; a replaced token stops working |
| Event settings (`core/event-setting`) | one row | find, create | - | - |
| Schools (`app-client/school`, `app-backoffice/school`) | table `schools` | request, accept, delete | accept saves what a delete removed, after the answer | what is deleted stays deleted |
| Backoffice (`app-backoffice/*`) | the same tables | edits | load, change, save whole rows | an edit of one field leaves the others alone |
| Gateways and their logos (`app-backoffice/payment-gateway`) | `payment_gateways`, files | create, update, delete | row and file change one after the other; unlink with a throwing callback; a seed whose logo is no file | an uploaded file stays as long as a row names it; what ends the process |
| Locations, landing page, dashboards | none | queries | - | - |
| Mail, Xendit client, guards, migrations, configuration | none of their own | I/O and wiring | - | - |

How they interact: handlers share nothing in memory but the pool; they meet in MySQL rows, Redis
keys and, through Xendit and e-mail, in what a client was sent. Every `await` is a point where
another handler may run. `PROJECT.json` lists the components with what is modelled of each, and
the hazards with their lines.

## 2. Modules

### Pricing (`Pricing.tla`, `BatchPrice.tla`, `MCPricing.tla`)

`GetPrice`, `GetFee` and `WithinLimits` are the operators behind `getPrice`, `getFee` and the
limits in `create`. Numbers are JavaScript numbers that stay far below 2^53; division by an
`amount` of 0 is modelled by what it does there (nothing is free). `BatchPrice` grows a batch
participant by participant under one event setting and one gateway, and compares the closed formula with a
count of the participants who pay, and the fee with the exact percentage; `MCPricing` gives it every small
setting.

### PaymentFlow (`PaymentFlow.tla`, `MCPaymentFlow.tla`)

`participants` and `payments` are the tables, in order of insertion (a deleted payment keeps its id
with `live = FALSE`). A handler is a record in `req[slot]` whose `pc` says between which
awaits it is and whose other fields are the local variables it will use again.

| Code | Actions |
|---|---|
| `create` | `CreateStart` (school, gateway, price, limits, invoice number, QR code), `CreateCount` (begin, `COUNT(*) FOR UPDATE`), `CreateCommit` (insert the payment and participants, commit) or `CreateRollback` |
| `regeneratePayment` | `RegenerateRead` (participants, outside the transaction), `RegenerateBegin` (the old payment, which opens the snapshot), `RegenerateInvoice` (invoice number, QR code), `RegenerateCommit` (new payment, participants saved, old row deleted) or `RegenerateRollback` |
| `paid` | `PaidUnknown`, `PaidAgain` (already PAID), `PaidLock` (row locks on payment and participants), `PaidCommit`, `PaidEmit` (socket event and answer) |
| environment | `CustomerPays`, `RequestFails`/`WebhookFails` (a statement or a call fails, a deadlock victim, the answer to the webhook's COMMIT is lost), `Crash` |

InnoDB is at REPEATABLE READ. A transaction's writes become visible at its commit, so they are in
the action that commits. Row locks are those of the slot that holds them (`LockedPayments`,
`LockedParticipants`, `GapLocked`); an action that needs one of another's is disabled. A count on an
empty table only locks the gap: two handlers may hold it and then wait for each other's insert, and
InnoDB rolls one back (`CreateRollback`). What a plain read sees is the snapshot (`snapshot`,
taken at `RegenerateBegin`), and `save` writes the columns in which the entity differs from it
(`SavedStatus`).

### Settlement (`Settlement.tla`)

What the system promises about batches and bills, without requests, locks or failures: `Register` (a new
batch on a new bill), `BillAgain` (the batch moves to a new bill and the old one is withdrawn; the batch
stays as it is, or as a whole goes back to unpaid, or on to active if some bill of its was settled) and
`Settle` (a bill that was not withdrawn, once, with everybody on it). PaymentFlow implements it,
`ImplementsSettlement`, under this mapping:

| Settlement | PaymentFlow |
|---|---|
| `issued` | `billed`, the participants a payment was created for (history) |
| `bill` | `participants[p].payment` |
| `active` | who has the status ACTIVE |
| `settled` | payments with status PAID, deleted ones included |
| `withdrawn` | payments that `regeneratePayment` deleted |

Every commit maps to one step and every other action to a stutter. That a batch may go back to unpaid
is not an oversight of the abstract specification but what the code does when a regeneration that read
the batch before the webhook saves it afterwards (`participant.service.ts:573` and `:640`); what
is promised is that this, too, happens to the batch as a whole and never takes a bill back.

### PaymentDesk (`PaymentDesk.tla`, `MCPaymentDesk.tla`)

PaymentFlow composed with two parties that meet it at the same rows. The backoffice's edit of a
participant is `EditLoad`, `EditCompare` and `EditWrite`: load, the `SELECT` with which `save` compares
the entity, and the `UPDATE` of the columns that differ. The client's socket is
`JoinPaymentRoom` (of any invoice, at any time), `Disconnect` and, in `DeskPaidEmit`, what the event of `paid`
reaches. A webhook that fails after its COMMIT announces nothing (`DeskWebhookFails`); `DeskCrash`
takes edit and socket away with the process.

### SettingCache (`SettingCache.tla`, `MCSettingCache.tla`)

`row` and its copy `cache`. `findByKey` is `FindHit`, or `FindMiss`, `FindRead`, `FindFill`; `save` is
`SaveLook`, `SaveRemove`, `SaveWrite`; each step may fail. The reader is either `getAuthorization`
or the webhook's guard with a token, whose comparison is in `Judge`; `NotFound` is what the guard
makes of a missing setting: `validateCallback` rejects in a callback nobody awaits, and the process ends.
A find notes which rows there were while it ran (`seen`), so that a property can speak of a token
that was right at some moment of the check.

### Catalogue (`Catalogue.tla`, `MCCatalogue.tla`)

The rows of gateways and schools, the gateways' logos on disk and what refers to the rows. `update` is
`UpdateLoad` (the upload is stored before the handler runs), `UpdateCompare`, `UpdateSave`, `Unlink`;
`delete` is `DeleteFetch`, `DeleteRow`, `Unlink`; `create` is `CreateCheck`, `CreateSave`, or
`RefusedUpload`; `acceptSchool` is `AcceptFind`, `AcceptMatch`, `AcceptSave`, of which the last two run
after the answer. `save` inserts an entity whose row it does not find, and updates the columns that differ
from what it found. Two handlers can end the process with nothing failing: `Unlink`, whose callback throws when
the file is not there, and `AcceptSave`, whose refused insert nobody awaits; `ends` notes on what.

The tables start empty or with the one gateway that the seed inserts
(`database/seeds/payment-gateway-seed/payment-gateway-seed.service.ts:17-29`), whose logo `logo.img` (`SeedLogo`) no
upload stores and the repository does not hold. The first update of its image, and its delete, therefore end the process
(`payment-gateway.service.ts:95-98`, `:104-107`), with no other handler and no fault involved.

### Registration (`Registration.tla`, `MCRegistration.tla`)

`otp[h]` and `data[h]` are the two cache keys of a hash with the time each expires, `users` the
table, `session` the session keys; `mails`, `returned`, `tokens` are what clients
were sent. Every cache or database access is an action: `register` is `RegisterCheck`,
`RegisterData`, `RegisterOtp`; `resendOTP` is `ResendRefuse` or `ResendOtpSeen`, `ResendRead`,
`ResendRemoveOtp`, `ResendRemoveData`, `ResendSetOtp`, `ResendSetData`; `confirmation` is
`ConfirmOtpSeen`, `ConfirmRead`, `ConfirmInsert`, `ConfirmSession`, `ConfirmCommit`,
`ConfirmRemoveOtp`, `ConfirmDone`. `Fails` ends a handler at any of these points, `Crash` all of
them. A client may confirm with any hash it was given and any passcode it was mailed. A passcode is
named by its secret and counter, which is what HOTP computes it from; two of them
are taken to differ when these differ. `Tick` moves Redis's clock; it waits while `register` is
between its two writes and so little time is left that the first would expire before the second:
with the code's expiries that is 45 minutes.

### Passwords (`Passwords.tla`, `MCPasswords.tla`)

A row is its password, with the number of times it has been hashed, and its reset hash. `save` of
an entity that was loaded earlier compares it with the row as it is then (`ResetCompare`, `EditCompare`)
and writes the columns that differed (`ResetWrite`, `EditWrite`), `update` of one column leaves the others. The
other actions: `ForgotCount`, `ForgotRemove`, `ForgotNote`, `ForgotHash`, `ForgotExpires`; `ResetFind`, `ResetLoad`,
`ResetCounter`; `EditLoad`; `Fails`, `Crash`. `EditLoad` is the profile's own update: the other caller of
`UserService.update`, `UserController` (`app-client/user/user.controller.ts`), is in no module's controllers. The cached counter is modelled with the
two names the code writes it under and reads it by, and with JavaScript's NaN.

### ConnectionPool (`ConnectionPool.tla`, `MCConnectionPool.tla`)

A request is the sequence in which it takes and gives back connections (`Steps`), with a `"risk"` where
it may throw while it holds one outside a `try`. `holder` says who has each connection, `queue` who
waits; a connection given back goes to the first in the queue, as in mysql2, which by default has
10 connections, an unbounded queue and no timeout. A throw in `regeneratePayment` before its try
(`participant.service.ts:585-624`), and a `startTransaction()` that rejects in any of the handlers, keeps its connection
forever (`Lost`): `EndedHoldsNothing` does not speak of those, `SomeoneGoesOn` and `RequestsEnd` hold as long as they
are few enough.

## 3. Runs

| Run | Checks | Bounds |
|---|---|---|
| `pricing` | price = sum over those who pay; fee nearest integer | 14 participants (several blocks of every size), amount 0..4, free 0..5, fees with halves |
| `renewal` | `TypeOK`, `AmountMatchesBatch`, `BatchHasOneStatus`, `PaidMeansActive`, `ActiveIsPaidFor`, `EmitOnceAfterCommit`, `AckIsDurable`, and the refinement `ImplementsSettlement` | 2 slots, 4 payments (a creation, two regenerations of it, a regeneration of the orphan), 3 invoice numbers so that one is reused, keplek numbers run out at 3 (within a second batch of two), 1 fault |
| `settles` | `KeplekGapFree`; `PaidInvoiceSettles`, `RequestsEnd` under `FairSpec` | 3 slots (two on the gap lock of the empty table and a webhook), 2 prefixes (with one, the look for a taken keplekId would hide a repeated number), 2 payments, 2 faults; counts of a table that is not empty are the theorem's |
| `desk` | `DeskTypeOK`, `OnlyEditedDiffer`, `EditedArePaidFor`, `RoomIsTold`; the action property `HeardInTheRoom` | 2 slots, 3 payments (a creation, two regenerations around the edit), 2 invoices (one may be reused), 2 participants (the edited one and one beside it, in one batch or two), 1 edit, 1 fault |
| `registration` | `TypeOK`, `OtpHasData`, `ConfirmedByOwnMail`, `OneUserPerPerson`, `TokenIsUsable` | 2 slots, 2 e-mails with one phone (so both clash and differ), 3 hashes (a registration moved twice, or two registrations and a resend), 2 ticks, 1 fault |
| `passwords` | `TypeOK`, `HashedOnce`, `ResetByOwnMail`; while no profile is edited `UsedHashIsDead`, `ResetsDoNotRevert` | 2 slots, 2 users, 3 passwords, 2 hashes, 1 edit, 1 fault |
| `pool` | `TypeOK`, `EndedHoldsNothing`, `SomeoneGoesOn`, and `RequestsEnd` under `FairSpec` | 3 requests, 3 connections, 1 renewal at a time, 1 lost connection: two are left for three |
| `settings` | `TypeOK`, `StaleOnlyByOverlap`, `TokenCheckIsCurrent`, `KilledOnlyWithoutSetting` | 3 slots (a find between two saves, or two finds and a save), 2 settings, 3 saves, 1 fault |
| `catalogue` | `TypeOK`, `LogoExists`, `EndsByRaceOrSeed`, `DeletedStaysDeleted` | 2 slots (two accepts that insert one school again; two updates of one gateway), 2 gateways (with and without the seed's), 1 school, 2 codes, 3 uploads (a first one, and one for each of two updates), 1 fault; no step reads or writes rows of both tables, so the constraint `OneTable` follows each without the other |

Some of these properties name an exception, because the code has one, and say what holds outside it; what they
exempt is therefore stated here and not caught by them.
`OnlyEditedDiffer`: an edit that a webhook overtakes writes the participant's old status back.
`RoomIsTold`: a restart, or a lost answer to the COMMIT, between commit and emit loses the event for good.
`StaleOnlyByOverlap`, `TokenCheckIsCurrent`: a find that missed the cache and ends after a save fills it with the replaced
setting, where it stays until the next save, as nothing expires it. `LogoExists`, `EndsByRaceOrSeed`: two handlers that
hold one row at once, and the seed's gateway. `DeletedStaysDeleted`: an accept that found the school before a delete
inserts it again. `UsedHashIsDead`, `ResetsDoNotRevert`: edits of the profile, which bring a used hash and a replaced
password back (run `reverted_password`). Nothing in the repository says otherwise of the first five, so that they are stated here
and not as findings.

Runs whose property the code violates, each the statement of a comment or message in the code:

| Run | Finding |
|---|---|
| `repeated_webhook` | "Kalau status sudah PAID, jangan dianggap error" (`webhook.service.ts:65-68`): after the paid payment is regenerated the repeated webhook gets a 500 |
| `empty_renewal` | "Participants not found" (`participant.service.ts:589-591`) tests an array for falsiness; two concurrent regenerations leave a payment for nobody, which can be regenerated again |
| `reverted_password` | "Password updated successfully" (`user.service.ts:148`): a profile edit that loaded the user before writes the old password back |

Noted without a run: the comment "max connection pool size" (`typeorm-config.service.ts:34`) and
`DATABASE_MAX_CONNECTIONS` (`.env.example:19`) are never given to the driver, whose pool has 10.
"Please resend new OTP" (`auth-user.service.ts:139`) cannot be followed, since `resendOTP` requires the OTP key
that has expired (`auth-user.service.ts:210-215`; `ResendRefuse` in Registration). "to many request"
(`auth-user.service.ts:399-401`) is never answered: the counter is written as `ootp_counter`
(`auth-user.service.ts:405`) and read as `otp_counter` (`:397`; `NextCounter` in Passwords, theorem
`LimitIsNeverReached`). Both take one client and no interleaving, which is why no run is spent on them.

Bounds are constants: `MaxPayments`, `MaxHashes`, `MaxTime`, `MaxEdits`, `MaxSaves`, `MaxFaults`, `MaxRenewals`,
`MaxLost`; in Catalogue the ids and file names themselves, which are used up in the end: its run may stop, and
its configuration says so, as does that of Pricing, whose list ends at `MaxLength`. Every other run is checked
for deadlock. A guard on a bound is commented "Bound". In PaymentFlow a request starts only while a
payment id is left for it and for each that runs (`Room`), in Registration the same with
hashes, so that a bound never stops a request half way. Slots are interchangeable, and
so are invoices, e-mails, users and the passwords but the first: the runs of safety
properties use these symmetries, those of liveness none.

### Fairness

`PaymentFlow!FairSpec`: weak fairness of a handler's own steps (Node runs every resolved promise);
strong fairness of the steps that wait for row locks (`CreateCount`, `RegenerateCommit`), because InnoDB queues
the waiters of a lock; strong fairness of the delivery of a paid, unacknowledged invoice, because Xendit
repeats a webhook until it is answered with a 2xx. Faults are bounded and not fair.
`ConnectionPool!FairSpec`: weak fairness of every request that does not wait; the pool itself serves
in order and needs none. `create` and `regeneratePayment` are never obliged to start.

## 4. Proofs

TLAPS proves these for every value of the constants that the named assumptions allow.

**PricingProofs** (from `PricesAssumption`: the columns are unsigned integers): `PriceIsCount`, `FeesAreNearest`.
The count needs no induction over the batch: the places given away are an interval behind the full blocks
(`GivenAreFree`), whose size is known (`IntervalOut`).

**PaymentFlowProofs** (from `BatchAssumption`, `SeqAssumption`, `PriceAssumption`,
`BoundsAssumption`): `PriceBounds` (a price lies between 0 and the price of all participants, for all
batches, prices and settings in Nat), `TypeCorrect`, `KeplekNumbersGapFree`, `EmittedOnceAfterCommit`,
`AcknowledgedIsDurable`. None of the three properties is inductive: that a batch is numbered on from
the last row at its commit needs that the number counted under the lock is still the number of
rows (`CountIsCurrent`), which holds because whoever inserts needs the same lock; that a payment is
announced once needs that a webhook which has locked a payment finds it PENDING until its own
commit, is the only one to hold it and has not announced it (`SettledByOne`, `EmittedOnce`);
and both need that the ids handlers hold are in the tables (`RowsExist`, `Lengths`). Their
conjunction `IInv` is inductive, with a lemma for each action.

**ConnectionPoolProofs** (from `PoolAssumption`, `WorkloadAssumption`): `TypeCorrect`,
`EndedHoldNothing`, `NoDeadlock`. The invariant gives the number of connections a request holds before
each of its steps (`HoldsLevel`), says that who waits is about to take one (`WaitersTake`) and waits
once (`WaitOnce`), and keeps the workload's two bounds. If nobody could go on, every connection
would be lost or held by a request that waits; such a request is a renewal and holds exactly one, so the map
from those connections to renewals is injective, and there would be no more connections than renewals
and losses. `WorkloadAssumption` says there are more. The code does not enforce it: ten renewals that have begun, or requests that threw
early, at the same time empty the pool, which is why the assumption is named.
`NobodyOvertakes` is an action property: whoever gets a connection is the first who waits, if anybody does. It needs
that while somebody waits no connection is free (`WaitOnlyForBusy`).

**SettlementProofs** (from PaymentFlow's assumptions): `BatchesHaveOneStatus`, `PaidOnesAreActive`,
`ActiveOnesArePaidFor`, `AmountsMatchBatches`, and the refinement `PaymentFlowSettles`:
`Spec => ImplementsSettlement`, with Settlement's two consequences on PaymentFlow's tables (`PromiseKept`). The invariant `SInv` adds to `IInv` what the tables keep (`TablesInv`) and what the handlers hold
(`HandlersInv`). Its core is `BatchesAreWhole`: participants move between payments only with everybody
they were billed with. A regeneration reads its participants without a lock, so that what it
knows of them may be out of date when it saves; what makes this harmless is that it has seen a whole
batch, all of it ACTIVE or none (`HoldsBatch`), so that `save` gives back one status to all
(`SavedTogether`), ACTIVE only if a PAID payment was billed for all of them (`PaidForAll`). A webhook activates
under its locks everybody on the payment, so it keeps both. `AmountMatchesBatch` claims the price only as long as no
invoice number was used twice (`InvoicesDiffer`): a regeneration looks its payment up twice by the invoice,
and if the first was deleted and its number drawn again in between, it copies another batch's amount. That takes
a number of the same day drawn a second time.
`TablesOnlyGrow` is the action property: no step takes back a PAID status, whom a payment was billed for, a deletion, an
announcement or a keplekId.

The same module proves PaymentDesk (from `EditsAssumption` besides): `DeskTypes`, `EditsSpareOthers`,
`EditsGiveNothingAway`, `RoomsAreTold`, `HeardFromTheRoom`, `EditsSpareTheFlow`, `DeskTablesOnlyGrow`, `OnlyEditsLeaveFlow`. An edit
that writes back an old status breaks `SInv`, but only for its own participant. So the invariant has a parameter, the
participants it exempts: PaymentFlow's theorems use `SInv({})`, PaymentDesk's `SInv(overwritten)`, and each
action's lemma is proved once for both. `SInv(overwritten)` survives an edit because the participants it exempts only
become more (`ExemptMore`) and because a status read as ACTIVE stays one that was paid for (`EditHolds`). That a room is
told needs that whoever still waits for news of a committed payment is in its room (`WaitersAreInRoom`), and that no step
but the announcement, a lost answer and a restart ends a webhook that has committed (`FlowKeepsCommitted`). `HeardFromTheRoom`
is an action property: at its announcement a payment is PAID and was never announced (`SettledByOne`). The conjunction is `DeskInv`.

**SettingCacheProofs** (from `NoneAssumption` and `BoundsAssumption`): `SettingTypes`, `CopyIsRow`,
`TokensAreChecked`, `GuardKillsOnlyWithoutSetting`. `Apart` is the reason: without an overlap no find runs beside a save,
so that what a find has read is still the row when it fills the cache, and a copy a save removed is still
gone when it writes the row. `FindsSee` says that what a find compares with a token is among the rows there were
while it ran.

**RegistrationProofs** (from `ExpiryAssumption`, `SlotsAssumption` and `BoundAssumption`): `RegistrationTypes`,
`OtpKeysHaveData`, `UsersConfirmedByOwnMail`, `UsersDiffer`, `TokensAreUsable`. A client that finds its OTP key alive finds
its registration because of who may write a hash's keys: until a hash is returned, only the handler that generated it
knows it (`HashesInv`), and that handler writes the key that lives longer first, or, when it moves a
registration, last; once returned, a hash only loses keys, and the OTP key first (`CacheInv`). `MailInv` follows a
passcode from the e-mail through the cache and the handlers into the table. `UserInv` says that the e-mail,
the phone and the id of an open transaction are nobody else's, which is what its commit needs;
`UsersStayAsConfirmed`, an action property, says that no commit therefore changes a user who is there.

**PasswordsProofs** (from `PlainAssumption`, `SlotsAssumption` and `BoundAssumption`): `PasswordTypes`, `PasswordsHashedOnce`,
`ResetsByOwnMail`, `UsedHashesAreDead`, `ResetsKeepReplaced`. Whoever is about to save an entity holds in it either the
hashed password it loaded or a chosen one that was never hashed (`RoundsInv`); a row's reset hash, and the one an
entity carries, were mailed to that user (`MailInv`); and as long as nobody edits a profile the only entities that are saved
carry no hash and a newly chosen password (`NoEdits`), which they will write, and the hash they leave alone is not the one
they used (`PendingResets`). `OnlyOwnersChange`, an action property: a password changes only by a
reset with a hash mailed to its user, or by that user's own edit. `LimitIsNeverReached`: "to many request"
is never answered, whatever limit above 0 was meant, since no entry ever counts in `otp_counter` (`NothingCounted`).

**CatalogueProofs** (from `IdsAssumption` and `SeedAssumption`): `CatalogueTypes`, `LogosExist`, `EndsByRacesOrSeed`, `DeletedRowsStayDeleted`. A
file's name is given once, so that only the handlers of one gateway ever know it (`LogosInv`); unless two of them held the
gateway at once, its row is what its one handler read, and the file to unlink is no row's any more, and there unless
it is the seed's (`HeldInv`).

Every invariant and every action property of the passing runs is the subject of a theorem. Model-checked only: the
liveness properties, whose fairness and ENABLED are beyond the prover. No module uses a RECURSIVE operator.

## 5. Not modelled

- Nine tenths of the repository's lines are two constants, `SEKOLAH.constant.ts` (118,391 lines of schools) and
  `KECAMATAN.constant.ts` (11,229 lines of subdistricts), which the seeds insert: data without behaviour.
  Of the rest, most are controllers, DTOs, entities' declarations, wiring and queries.
- `refund` in the webhook looks the payment up by the QR code's id in the invoice column
  (`webhook.service.ts:41-45`) and never finds one: none of its code behind the lookup can run.
- Expiry of QR codes, and the payment statuses EXPIRED, REFUND and CANCEL, which nothing stores today.
- Event settings, gateways and degrees change in the backoffice while requests run; PaymentFlow takes them as
  constants, and one price for all degrees. Event settings and degrees are rows that one handler
  loads and saves; Catalogue shows that shape for gateways. An empty table of event settings refuses the entity without
  columns that the handler saves first (`event-setting.service.ts:33`).
- Login, logout, the JWT strategies and guards: one read or one write of a session key each, nothing read is
  used after an await. Users and admins share `AUTH:SESSION:<id>` (`cache-key.ts:2`), so that one ends
  or replaces the other's session with the same id.
- Admins and roles: edits of one row. The admins' entity hashes the password at every update
  (`admins.entity.ts:33`); Passwords' mutant `SetPasswordAlways` is this entity's hook.
- The participants' uploads: each has a name of its own and one request that unlinks it.
- E-mail delivery, HTTP, validation of input, formatting of keplekIds and invoice numbers (a number is a model
  value).
- The change of e-mail and phone in the profile: Passwords' users keep theirs.
- Transactions in ConnectionPool: a connection is held or not, what is done with it is PaymentFlow's.
- Locations, landing page, dashboards: queries. Migrations, and the seeds but the gateways': run by hand before the program.

## 6. Plan

What would be worth adding, most important first:

1. Event settings and gateways that change while a `create` or a regeneration runs, as variables of
   PaymentFlow: a batch priced before a change and committed after it.
2. `Sessions`, with the key users and admins share and what a logout or a changed password leaves valid.
3. A room for every client of PaymentDesk, and several edits at once: the first is one socket, the second one
   handler.

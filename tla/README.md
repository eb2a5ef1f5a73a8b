# A formal model of the UGC marketplace backend

The backend (NestJS, TypeORM, Postgres, Mercado Pago) lets a company hire a content creator: it sends a direct
invite or publishes an open offer, pays, the creator answers, the job takes place, both sides confirm it, and money
ends as a payout to the creator, as credit in the company's internal balance, or as a refund. The TLA+ modules
here follow that code handler by handler; TLC checks them on small instances, and TLAPS proves the most important
invariants for every value of the constants.

Paths in this file are relative to the repository's `src/` (so `billing/…` is `src/billing/…` there); line numbers of each
definition are in `PROJECT.json` under `map`.

## 1. How the program executes, and how the models see it

* One Node process per replica; every request handler, webhook and cron is a chain of `await`s, so any two of them
  interleave at each `await`. Replicas run the same crons without a lease.
* Postgres in READ COMMITTED. A handler is safe only where it takes a row lock (`pessimistic_write`), issues a
  conditional `UPDATE … WHERE status = …`, or meets a UNIQUE index. **In the models, everything between the first row
  lock (or conditional UPDATE) of a transaction and its commit is one action.** A read without a lock ends its action, and
  what the handler remembers is kept in a variable (`task[s]`, or the lists of a cron).
* `manager.save(entity)` writes the columns in which the loaded entity differs from the row: a save of an old copy
  overwrites what others wrote meanwhile. The models save the remembered copy.
* Events (`EventEmitter2`) are in memory and emitted after the commit. There is no outbox: a crash in between loses
  them.
* Mercado Pago answers, repeats notifications under different ids, delays and reorders them.
* Failures: a statement may throw, a process may stop between two statements. The caller's transaction rolls back, what
  was committed stays.

## 2. Inventory

| Component (source) | State | Operations | Talks to | What is hard | What makes it correct |
|---|---|---|---|---|---|
| Company balance (`billing/company-balance.service.ts`) | balance row, ledger, refund requests | creditFromPayment, useCredit, requestRefund, approve/reject/markPaid | called by accept/reject, crons, payments, webhooks | first row of a company; unlocked reads of refund requests; anti-fraud cap | balance = sum of the ledger, 0 ≤ balance ≤ cap, a payment credited once, a refund debited once |
| Payments (`payments/payments.service.ts`) | payment row | initiatePayment, processPayment (card, PIX) | gateway, balance, contract, payout | gateway call between read and save; planned credit is not reserved; retries | nothing owed without money; paid = confirmed completely; one charge at a time |
| Webhooks (`payments/webhooks/webhooks.service.ts`) | provider events | processWebhook (reprocessEvent has no caller) | gateway, payments, contract, payout, balance | two notifications of one charge; late and reordered ones; crash after the event row | an event is applied once; a paid payment does not go back |
| Gateway adapter (`payments/providers/`) | none | create preference, card, PIX; fetch status | Mercado Pago | status mapping | the status names the charge's state |
| Payouts (`payments/payouts`) | creator_payouts | markAsPaid, list | payments | two statements on a status read before | a payout is paid once |
| Contract requests (`contract-requests/`) | contract_requests | create, accept, reject, cancel, complete, confirmCompletion, disputeCompletion | payments, balance, scheduling, conversations, events | creator against cron; last confirmation against cron | closed stays closed; the money follows the answer |
| Invite expiration cron (`billing/invite-expiration.service.ts`) | none of its own | processExpiredInvites | contract, balance | list without a lock; two transactions per invite | an expired invite is closed and credited |
| Job completion crons (`billing/job-completion.service.ts`) | none of its own | transitionJobsToAwaitingConfirmation, autoCompleteExpiredContests | contract, events | list without a lock; two lists; replicas | a job is settled in the end, completion announced once, tacit only if silent |
| Open offers (`open-offers/`) | offers, applications | create, apply, withdraw, cancel, selectCreator | contract, scheduling, conversations | application against selection or cancellation | a filled offer has one contract and one selected application |
| Scheduling, bookings, availability (`scheduling/`, `bookings/`, `availability/`) | bookings, weekly rules | ensureNoConflict, create/transition booking, replace rules | contract requests, open offers | different locks for the same conflict | a creator is never booked twice for one instant |
| Referrals (`referrals/`) | partners, codes, referrals, commissions | claim, qualify on completion | completion event | event lost; claim after completion | a referral qualifies once and pays one commission |
| Reviews (`reviews/`) | reviews, profile average | create | contract | average without a lock | average = mean of the reviews |
| Conversations (`conversations/`) | conversations, messages, reads | create, send, mark read, lazy close | contract, notifications | status read before the insert | no message after closing |
| Notifications (`notifications/`) | notifications, push tokens | create, push, mark read | events | save after push | read stays read; one per deduplication key |
| Users (`users/`) | user, profile, portfolio | bootstrap, update | auth | several rows without a transaction | every user has its profile |
| Profile location (`profiles/services/profile-location.service.ts`) | coordinates, geocoding status | update address, geocode | geocoder | late answer for an old address | coordinates belong to the address |
| Pricing, financial snapshot, hubs (`contract-requests/`, `creator/`, `company/`) | none | pure calculations and mappings | – | rounding, status cases | the parts sum to the total |
| Profiles, legal, job types, portfolio, uploads, geocoding, auth, settings, health, migrations | rows written once or replaced as a whole | CRUD | – | – | – |

Every component is also listed in `PROJECT.json` with its status and the reason for it; the hazards, each at the line
where it bites, are listed under `hazards`, with the properties that cover them.

How they interact, in one paragraph: `initiatePayment` and `processPayment` create the payment and its charge; the card's
answer or a webhook confirms it, which moves the contract from `PENDING_PAYMENT` to `PENDING_ACCEPTANCE`, inserts the
payout and debits the credit used. `accept` marks the payment `APPLIED`; `reject` and the expiration cron turn it
into credit. Selecting a creator in an open offer creates a contract that is `ACCEPTED` before it is paid. After the
job's end the completion crons, or the users, take an accepted contract to `COMPLETED` or `COMPLETION_DISPUTE`; completion
is announced by an event that referrals and notifications listen to; a conversation is closed by the next request that touches it.

## 3. The modules

### CompanyBalance — `billing/company-balance.service.ts`

| TLA+ | Code |
|---|---|
| `available`, `rows` | `company_balance.available_cents`; whether the company has a row |
| `settlement` | `Payment.settlementStatus` |
| `ledger` | `company_balance_transactions`, in commit order |
| `refund` | `refund_requests` |
| `task[s]` | what a handler knows between two awaits |

`creditFromPayment` is `CreditFromPayment` when the balance row exists (its lock serialises the rest) and
`BeginFirstCredit` / `CommitFirstCredit` / `AbortFirstCredit` when it does not: there is nothing to lock, and the UNIQUE index
lets one of two inserts through. `EffectiveCredit` is the anti-fraud cap, with the loss of what it cuts off.
`requestRefund` is three steps (read of the balance, count of the pending ones, insert). The administrator's actions are a read
(`Begin…`) and a later save; `MarkRefundPaid` locks the balance only after the read. `ApplyPayment` is what
`ContractRequestsService.accept` does to the settlement. A company whose balance row is missing has the balance 0.
`WalletKept` at the end of the module is its refinement of Wallet.

`CompanyBalanceHistory` adds two history variables: `crossedSaves`, the refund requests that two administrators were saving at one time, and
`crossedRequests`, the companies two of whose `requestRefund` were between the count and the insert at one time. They are never read by an action.
`RefundsKeptUnlessCrossed` is about every other request and company, in behaviours in which handlers cross freely.

### Payments — `payments.service.ts`, `webhooks.service.ts`, accept/reject

One payment per contract (UNIQUE), so a payment is named by its contract. A row keeps the columns the control depends on:
`status`, `externalPaymentId` (`ext`), the charge whose PIX expiry it carries (`pix`), whether an intent was created
(`intent`), the planned credit and the settlement.

* `InitiateNew`, `PayWithCredit`, `InsertPayment`, `InitiateExisting`, `SaveIntent`: initiatePayment, with the retry's reset.
  The credit is planned from the balance read at that moment and reserved by nothing.
* `BeginCard`/`BeginPix`, `ChargeCard`/`ChargePix`, `SaveCharge`, `ConfirmCard`: processPayment. The row is read, the gateway
  called, and the copy saved later. An approved card is confirmed in one transaction that looks for an existing payout.
* `ReceiveEvent`, `LoadPayment`, `ApplyStatus`, `ReadContract`, `ConfirmPaid`: processWebhook. The status is the one fetched
  when the notification arrived; the filter is asked before the transaction; the contract is read in it without
  a lock, and updated by id. The row lock that update takes serialises the check for an earlier debit and the
  debit, which is why the credit is debited once although the payout is not inserted once.
* `ApproveCharge`, `RefuseCharge`, `RefundCharge`, `ExpirePix`: the environment. `Abandon`: a crash, an exception or a
  refused insert at any await.
* `Accept`, `Reject`: the creator's answer, as far as it touches the payment and the balance.

`superseded` is a history variable: the charges a payment row pointed at before.

The module ends with properties that the code does not keep (section 4).

`PaymentsHistory` adds two history variables, contract by contract: `crossed`, whose row two sessions held a copy of at one time, and `overtaken`, who was
answered while a session held a copy of the row (`HoldsCopy`: between the read and the save). No action reads them. `KeptUnlessCrossed` says what
holds of all the other contracts: the settlement follows the answer, the answer stands, and one payout is owed for a payment that keeps reading paid.

### ContractLifecycle — contract status, and the three crons

* `Busy(c)` is the conflict check of `accept`: the creator has a booking over the invite (`Booked`) or an accepted contract that overlaps it
  (`Clashes`). It refuses the acceptance; how agendas come about is in Hiring.
* Users' handlers hold the contract's row lock and are one action each: `Accept`, `Reject`, `Cancel`, `Complete`,
  `ConfirmCompletion`, `DisputeCompletion`. `Accept` and `Reject` settle the payment too, under that lock; the cron's conditional
  UPDATE waits for it.
* `BeginExpiry` / `ExpireInvite` / `CreditExpired`; `BeginTransition` / `AwaitConfirmation`; `BeginAutoComplete` /
  `SelectConfirmed` / `SelectUnconfirmed` / `AutoComplete`: each cron reads a list without a lock and works through it,
  one conditional UPDATE per contract. The expiration cron ignores how many rows its UPDATE affected and credits in
  a second transaction; the completion cron emits its event only when a row was affected.
* `past[c]` says which instants of a contract (`expiresAt`, `endsAt`, `contestDeadlineAt`) have gone by; nothing else of
  the clock matters. `Elapse` of `contestDeadlineAt` needs the phase that sets it.
* `FailExpiry`, `FailTransition`, `FailAutoComplete` are the catch blocks that go on with the next contract; `Crash` stops
  the crons of a replica and loses any of the events not emitted yet.
* `owed` and `announced` count the completion event before and after its emission.

### Deal — what a paid contract promises

An abstract specification with three variables (`phase`, `money`, `told`): a deal is offered, answered once and concluded once;
agreeing keeps the payment, refusing gives it back, at once or later; the conclusion is told at most once. It knows no locks,
lists, crons, replicas or failures. `ContractLifecycle` ends with the mapping (`phases`, `Phase`, the settlements, `announced`), the instance
`Promise == INSTANCE Deal WITH …`, and `DealKept`, which a run checks and `ContractLifecycleProofs` proves.

### Wallet — what the internal balance promises

The other abstract specification (`balance`, `returned`, `spent`): a balance moves only by a purchase given back, once and at most at its price, by the
credit a purchase takes, once, and by money paid back, and stays within what is allowed. It knows no ledger, rows, locks, requests, charges or
sessions. For CompanyBalance what is allowed is 0 to the cap, and a pay-back is a refund.

### Quotes — `pricing.service.ts`, `transport.service.ts`, `financial-snapshot.service.ts`

Operators without state: `Rounded` is `Math.round`, `ServiceSnapshot` splits the gross price, `Transport` prices a distance with
its minimum, `ContractSnapshot` puts a contract's terms together. Hiring uses them for every offer and contract it creates.

### Hiring — `open-offers/`, `contract-requests/` (create, accept), `bookings/`, `availability/`, `scheduling/`

| TLA+ | Code |
|---|---|
| `offer`, `application`, `contract`, `booking` | the rows' statuses; offers and contracts with their snapshot of terms |
| `window` | `availability_rules` of the one day the model has |
| `claims` | handlers between their check and their write, with the row locks they hold |
| `fee`, `now` | `platform_settings.platformFeeBps`; the clock |

`ApplyCheck`/`ApplyInsert`, `WithdrawRead`/`WithdrawSave`, `CancelOfferRead`/`CancelOfferSave`, `SelectCheck`/`SelectCommit`,
`AcceptCheck`/`AcceptCommit` and `BookCheck`/`BookCommit` are the handlers that await between the two; `Abort` is the end of any of them
before its commit. What they lock keeps the others away: `OfferLocked`, `UserLocked` (a row inserted for a creator
needs a share lock of the creator's row through its foreign key). `HasConflicts` is the check they all share. `Racing` names the creators
whose requests may cross: for the others `MayStart` lets one check begin when no other is between check and write.
An instant is finer than a minute (`Second`, `Minute`, `Hour`, `Day` are lengths in instants): `MinuteOfDay` drops what is below the minute, as
`getSaoPauloTime` does, and reads the first hour of a day as its formatter does (`Midnight`), so `FitsWindow` compares minutes and knows that 24:00 is
refused by `convertTimeToMinutes`. That a booking stays on one day is asked of the calendar dates of its start and of its last second.

### Hubs — `company-offers.service.ts`, `creator-offers.service.ts`, the older lists

Operators from a row, and the instants of it that have gone by, to what is shown: display and perspective statuses, sections, available
actions, counters. The module has no variables; Engagement and Hiring evaluate it in each of their states.

### Engagement — `conversations/`, `reviews/`, composed with ContractLifecycle and Hubs

`LifecycleStep` is any step of ContractLifecycle, in which an acceptance also creates the conversation (`ConversationsFollow`).
`ListConversations` creates what is missing and closes what is over; `GetMessages` shows a page and moves the mark; `SendCheck`
and `SendCommit` are the two ends of `sendMessage`; `Review` inserts one. `clock` counts messages, and `Milli` of its units
are a millisecond: a message is dated in the finer unit, a read mark in the coarser one. `shown` is a history variable: what a side has
seen.

### Aftermath — `notifications/`, `referrals/` (completion), `reviews/` (reputation), `payouts.service.ts`

`Emit` puts an event into the queue of each of its listeners (`deliveries`); what happens to a delivery is `LookUp`, `Insert`, `FindTokens`, `Send`,
`SavePush` for a notice and `FindReferral`, `Qualify` for a commission; `Crash` forgets all of it. `InsertReview` and `CommitReview` are the
transaction of a review, which counts the committed rows and its own; `ReadProfile` and `SaveProfile` stand for the updates that save a whole
profile. `ReadPayout`, `SavePayout`, `SaveSummary` are `markAsPaid`. `sent`, `crossed` and `overtook` are history variables.

### SignUp — `users.service.ts` (bootstrap), `legal.service.ts`, `referrals.service.ts` (partners, claims), profiles of a role

`step[r]` is where a request is; each statement of `bootstrap` is an action, `Die` may end it at any of them. An error of `claimReferral` is logged
and `bootstrap` goes on (`ClaimFails`). `FindPartner`,
`SeePartner`, `Activate` are the activation of a partner: a save of a row with a known key is a SELECT and then an INSERT or UPDATE.

### ProfileLocation — `profile-location.service.ts` and the updates that save a profile

`UpdateProfile` and `UpdatePhoto` take a copy, `Compare` and `Write` are the SELECT and the UPDATE of its save, `Snapshot`, `Geocoded`
and `MarkAsInvalid` the synchronisation that follows. Coordinates are named by the address they were found for. `mixed` (history) marks
a row that saves with overlapping statements have put together.

### Accounts — SignUp and ProfileLocation side by side

The two share no row, so a step is one of the one or of the other. `MCSpec` of the run lets a behaviour move only one of the two.

The MC modules give the constants their values. Definitions commented `Mutant:` are plausible bugs in the definition they
precede; each shows that a property can fail. They are used by no action of the specifications.

## 4. What is checked

Ten runs pass, two are expected to fail; each asks one question of the system.

| Run | Instance | Shows |
|---|---|---|
| `company_balance` | 1 company without a row, 2 payments (3 and 2, the second using 2 of credit), 2 refunds, 2 sessions, cap 4 | `LedgerExplainsBalance`, `BalanceWithinLimits`, `CreditedExactlyWhenConverted`, `RefundsKeptUnlessCrossed` |
| `payments` | 1 contract of total 2, balance 1 (half by credit), 2 charges, 2 notifications, 2 sessions | `NothingOwedUnfunded`, `PaidIsConfirmed`, `CreditDebitedOnce`, `KeptUnlessCrossed` |
| `payments_shared` | an invite and an open-offer contract sharing a balance of 2 that covers either in full, 2 charges, 1 notification, 2 sessions | `NoOverdraft`, `ChargedContractSaysPaid` |
| `double_payout` | as `payments` | `PaidOncePerPayment` is violated |
| `lifecycle_replicas` | 1 contract, 2 replicas, 1 failure | `SettlementMatchesAnswer`, `CompletedForAReason`, `AnnouncedOnce` |
| `lifecycle_crons` | an invite and an open-offer contract, 1 replica, 1 failure, fairness | `DealKept`, `InviteIsClosed`, `JobIsSettled` |
| `hiring_offers` | 1 offer, 1 invite, 2 creators whose requests cross, 2 fees | `HiredOnce`, `TermsKept`, `ShownPendingIsOpen` |
| `hiring_agenda` | 1 offer, 1 invite, 4 bookings, a creator whose requests cross and one whose do not, 2 windows, a day of 6 minutes and 12 instants | `NoDoubleBooking`, `BookedInsideWindow` |
| `hiring_selection` | as `hiring_offers`, with the column as declared | `SelectionHires` is violated |
| `engagement` | an invite with 3 messages at 2 units a millisecond; a selected contract that overlaps it; an invite over a booking; 1 replica | `ConversationFollowsContract`, `CountedUntilPassed`, `HubOffersWhatWorks`, `HubsAgree` |
| `aftermath` | 2 contracts of 1 referred creator, 1 payout, 2 administrators, an event emitted twice, 1 push token | `PushedOnce`, `CommissionPerReferral`, `ReputationLagsOnlyByCrossing`, `SummaryFollowsPayout`, `ReadUndoneByItsPush` |
| `accounts` | 3 sign-ups for one email and one with its referral code, 2 activations; 3 addresses, 2 updates | `SignUpIsWhole`, `PartnerHasCode`, `CoordinatesMatchAddress` |

Bounds, and why they are enough for these questions:

* *Two sessions, replicas, administrators, updates, activations.* Every race in this code is between two handlers: one that read and
  one that commits in between. They are reused, so a behaviour has any number of operations. The one race known to need three
  (`SuspendedHasNoCode`, below) is two activations and a suspension.
* *Two payments and a cap they exceed together; a debit neither credit covers alone after a refund.* The cap cuts
  to a positive amount and to zero; the refund, the debit and the second credit compete.
* *Two charges and two notifications*: an old and a new PIX, or a card and a PIX, and two notifications
  of one charge or one of each. An id is used once: when ids run out the environment stops, and the sessions may go on.
* *Balance below the total* makes a payment use credit and the gateway; *balance equal to the total* takes the path
  that never reaches the gateway, and two contracts compete for it. A `refund` may come after everything.
* *`MaxFailures` = 1* is one failed statement or one crash per behaviour (with a crash losing any subset of the
  events). A second failure adds another run that fails the same way. The proofs hold for any number.
* *One offer, two creators* (`hiring_offers`): two applications that can be selected, withdrawn and rejected. `Horizon` = 1 is before
  and after the offer's expiry. The fees 25 % and 50 % of 3 cents round differently.
* *The agenda* (`hiring_agenda`): b1 and b2 overlap and are the first creator's, who may race; the second creator's invite
  overlaps b3 and the offer, and b3 ends the instant the offer begins, which is no overlap. b1, b2 and b3 start and end half a minute
  after a minute; b4 ends at midnight. The windows end at the fourth and the fifth minute of the day, so that b2, which ends in the fifth, fits one of
  them and not the other. Time stands still there: no check of it compares two instants of the clock.
* *`engagement`*: the job of the selected contract has not ended (`SelectedJobAhead`), but it may be cancelled, which frees the creator for the
  overlapping invite; both invites go through everything. Messages are written about the first one, when the selected contract is over and the
  second is not paid yet (`ChatIsOfTheFirst`): conversations of different contracts share nothing.
* *Three messages at two units a millisecond*: two messages in one millisecond, and one in the next.
* *`MaxEvents` = 2* in `aftermath` lets any two events of the four kinds be under way together, a repeated one included; the payment
  of a payout is not counted. Profiles are edited while no notice or payout is under way (`Quiet`), with which an edit shares nothing.
  `Reviewers` is the company: what the creator writes goes to the company's reputation in the same way.
* *`accounts`* checks two components that share no state: a behaviour is one of the one or of the other. Partners are activated once the requests of
  their email are over (`Settled`), with which they share nothing; the request that gives their code runs all the time.
* `CHECK_DEADLOCK FALSE`: the system may stop, because users owe no action and the bounded ids are used up.
* Symmetry (sessions, refunds, charges, notifications, administrators, activations, updates) is used only in runs without liveness; the
  actions and properties name none of these values.

Two constants choose between two databases or two runtimes. `DescriptionMissing` = TRUE is the schema the repository declares, under
which no selection commits (`hiring_selection`); the other runs of Hiring take FALSE, a database that accepts the insert, because
what follows a hire would otherwise never happen. `Midnight` = `Day \div Minute` is the formatter as Node runs it (24:00, which the time
parser then refuses); 0 is the hour cycle that reads it as 00:00.

**Fairness** (`FairSpec` of ContractLifecycle). Weak fairness of the steps of each cron of each replica: `@Cron` timers
fire for ever, and a run that has work continues after an exception. Weak fairness of `Emit`, which is the statement after the
commit, and of `contestDeadlineAt` going by, which is the clock. Nothing is assumed of users: the invite may stay
unpaid, and nobody needs to accept, confirm or dispute. `failures` is bounded, so failures end; without that no retry
could ever be shown to succeed. The other modules promise nothing that must happen: their events and requests may be lost.

### What the code does not keep

Two runs are expected to fail, and each has an entry under `findings` that quotes the repository's own statement.

* `double_payout`: the webhook inserts a payout without looking for one; two notifications of one charge, or a
  notification and the card's answer, owe the creator twice.
* `hiring_selection`: the contract that a selection inserts passes no description, which entity and migration declare NOT NULL; the
  transaction is rolled back, and no open offer ever hires.

Stated in the modules, refuted by TLC when put into a configuration of the same module, and not kept as runs. Three fail only for the contracts, requests
or companies whose own handlers crossed; of all others they are kept, which a run checks and a theorem proves:

| Property | What breaks it | What is kept |
|---|---|---|
| Payments `SettlementIsFinal` | a save of a copy that is older than the creator's answer | `KeptUnlessCrossed`: contracts not `overtaken` |
| Payments `WebhookKeepsPaid` | a notification's copy saved over a confirmation | `KeptUnlessCrossed`: contracts not `crossed` |
| Payments `PaidOncePerPayment` (the run `double_payout`) | two copies that are both not paid yet; or a refund, after which a retry pays, and owes, once more | `KeptUnlessCrossed`: contracts not `crossed`, not refunded |

In CompanyBalance it is the same with a request that is debited twice (`markRefundPaid` checks APPROVED before it locks the balance) and with a second pending
request (both are counted before either is inserted): `RefundsKeptUnlessCrossed` without its two exceptions.

Two fail for one reason only, which a property of a run names as its exception: Payments `PaidContractSaysPaid` (an open-offer contract paid with credit
alone: `OpenOffer <- OneOpenOffer`, `OpeningBalance = 2`; the rest is `ChargedContractSaysPaid`) and Aftermath `ReadStaysRead` (the save that ends a push
writes back the `readAt` of before; the rest is `ReadUndoneByItsPush`). The others fail even where handlers take turns, or in more ways than one exception names:

* Payments: `OldPixIsIgnored` (a retry sets `externalPaymentId` to null, and until the new code is stored the stale-ID check, which
  `payments.service.ts:500` relies on, lets the old notification through), `OneLivePix`.
* ContractLifecycle: `ExpiredIsCredited` (expiry and credit are two transactions, and the list finds PENDING_ACCEPTANCE only),
  `TacitMeansUnconfirmed` (the list decides whether an approval is tacit; a confirmation before the UPDATE is overlooked).
* Engagement: `PendingReviewIsOfACompletedContract` (an ACCEPTED contract whose job has ended is shown to the company as completed, with
  a review that the handler refuses); `NoMessageAfterTheEnd` (`sendMessage` reads the contract's status without a lock before it inserts; a cancellation or completion commits in
  between, although `conversations.service.ts:444` says "Não é possível enviar mensagens para contratação com status …").
* Hiring: `BookedFitsItsRule` (`getSaoPauloTime` writes hour and minute, so a booking from 08:00:30 to 09:00:30 is accepted in a window that ends at
  09:00, although `docs/AGENDA_E_BOOKING_ARQUITETURA.md:135` says "booking precisa caber totalmente dentro de uma `AvailabilityRule`";
  `BookedInsideWindow` of `hiring_agenda` says that nothing but that minute is lost).
* SignUp: `AnsweredIsWhole` (the request that lost the race answers before the winner is through), `AcceptedTheirTerms` (a re-link
  records the term of the role it asked for), `SuspendedHasNoCode` (two activations and a suspension).
* ProfileLocation: `CoordinatesAreKept` (a failed geocoding of an earlier address, or the save of an old copy, removes them).

`HubOffersWhatWorks` and `HubsAgree` say where the hubs go wrong: `accept_invite` is offered on an invite that the creator's agenda forbids, which `accept`
refuses; and the two sides are shown one stage of a contract exactly while no cron is late. Until the expiration cron comes by, an expired invite is
over for the creator and waits for an answer in the company's list; until the completion cron does, a job that has ended is completed for the company and
going on for the creator. `InviteIsClosed` and `JobIsSettled` say that it passes.

`NoDoubleBooking` and `ReputationLagsOnlyByCrossing` name the exception themselves: requests that cross do double-book a creator, although
`open-offers.service.ts:441` says "Validar agenda com lock transacional", and do lose a review from an average. Noted while modelling and without
a property: `cancelOffer` saves an old copy over FILLED, and `withdraw` over SELECTED; a booking that ends at midnight is refused; a partner who
was deactivated cannot be activated again (`existingCode!.code` of no code), but still earns commissions; a push token that passes to
another user while a push is under way is invalidated for its new owner; a second confirmation of a payment sets `payoutStatus` back to PENDING;
the company's list offers to cancel what is not yet ACCEPTED, which the handler refuses; `contract-request.entity.ts` says the contest deadline
is 48 h after the first confirmation, while `job-completion.service.ts` sets it to 72 h on entering the phase.

## 5. What is proved

`CompanyBalanceProofs` (assumptions `BalanceConstants`, `NoRefundConstant`) proves `IInv` inductive:

    TypeOK ∧ BalanceWithinLimits ∧ SavesExistingRefund ∧ FirstCreditLocks
           ∧ CreditedExactlyWhenConverted ∧ PaidRefundWasDebited

`CreditedExactlyWhenConverted` is not inductive alone: a session that is about to insert the first balance row commits a
conversion it decided on earlier. `FirstCreditLocks` says that its payment is still HELD and that no other session holds it.
`SavesExistingRefund` says that a session about to save a request saves one that exists, so that the save is of a well-typed row.
`TypeCorrect`, `NeverOverdrawn`, `CreditedOnce` and `PaidMeansDebited` follow, for any number of companies, payments, refunds and
sessions, any amounts and any cap. The lemmas `PostLine`, `DebitKeepsCredits` and `ConvertAddsCredit` say what one line of the
ledger does to a payment's credits.

`LedgerAddsUp` is the sum of a ledger of any length, without an induction over it. `LedgerSum` is a recursive function; `EndsAtBalance` says that some
function satisfies its recursion and that each such function ends at the balance. Both halves are inductive over the steps of the system: a
posted line extends the function there is by one value (`RunsOn`), and cutting the last value off a function that runs over the new ledger
leaves one that runs over the old. `SumOfRuns` then says that `LedgerSum` is one of them.

`BalanceImplementsWallet` maps each action to the wallet's step or a stutter under `IInv` and the sum of the ledger. What a payment has `spent` is read off the
ledger, so the proof is about which lines a posting adds.

`RefundsKept` is about `HistorySpec` and assumes nothing of how handlers overlap: it is the invariant that each second debit, lost PAID or second pending
request has its own crossing behind it. Beside `IInv` it rests on two facts about the requests and companies that did not cross: a request that was
debited reads PAID and nobody is about to save it (`DebitedIsPaid`), and who is about to insert a request found none pending, and there is none still
(`InsertsTheOnlyOne`). `HistoryIsSilent` (HistorySpec ⇒ Spec) carries the theorems about `Spec` over.

`ContractLifecycleProofs` (assumption `LifecycleConstants`) has two inductive invariants:

* `SettlementInv` = `TypeOK` ∧ `HeldUntilAnswer` ∧ `ExpiryKnowsInvites` ∧ `SettlementMatchesAnswer`. The credit that follows an
  expiration is safe although its UPDATE's result is ignored: a contract in a cron's lists has been an invite that was
  paid, so after the UPDATE it is EXPIRED, or was answered and is no longer HELD.
* `ReasonInv` = `TypeOK` ∧ `PhaseInOrder` ∧ `ListsAreDue` ∧ `CompletedForAReason`: what a cron listed was due, and an instant
  that has gone by stays so.

From them `SettlementCorrect`, `CompletionJustified`, `TerminalStays` (an action property: each step is shown to leave a
closed contract alone), `AnnouncedAtMostOnce` and `TypeCorrect` hold for any set of contracts, replicas and number of failures.

`StatusFollows` says with which status another may follow (`Follows`), as an action property; `TerminalStays` is a corollary, and
EngagementProofs rests on it. `SettlementInvariant` hands `SettlementInv` to the modules composed with this one.

Its last section proves `LifecycleImplementsDeal`, Spec ⇒ Deal's specification under the mapping: the initial states map to initial
states, and under `SettlementInv` and `AnnouncedOnce` each action of a user, cron or failure maps to the step of Deal it stands for, or to a
stutter. `PhaseMoves` and `MovePhases` say what a change of status is in Deal.  `TerminalIsFinal` is proved and in no run: `DealKept` of the run says nearly as much.

The first section of `HiringProofs` is about Quotes. It proves for every price, rate and distance that the rounded parts sum to the whole (`ShareIsExact`, `ContractIsBalanced`), that
the fee is monotone (`FeeGrowsWithGross`) and that the minimum of the transport is applied (`TransportIsAtLeastMinimum`); they rest on
`RoundedIsNearest`, which says that `Rounded` is the nearest integer, half upwards.

`HiringProofs` (assumption `HiringConstants`) proves `TypeOK` ∧ `RowsKnown` ∧ `ClaimsHold` ∧ `OneSelection` ∧ `HiredFromClosed` ∧ `OneHire`
inductive. `HiredOnce` alone is not: nothing in it says why a second selection cannot commit. While a selection is between check and
commit its offer is OPEN (`ClaimsHold`), only one selection of an offer is (`OneSelection`: the row lock), and an OPEN offer has hired nobody
(`HiredFromClosed`). `RowsKnown` says with which terms each row was created; with `ContractIsBalanced` it gives `TermsKept`.

`ShownApplicationsAreOpen` needs one more invariant, `AppliedToAnOffer`: whoever applied, or is between the two halves of an application or a
withdrawal, found a published offer, whose row is never taken away (`OffersStay`). An application shown as pending is then on an offer that is
neither FILLED nor CANCELLED nor expired, so OPEN, and is itself one of those the company's hub counts. The count is positive because the
table of creators is finite, which `HiringConstants` assumes for this theorem alone.

`AgendaProofs` extends it. `NeverDoubleBooked` rests on `Alone` ∧ `Free` ∧ `NoDoubleBooking`: nobody else is between the check and the write of the same
agenda, and what a check found free is free still, since only such a write could take it. `BookedInItsWindow` has `WindowStands`, that the
window a pending booking was checked against is still set: replacing it needs the row the booking has locked. It assumes `Midnight = Day \div Minute`, the
formatter as Node runs it; the bound it gives is that of the code, less than a minute after the window.

`PaymentsProofs` (assumption `PaymentConstants`) proves `NoOverdraft`, `CreditDebitedOnce`, `NothingOwedUnfunded` and `PaidIsConfirmed` together with `TypeOK` and

    TasksHold ∧ ChargesHold ∧ CreditOnlyIsPaid ∧ InviteHasPayment

inductive, for any number of contracts, charges, notifications and sessions. Handlers work on copies read before an await, so the argument is about what only
grows (`Grows`): a payment is never removed and keeps its credit, an approved charge stays approved or is refunded, a contract never returns to
PENDING_PAYMENT, a debit is never undone. `TaskOK` says what a remembered copy may rely on because of that: its payment is chargeable and has the same
credit, and a copy that says paid has a charge that was approved. `CreditOnlyIsPaid` and `ChargesHold` keep payments that credit
covers away from the gateway (`CreditOnlyIsNotCharged`, which is proved and in no run); `InviteHasPayment` makes the answer's write one of an existing row. The lemmas `TaskStep`, `ChargeStep`, `SaveStep` and
`ConfirmStep` are the four kinds of steps there are; each action is one of them.

Its other sections rest on that invariant.

* `PaidIsSaid` is inductive beside it: `ConfirmContract` writes `paid` whatever status it is given, and only `PayWithCredit` moves a payment to paid
  without it, which is the exception.
* `PaymentsKept` is about `HistorySpec`, in which handlers overlap freely; no behaviour is excluded. For a contract that was not answered inside a window,
  every copy of its row has the settlement of the row, since no answer came after its read; and a settlement goes with its answer
  (`SettlementFollows`). For one whose row two sessions never held at a time, a copy under way is of a payment that is not paid (`Unsettled`), a payout is
  owed only for a paid payment, and its charge is paid if it has one (`PaidByItsCharge`). Each action is shown to keep both for every contract, those of
  other contracts that did cross included.

`AftermathProofs` (assumption `AftermathConstants`) has an invariant in four parts, one over the variables of each: `Notices` (a push is of a notice that is
there, is the only one of it, and has not reached the provider before its last step), `Referrals` (what is being qualified is a
completion of a creator whose referral is PENDING, one at a time), `Reputations` (two reviews of one profile under way have crossed; what an uncommitted average or
the copy of an edit misses, crossed or overtook it) and `PaidOut` (what an administrator saved is PAID). `NoticesStay`, `ReferralsStay`,
`ReputationsStay` and `PaidOutStays` carry a part over the steps of the others. `OnlyItsPushUndoesReading` adds that what is read was created
(`ReadIsCreated`): an insert that gets through the unique key is of a notice nobody can have read. The theorems are about `Spec`; the run's `MCSpec` is a
restriction of it.

`EngagementProofs` (assumption `EngagementConstants`, with `LifecycleConstants`) begins with a refinement: a step of Engagement is one of
ContractLifecycle or leaves its variables alone (`EngagementImplementsLifecycle`), so each theorem about ContractLifecycle holds beside conversations
and reviews, `DealKept` among them (`EngagementKeepsDeal`). Its own invariants are `ChatTypeOK` and `ReadIsShown`, that a read mark is no further
than what was shown.

* `ConversationCorrect`: along an edge of `StatusStep` a contract becomes accessible only by `Accept`, which creates the conversation, and what
  closes one reads a status that is over and stays so.
* `UnreadUntilShown`: a mark is rounded down to the millisecond, so it is at most the date of what was shown; hence a message later than all
  that was shown is later than the mark.
* `HubsConsistent`: the two sides are shown one stage if and only if no cron is late (`SidesAgree`), and lists and counters follow. It is a case analysis of the views over each status and each instant, with `HeldUntilAnswer` (the contract of an open offer is never an
  invite) and `ConversationCorrect`, and equal sets for the equal counters. This proof found an ambiguity: two CASE expressions of Hubs had arms that overlap, for which TLA+
  does not say which one is taken, although TLC takes the first. They now test in the order of the code's `if`s.
* `OffersAreGuarded` is what `HubOffersWhatWorks` says without ENABLED: an offered action finds the status, and the missing confirmation or review, that its
  handler asks for.

`AccountsProofs` (assumptions `SignUpConstants`, `LocationConstants`) has an invariant for each part.

* `SignUpInv`: an account has the role and the email of the request whose INSERT created it (`OfItsCreator`); only that request is at the steps that
  build (`BuiltByItsCreator`), and it has done what comes before its step (`BuiltInOrder`); a role's profile is of an account of that role
  (`RoleProfilesFit`). A request that lost the race goes to the winner's payload and builds nothing. `AccountIsWhole` follows. `PartnerHasCode` is
  inductive beside it (`ActivePartnerHasCode`).
* `LocationInv`: the row is consistent (unless mixed), and so is each copy a request still has to save. The UPDATE writes what differs from the
  row its SELECT saw; when nothing came between, row and copy together are the copy. `CoordinatesFollowAddress` follows.

Only model-checked: `InviteIsClosed` and `JobIsSettled` (liveness under fairness), and `HubOffersWhatWorks` (it names ENABLED).

## 6. Abstractions

* Amounts are small integers; dates are the three instants of a contract, or instants of one day, two of them to a minute; names, texts, geometry and payloads
  are left out. JavaScript's floating point is taken as exact in Quotes, and `commissionRatePercent`, a decimal column, as an integer.
* The payment statuses AUTHORIZED and PARTIALLY_REFUNDED are left out: the code never asks the gateway for a charge that is
  authorised and captured later, and the webhook's filter treats PARTIALLY_REFUNDED like REFUNDED, which is modelled.
  The null settlement of legacy rows is left out too.
* A refusal is an action that is not taken: `expiresAt` in `initiatePayment`, validation of input, the radius of an offer, the acceptance of the
  hiring terms, roles. The statuses SCHEDULED, FAILED and CANCELED of a payout are set by nothing in the code.
* In Payments the credit of a rejection is not capped (it is in CompanyBalance), and the payment's unlocked read and save inside
  accept and reject are one action with the answer.
* In ContractLifecycle the payment exists, HELD, from the start; in CompanyBalance the settlement changes by `ApplyPayment`
  and `Convert` alone. A webhook that saves an old copy of a payment can undo a settlement or an answer: that is in Payments
  only. The settlement theorems of the other two modules, and `DealKept` of ContractLifecycle, are about the crons, users and administrators; `KeptUnlessCrossed`
  says for which contracts payments and notifications keep it too.
* In Hiring a contract's life ends with `Cancel`; completion does not free a creator's time before its end. The insert of a review
  and its count are one step of Aftermath; the reads of a claimed referral are one step of SignUp. A TypeORM save is a SELECT and an UPDATE
  where the difference matters (SignUp's partners, ProfileLocation), and one step where a row lock or an INSERT makes it so.
* A deadlock that Postgres resolves by aborting a transaction is `Abandon` in Payments and `Abort` in Hiring. Whether Postgres accepts
  `bookings.repository.ts`'s FOR UPDATE over a LEFT JOIN is not asked: the transitions of a booking are modelled as the code means them.

**Not modelled**: signature validation and parsing of webhooks, and `reprocessEvent`, which nothing calls; what a preview or a listing
computes besides the statuses in Hubs; the marketplace queries; portfolio media and uploads; the catalogue of job types and the creator's set of them;
authentication, configuration, health and the migrations themselves (their UNIQUE and NOT NULL constraints are guards of the models).

## 7. Plan

Done: every component with a protocol of its own has a module; every safety property and action property that a run checks is proved,
but for `HubOffersWhatWorks`. By proof, `Deal` is implemented by ContractLifecycle and by Engagement, `Wallet` by CompanyBalance.

1. **One life of a contract**: Payments and ContractLifecycle over one set of variables would say what a notification does to a cron's work after the
   answer; each of them alone keeps its side of the deal (Payments for the contracts that were not overtaken).
2. **The amounts along a contract**: that the payout and the debit of Payments are the amounts of Quotes' snapshot.

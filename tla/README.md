# Finyl DCP: a verification of its money paths and client workflow

Finyl DCP is the back office of a digital credit provider (DCP): clients apply
for loans, approvers decide them, Safaricom's M-Pesa pays them out and collects
the repayments, and money that fits no loan waits until two people agree what
becomes of it. The backend is FastAPI, SQLAlchemy and PostgreSQL
(`src/backend/app`, 22,000 lines of Python), the frontend is React.

This directory holds TLA+ modules of the backend's core, the TLC configurations
that check them on small instances, and proofs that TLAPS checks for every
value of the constants. `PROJECT.json` is the index: which definition stands for which lines,
what each run checks, which seeded fault each property catches, the hazards and
the findings.

To check: `tlc -config MCPayout_serial.cfg MCPayout` and so on for each `.cfg`;
to prove: `tlapm PayoutProofs.tla` and so on for each `*Proofs` module.

## 1. How the program runs

What the models take from the runtime, and where it comes from:

- **Web processes.** Each runs one uvicorn worker (`backend/startup.sh`). Plain `def`
  endpoints run in a thread pool, at the same time as one another. The Daraja
  callbacks are `async def` with blocking bodies: each runs from its first statement
  to its last on the event loop, so callbacks of one process never interleave with each
  other, but do with everything else. `deploy/AWS_OPTION2_ECS.md:50` and `:766-783`
  scale the web service to as many as four tasks, and then they interleave too. Two
  settlers of `Payout` or two threads of `Ledger` may both be callbacks. `Webhook` has one live
  worker beside the retry job, as with one web process; what decides there, the unique index, is
  the same for any number.
- **APScheduler jobs** run in threads of their own with `max_instances=1`
  (`services/scheduler.py`), which holds within one process: at most one instance of each
  job at a time as long as one process has `SCHEDULER_ENABLED`, as
  `AWS_OPTION2_ECS.md:459-463` prescribes. `Filing`, `Collections` and the retry job of
  `Webhook` rest on it. The messaging jobs are no jobs of this scheduler but endpoints.
- **PostgreSQL at READ COMMITTED; `autoflush=False`.** A handler that reads,
  decides and commits later is two steps with anything in between, unless it
  locks. `with_for_update()` waits for the row but **does not refresh an object
  the session has loaded**, so an attribute read after the lock may be older than
  the lock. An UPDATE writes only the attributes that differ from what was
  loaded.
- **Crashes.** A transaction that has not committed leaves nothing; what
  Safaricom has been asked to do, it does.

An action is therefore one database transaction (or the part of it before or
after its locks), or one call to Safaricom. Wherever the code reads and commits
without a lock in between, the model has a *job* that carries what was read.

## 2. Inventory

| Component | State | Operations | What is hard | What makes it correct |
|---|---|---|---|---|
| **Loan payout** `services/disbursement.py`, callbacks and resolve endpoint in `routers/payments.py`, sweep in `services/scheduler.py` | `payment_transactions` (type b2c), `loans.status`, balance | intent saved, B2C request, its answer, result and timeout callbacks, reconcile sweep, manual resolution | lost answers, timeouts, crash between request and commit, several settlers | a loan is paid out at most once; records say what Safaricom did; no loan stays stuck |
| **Webhook queue** `services/webhook_security.py`, `services/integration_registry.py`, `routers/payments.py`, retry and purge jobs | `mpesa_webhook_events`, the paybill of each DCP | record, route, process, mark, retry with backoff, purge | redelivery, two workers, a crash between any two commits, a paybill that changes hands | a payment is booked once and in one DCP, nothing is lost or purged early |
| **Repayments ledger** `services/repayments.py`, `payment_matching.py`, `routers/payments.py`, `services/payment_approvals.py`, sweeps of `routers/notifications.py` | `loans`, `repayments`, `suspense_entries`, c2b/stk transactions | paybill, STK prompts, manual, approved and allocated payments; overdue and defaulting sweeps | many channels for one loan and one receipt, stale reads under a lock | balance agrees with collections; a receipt is booked once; paid is final |
| **Suspense, approvals** `services/payment_approvals.py`, `routers/approvals.py` | `pending_approvals`, `suspense_entries`, refund and reversal transactions | raise, approve, reject, refund, reversal, results, timeouts, resolution | two checkers, early release of a lock, unknown outcomes | money leaves an entry once, refunds stay within the overpayment |
| **Lending life cycle and edit lock** `routers/lending.py`, `approvals.py`, `clients.py`, `client_edits.py`, `services/client_edit.py`, `rbac.py` | `loans`, `borrowers`, `impact_surveys`, `client_edit_requests` | register, onboard, survey, apply, approve / reject / escalate, transition, activate, release, edit, review | decisions, payouts and edits racing | approved by right, decisions stand, identity frozen while a loan runs |
| **Pricing and allocation** `services/pricing.py`, `core/money.py`, rest of `services/repayments.py`, `routers/lending.py` (quotes, limits, risk) | the quote, the columns of `repayments`, settings and product | quote, split, settle early, penalise, enter late, raise settings | rounding, zero, boundaries, back-dated payments, terms that change under a running loan | to the cent, what is owed is the price less what was paid; caps hold; early settlement is fair |
| **General ledger** `routers/accounting.py` | none: computed from the rows | export of a window of days | windows that meet, fees that come first, whole shillings | journals balance, windows add up, the cash account is the cash |
| **Messaging** `services/sms.py`, `routers/messaging.py`, `notifications.py`, reports in `routers/integrations.py` | `sms_logs`, opt-outs, templates, automation settings, `loans.status` | reminders, alerts, defaulting per DCP; one message; its delivery report; settings | effects outside the transaction, row waits, partial failure | sent once, billed as sent, opt-outs respected unless a lookup fails, loans do default |
| **Onboarding** `routers/crm.py`, `clients.py`, `guarantors.py`, `kyc_escalations.py`, `validation_prefs.py`, `services/kyc_decisions.py`, `alt_phone_validation.py`, `face_validation.py`, `guarantor.py` | leads, borrowers' KYC flags, wallets, guarantors, escalations, preferences | the gate and conversion of a lead, checks, the decision around a provider call | a session keeps what it read while others commit | a verdict rests on the checks demanded and stands |
| **Regulatory filing** `services/cbk_gdi.py`, `routers/cbk.py`, daily job | `cbk_submission_logs` | five datasets in sequence, nil filings | calls without an answer, restarts, tables that change between datasets | the log tells the truth, nothing is filed twice, every month is filed |
| **Collections** `services/ptp.py`, `ratiba.py`, `collection_analytics.py`, their jobs | promises, consents, efficiency rows | log, change and remind promises; monthly rows; standing orders | a job that swallows what its rows raise | promises are reminded |
| **Figures and exports** `services/analytics.py`, `cbk_exports.py`, `aml.py`; `mpesa_statement.py` | none (AML flags) | portfolio at risk, credit loss, returns, CRB file, AML scan; integrity and score of a statement | three readings of one calendar, windows, rounding | the readings agree; the windows miss nothing |
| **Identifiers** `core/customer_number.py`, `services/mrz.py` | none | check digits, dates | mistyped and misread characters | a mistake never names somebody else |
| Authentication `routers/auth.py`, `services/otp.py`, fences; access and settings `routers/access.py`, `settings.py`, `admin.py`, `core/permissions.py` | counters, codes, roles, settings | login, lock, resolve, grant | | left out: requests are taken as admitted |
| Complaints, impact, field operations, third-party API, integrations, reports, search, AI, frontend, deployment | | | | not modelled, see section 8 |

**How they interact.** A lead becomes a client, whose KYC decision comes back to
its profile (`Onboarding`, `Lending`). Lending hands an approved loan to the
payout (row lock on the loan, status `processing`); the payout's result makes it
`active` and locks the client. Callbacks reach payout, ledger and suspense only
through the webhook queue's processors, live or retried. The ledger parks what
it cannot place in suspense; an approved request of suspense comes back to the
ledger as an allocation or leaves as a refund, through the same durable B2C
protocol, or as a reversal. A repayment that clears a loan releases the client's
edit lock. The jobs of `notifications.py`, which somebody calls every hour, turn loans overdue and defaulted
and tell their borrowers. The general ledger, the returns and the dashboard read
all of these rows and write none.

The modules meet at these points through the same rows: `Lending` takes the
payout and the balance as given, `Ledger` takes loans from `active` on,
`Suspense` counts what became a repayment and leaves the applying to `Ledger`,
`Webhook` takes the processor as "look the reference up, then book it under a
unique index", `Account` takes every request as committed before the next one
and looks at the cents. `Books` is composed with `Account`, `Filing` with
`Portfolio` in `MCFiling`.

The rows of these components that can go wrong in ways a test hardly reaches
are listed, line by line, under `hazards` in `PROJECT.json`.

## 3. The modules

| Module | Models | Proofs |
|---|---|---|
| `PayoutPromise` | what `disbursement.py` promises of a payout, without rows or callbacks | |
| `Payout`, `MCPayout` | the durable payout | `PayoutProofs` |
| `Webhook`, `MCWebhook` | the callback queue and whose paybill it is | `WebhookProofs` |
| `LoanAccount` | what the ledger promises of a loan: payments and penalties serialise | |
| `Ledger`, `MCLedger` | money that comes in | `LedgerProofs` |
| `Suspense`, `MCSuspense` | money that fits no loan, maker and checker | `SuspenseProofs` |
| `Lending`, `MCLending` | clients, applications, approvals, edit lock | `LendingProofs` |
| `Pricing` | the arithmetic, rounding included | `ClientProofs` |
| `Account` | one loan under that arithmetic, from its payout to its last cent | `ClientProofs` |
| `Books`, `MCBooks` | the general ledger of `Account` | `ClientProofs` |
| `Messaging`, `MCMessaging` | the jobs, one message, its report | `MessagingProofs` |
| `Onboarding`, `MCOnboarding` | leads, checks, the KYC decision | `ClientProofs` |
| `Filing`, `MCFiling` | the month's five datasets | `FilingProofs` |
| `Collections`, `MCCollections` | promises, efficiency, Ratiba | |
| `Portfolio` | the figures of a book | `FilingProofs` |
| `Statements` | the signs and score of a statement | `ClientProofs` |
| `Identifiers` | customer numbers and machine-readable zones | `ClientProofs` |

Definitions whose names end in `Fault` are seeded faults: what a plausible bug
would make of the definition that follows. Nothing uses them in the models
themselves; they exist to show that each property notices.

`ClientProofs` is about one client from lead to last cent: it extends `Identifiers`,
`Statements`, `Onboarding` and `Books`, hence `Account`, at once. Two specifications share that
module, so those of `Onboarding` are called `OnboardingInit`, `OnboardingNext`
and `OnboardingSpec`, over the tuple `onboarding`.

### Payout

`txn` are the rows of `payment_transactions`, `pc` is where the request that owns
a row is, `mpesa` is what Safaricom has done with it, `jobs` are settlements
between their reads and their commit.

| Action | Code |
|---|---|
| `Check`, `Reserve`, `GiveUp` | `initiate_loan_payout` up to the commit of the intent (`disbursement.py:103-158`) |
| `Send` | the B2C request: accepted, refused, or an answer that is lost |
| `SaveAccepted`, `SaveRefused`, `SaveUnknown` | the commit of its outcome |
| `SafaricomSettles` | Safaricom pays or declines what it took (external) |
| `ReadResult`, `ReadTimeout`, `ReadSweep`, `ReadResolve`, then `Commit` | `apply_b2c_result`, `mark_b2c_timeout`, the reconcile sweep, `POST /payouts/{id}/resolve` |
| `Repay` | a repayment of the running loan, as far as it moves the balance |
| `Restart`, `ChangeCreds` | the process dies; credentials are saved or removed |

The sweep settles its batch in one commit; the model settles one row per commit,
which has more interleavings and no fewer.

### Webhook

`event` are the rows, `work` is what each of the two workers (the live callback,
the retry job) has in hand, `claims` the DCPs whose settings name the paybill.
`Receive` is `record_event`; `Process(w)` is the worker's next step: the C2B
processor's look-up of tenant and reference, its commit, and the marking of the
event as processed, failed or, at `MaxAttempts`, dead. `PickDue` and `Purge` are
the jobs; `ChangeRouting` saves or removes a DCP's paybill; `Restart` is a crash,
with whatever was in hand cut off. A step may fail after its commit: a database
that goes away between the booking and the marking.

`shortcode_to_tenant` is the DCP whose settings name the paybill, or, for the
platform's own, the only one with payments enabled (`Payers`). Two claims are not
guessed between: the event fails and is retried. The account number (`AccountOf`)
labels the event only, so its label may name another DCP than the one that books.
The code looks the label up before the event is saved and outside the `try`
(`payments.py:244`): an error there loses the callback before there is an event.

### Ledger

A payment reads (`Begin`), takes the loan's row lock (`Lock`) and ends in
`Drop`, `Fail`, `Park` or `Apply`; `Fresh` lists the channels that load the loan
only under its lock. For the others, `SeenStatus` and `SeenBalance` are what was loaded
earlier, which is what the code writes from. `Apply` is `apply_payment`: closes
on the payoff amount, splits an overpayment off as `<ref>-OVR`, or reduces. A payoff
amount of nothing closes the loan and records `<ref>-OVR` only, which no look-up for
`<ref>` finds. `missed` is history: the receipts that a channel let through though
something was booked of them (`MissesNothing`) or was about to be while staff typed the same
reference (`MissesStaff`, two tables without a common unique index). The
sweeps read without a lock and write what they read.

`Ask` and `stk_push` are a prompt that is shown to the customer and the row that
is written for it afterwards; a callback without a row fails until it is dead,
and only the paybill confirmation of the same receipt books it. `FailPrompt` is the
callback that reports a failure. `match_reference` prefers an account number to a
customer number, and parks a payment for a customer with two open loans.

Left open: which loans are past due (any subset), and how much unearned interest
an early payoff writes off (anything up to `Unearned`); `Account` has the amounts.

### Suspense

`Park` raises a request about an entry; `ApproveAllocation`, `Reject`,
`ApproveRefund` and `ApproveLoanRefund` decide. A refund then runs like a payout
(`Send`, `SaveAccepted`, ...), the commit of its intent having released the lock of
its request. A reversal is `AskReversal`, then `SaveReversal` or `DropReversal`,
one transaction around the call. Settlements are as in `Payout`. Users, the
maker # checker guard and permissions are abstracted away: any request may be
approved by someone. Loan refunds come in units of one request; refund
credentials are fixed at the start; suspense refunds that name a loan, which
`refundable_overpayment` counts too, are left out.

### Lending

`create_client`, `create_borrower` and `convert_to_onboarding` register a client
with or without a profile to be decided (`initial_profile_state`), `Onboard` is the
decision. Applications hold their client's row lock (`BeginApply`, `Apply`); every
other handler is a read (`Begin...`) and a commit. `MayDecide` and `Covers` are the tiers a
DCP enables and the limit of a role; `Transition` is `transition_loan` and the sweeps; `BeginSettle` with
`Activate` or `FailPayout` is the payout's result, `BeginRelease` and `Release` a
repayment that clears the loan. `Officers` apply, `Staff` decide, edit and review,
`Cashiers` stand for the threads that settle. `granted` is history: who approved the loan. Limits per
role stand for the overrides per branch and region; account numbers, product
bands and reassignment are left out.

### Pricing, Account, Books

`Pricing` has the quote, what is owed of each part, the three allocation orders,
earned interest by day or by completed period, the early payoff, the in duplum
cap, suggested limits and the risk summary, in whole cents. Rates are whole
percent and a quotient is exact until it is rounded, once, as the code does.

`Account` is one loan: `Disburse`, `PaidOut` and `PayoutFails` price it and pay it
out; `Pay` is a payment through a channel, at the day the customer paid and
possibly recorded later; `Enter` and `Approve` are manual payments below and above
the threshold, `EnterAgain` an upload of the same statement; `Resolve` sends back
or moves what was parked; `TurnOverdue` and `TurnDefaulted` are the sweeps with
their penalty; `SetOrder`, `SetMethod`, `UpdateProduct` change settings under the
running loan; `Tick` is a day. `paid` sums the columns, `rows` keeps them.

`Books` computes an export, as the code does: the lines of every payout,
repayment, receipt and resolution in a window, per account, each sum a fold over
a set of rows.

### Messaging

A job works through one DCP's loans in one transaction; its messages leave at
once (`Send`) and its rows and status changes are seen at the commit. A change takes the
lock of its loan's row when the session is flushed after a message has left, which may
have to wait (`Flush`), so two jobs can wait for each other: `Deadlocked` is what
PostgreSQL breaks, and the message is out all the same. `Visit` looks the template
and the register up, `VisitBlind` is the lookup that fails and lets the message go; if it failed
in the database, the transaction is `Lost` at the next flush. `StartAll` is a call of
`POST /jobs/run-all`, `RunNow` the other endpoints, `Job` a step, `Fail` what breaks a
transaction, `Restart` a crash, `Notice` a message of another request, `Report` a
delivery report. `late` is history: what each runner sent after an opt-out, failed lookups aside.

### Onboarding

`OnLead`, `OnClient` and `OnRequest` group the operations on a lead, those on a
client that are one commit, and the steps of a request that calls a provider or
commits twice; `DeleteWallet` and `UpdatePrefs` stand alone. `work` holds what a
request has read; `window` is history, the checks that held and those that were
missed at some moment of the request (`Watch`).

### Filing

`Job_Step` and `Step(s)` are the steps of a run, by the daily job or by hand:
choose a DCP, extract a dataset and write its `pending` row, call the CBK and
write the outcome. The call may be taken, refused, or taken without an answer. An
extractor that fails costs its dataset (`ExtractFails`), one that fails in the database the
rest of the run and the row (`ExtractBreaks`: nothing rolls the session back). `down` is
history: the DCPs whose run broke off. `Business` changes what the tables hold, `GdiSubmit` and `GdiNil` are the
endpoints, `NextDay` and `Restart` time and crashes.

### Collections

`OfPromises` and `OfRatiba` group the requests, `RunPtpReminders` is the job of
08:00 with the rows it works through, `NextDay` the day with, at the end of a
month, the rows of officer efficiency.

### Portfolio, Statements, Identifiers

Functions over a book, a list of payments, the rows of a statement, the digits of
a number; they have no state. `MCFiling` evaluates those of `Portfolio` on small
books (`ReportsAddUp`, `ScanFindsPatterns`), the proofs are for all.

## 4. The runs

| Run | Instance | Distinct states | Shows |
|---|---|---|---|
| `payout_serial` | one loan, three attempts, one settler, a restart | 3,356 | `NoDoublePayout`: a loan is paid once; `PromiseSpec`: the promise is implemented |
| `payout_races` | one loan, two attempts, two settlers, a restart, credentials that change while nothing is pending | 13,232 | `DurableIntent`, `RecordIsTrue`, `RepeatDeliveryIsNoOp`, `PayoutDecided`: an intent is saved before money can move, the record is what Safaricom did, a settled loan is not taken back or charged again, a payout is decided in the end |
| `webhook_retries` | two events, two messages (the same or not), two DCPs, two attempts, a restart | 374,192 | `BookedOnce`, `NothingForgotten`, `SettledIsFinal`; `EventSettlesUnlessCutOff`: an event settles unless a crash cut it off |
| `ledger_channels` | two loans, two receipts, callbacks, staff, allocations and both sweeps, two threads, payoffs of nothing | 3,684,140 | `BookedOnce`, `PaidIsFinal`: a receipt is booked once through whichever channels it comes unless a look-up missed it, a paid loan stays paid |
| `ledger_races` | two loans, two receipts, STK, approved and moved payments, payoffs of nothing, three threads | 411,587 | `BalanceAgrees`, `AccountSpec`: under the lock payments serialise and `LoanAccount` is implemented |
| `suspense_serial` | one entry, two requests about it, a loan refund approved twice, a restart | 776,848 | `LeavesOnce`, `EntryMatchesMoney`, `RefundsWithinExcess`, `ResolvedIsFinal` |
| `lending_overlap` | one client, two loans, two approvers, one edit request, two officers, two of the staff, one cashier | 2,015,557 | `CyclesDistinct`, `ApprovedByRight`, `LockFollowsLoans`, `IdentityFrozen`, `ReviewedForGood`, `DecidedForGood` |
| `account_books` | two products, two references, a payment that nearly clears the loan and one beyond it, four days, entries a day late, one change of settings | 301,662 | `Accounted`, `InDuplum`, `EarlyIsFair`: the price less the payments is what is owed, penalties stay within the principal, an early settlement costs what is earned; `BooksAddUp`, `CashIsReal`: exports of two periods add up and balance, and the cash account is the cash |
| `messaging` | two DCPs, two loans of one borrower, the hourly call and one member of staff, one fault, one change | 192,630 | `UsageAddsUp`, `QuietAfterOptOut`, `FailuresStayApart`; `EndsDefaulted`: a loan past its grace is defaulted or paid in the end |
| `onboarding` | two clients, one lead, one wallet, two members of staff, two checks or changes | 963,852 | `DecisionsGrounded`, `DecidedStands`, `ConvertedOnApproval` |
| `filing` | two DCPs, one member of staff, a window of two days, two events | 195,219 | `LogTells`, `JobFilesOnce`, `ReferencesResolve`; `EndsFiled`: the month is filed in the window unless something of that DCP's own failed |
| `promise_reminded` (violated) | two promises, three days | | `PromisesReminded`: no promise is ever reminded |

The comments above each property in its module say what it means in full.

**Why the bounds are enough.** The interesting cases of `Payout` need one earlier attempt and
one later one while a stale settlement is under way; three attempts leave one to
spare. The races of `Payout` need a second settler that read before the first
commits, and a third step after both. The hazards of `Webhook` are two deliveries of one payment, the last
attempt, a crash in each half of a delivery and a retry, and a paybill that is
claimed by nobody, one DCP or both. In `ledger_channels` one receipt is prompted,
paid early and worth a loan, which a penalty makes a part of one; the other comes under a
customer number that fits both loans or, once one is paid, the other, and is too much for it.
In `ledger_races` one receipt is less than the loan (1 of 3) and one more than all of it (4), and
as much of the rest may be unearned as makes a payoff of nothing. In
`Suspense` two requests of the same entry can succeed
each other with both kinds of transfer, and the third is approved twice. In
`Lending` one loan is above the lower approver's limit and one within it, the
second application of the client is the one the cycle and survey rules are
about, and two of the staff are as many as can have read the same row and disagree,
beside the cashier and an application.

In `Account` a week is a day and a month two, so that a term, its end, the grace
and a penalty lie within four days; the principal of 100.50 and rates of 7 and
20 percent make splits that round; the two products differ in every field and
one may replace the other under the running loan. In `Messaging` both loans are due at
once, the three legs of the hourly call against the defaulting leg of staff, with one refusal, lost
answer, failure (of a lookup or a transaction) or restart, and the second DCP shows that it is left alone. In
`Onboarding` the policies are the default, the face alone (the one check that
escalates), and two sets nobody passes; two overlapping requests for one client
with a check between their readings are what the hazards ask for. In `Filing` the
two events pay for any two of a failure, a restart, a change of the tables and a filing by hand.

Nothing else is cut: no constraint narrows a run, and the only counters
bounded are those named `Max...`, `Last...` and `Late`. `CHECK_DEADLOCK FALSE` where
the system may come to rest: every loan is paid, every event settled, the days over.
`MCMessaging` checks deadlock.

The inductive invariants of the proofs (`...Inv`, `Kept`, `RequestsTrue`, `BooksKept`)
were found by TLC to hold on the instances that meet the proofs' conditions before they were proved, and
type invariants are stated by the theorems `TypeCorrect`.

**Fairness.** `Payout!FairSpec`: a request that has saved its row goes on to its
end unless the process dies; Safaricom settles what it queued; a settlement that
has read commits; and staff work through the payouts the reconciliation report
lists (`POST /reconcile-disbursements`), which is the code's answer to lost callbacks.
No callback is promised, and neither is a sweep: `PayoutDecided` holds with every
callback lost. `Webhook!FairSpec`: a worker goes on with what it has in hand
(weak), and the retry job comes to each due event (strong: due events are taken
oldest first, so an event that is due again and again is not passed over for
ever). No fairness on arrivals, restarts or routing. `Messaging!FairSpec`: the
steps of a job are strongly fair, because a job that waits for a row stands in
PostgreSQL's queue and gets it when its turn comes, however often the row is taken;
a deadlocked or lost transaction is ended (weak); the hourly call comes at each hour (strong: the
model's caller waits for its last call). That call is external: `run_all_jobs` is
"intended to be invoked hourly by a scheduled task" (`notifications.py:186`), and without it
nothing defaults by itself. Nothing keeps two calls from overlapping; `Cron` may have several
members, and the proofs hold for any number, while the run has one beside a member of staff who runs a
leg at the same time. Time needs none.
`Filing!Spec`: the daily job takes its steps, a request by hand takes its steps,
and the days pass (all weak).

## 5. What is proved

TLAPS proves the following for all values of the constants that meet the named
assumptions; section "theorems" of `PROJECT.json` lists them one by one.

| Module | Without further conditions | With conditions |
|---|---|---|
| `PayoutProofs` | types; intents are durable; repeats are no-ops | records are true (`Careful`); paid once, loan agrees, implements `PayoutPromise` (`Careful`, `Serial`) |
| `WebhookProofs` | types, booked once, nothing forgotten, settled is final | |
| `LedgerProofs` | types, paid is final, a receipt is booked once unless a look-up missed it | balance agrees, paid is clear, implements `LoanAccount` (`Orderly`) |
| `SuspenseProofs` | types | money leaves once, entries match, refunds bounded, resolved is final (`Serial`, `Careful`) |
| `LendingProofs` | types, cycles are never shared, approved by right; identities, reviews and decisions stand | lock follows loans (`Serial`) |
| `MessagingProofs` | types, bills are what was sent, opt-outs are kept but for what was in hand and for lookups that fail, one DCP's failure leaves the others alone | |
| `FilingProofs` | types, the log tells the truth, what the job files is in sequence and never twice, references resolve among the datasets that are not in error; of `Portfolio`: the three readings of a book agree, when capital falls short, the scan's windows miss nothing | |
| `ClientProofs` | `Account`: types, every cent accounted for, in duplum, early settlement fair; lemmas of `Pricing`: a split loses nothing, what is owed is the balance, interest is earned within the term, a payoff is the earned balance, a suggested limit can be quoted | |
| | `Onboarding`: types, decisions rest on checks, a verdict stands, clients are converted on the officer's word | |
| | `Books`: an export balances, two periods say what one says, the cash account is the cash | |
| | `Statements`: how far a score can go, one altered balance shows; `Identifiers`: a mistyped digit is caught, a swap of neighbours too (but 0 and 9), a misread character of a zone is not trusted, births are plausible | |

The conditions are part of the result: they say what the code relies on.

- `Serial`: one thread that settles at a time (`Settlers` in Payout and Suspense, `Cashiers` in
  Lending). The code does not enforce it; the constants without it break the property, see section 6.
- `Careful` (Payout): staff do not resolve a payout whose request is still
  running, and credentials change only while nothing is pending. (Suspense):
  the first of these, and no reversal taken by Safaricom is answered with an error.
- `Orderly` (Ledger): one thread, or only channels that load the loan under its
  lock and no sweep.

Where a handler reads, decides and commits without a lock, the code cannot promise that what
was decided stands: whoever read the row before may still write over it. What it does promise,
and what `RepeatDeliveryIsNoOp`, `PaidIsFinal`, `IdentityFrozen`, `ReviewedForGood` and
`DecidedForGood` state for any number of threads, is that this ends: **once nobody who
read the row before the decision is under way, the decision stands for ever**, whoever comes
later and however they overlap among themselves. Section 6 has what the overlapping handlers
do in the meantime.

**The arguments.**

- *Payout.* "Paid once" is not inductive: a loan that was paid and whose record
  says `failed` could be paid again. `RecordInv` says that the record of each
  payout, the place its request has reached (`HandlerState`) and every settlement
  under way (`JobsTruthful`) tell the truth about Safaricom. `SerialInv` adds that
  one row of a loan at most is open or successful and the loan's status follows
  from it (`OneLive`), and that what the one settlement has read is still there
  (`JobsFresh`). The refinement maps `paid` to the payouts that have been paid
  according to Safaricom or, simulated, the record: `PaidOut`.
- *Webhook.* `WebhookInv`: the live worker holds a `received` event and the retry
  job a `failed` one, hence never the same (`HeldApart`); a worker at its end has
  booked its message (`OkIsBooked`); attempts are counted by status. None of it
  depends on whose paybill it is, so routing may change at any time; what then can
  go wrong is that two DCPs book one message each once (section 6).
- *Ledger.* `LedgerInv`: a lock has one holder (`LockedAlone`) and what a job will
  write from is what the row holds (`SnapshotsTrue`), true for a job once it holds the
  lock if it loads the loan under it. "Booked once" rests on `BookInv`, which knows nothing of balances:
  where a receipt is says what was booked of it (`ReceiptState`), staff who type a reference in
  are alone with it, and what was booked since a callback looked has a transaction that
  refutes the callback (`JobsApart`), all of it for receipts that are not in `missed`. "Paid is
  final" needs types and locks only: no job and no sweep takes up a loan that is paid.
- *Suspense.* `SuspenseInv`: as in Payout, plus `EntryState`: the entry says what its
  transfers do and at most one of them is live, and
  `Cardinality(SentRefunds) <= Excess`.
- *Lending.* `CycleInv` needs no condition, because applications lock the client:
  a cycle is one more than the applications there are, and an application under
  way has counted all of them. `RightState` says of a decider under way that it may decide, and of a
  payout or repayment under way that the loan was granted by right. That decisions stand
  follows from what any step can do (`Moves`): nobody begins to decide, settle or review
  but from the status it must find, so that nobody who could overturn a decision comes after it.
  `LockInv` adds what one cashier has read of the borrower's lock (`LockState`).
- *Account.* `Kept` says that the balance of a collectible loan is exactly price plus penalties
  less what the columns of its repayments come to, that nothing is charged or
  written off before it can be (`Untouched`), and that the cap holds. The splitting lemmas
  carry each step: a payment's parts come to the payment whatever the order, and
  what an early payoff charges and writes off come to the balance. That
  settlements are fair follows, although payments were split before under other
  settings: only their sum enters. It is about one loan whose requests commit one
  after another; that they may be taken so is `Ledger`'s subject.
- *Books.* The library's fold cannot be unfolded by an induction over sets stated with an
  operator. It is stated without one instead (`OneByOne`): a set of good subsets that
  holds `{}` and grows by any element holds them all, because among the sizes of the bad
  ones there would be a least (`LeastNumber`). From it follow the laws of sums (`SumAdds`,
  `SumTogether`, `SumJoined`). That exports balance and add up needs types only
  (`BooksTyped`), since the fees paid before a repayment do not depend on the window it is
  exported in (`FeesBeforeIs`). That the cash account is the cash needs `BooksKept`: only a
  paid loan has entries, one of a kind for each reference (`EntriesApart`); what is held was
  received (`ReceiptsTrue`); and rows and entries, but for interest owed back, come to what
  was received (`Cashed`).
- *Onboarding.* `RequestsTrue`: what a request has read was so at some moment of its window
  (`Seen`), though others commit in between. Verdicts and conversions are steps of a request.
- *Messaging.* `Kept`: a row is billable exactly if it was sent, and was then taken by the
  provider (`MessagesTrue`); a row that is not committed belongs to the transaction under
  way (`OpenRows`, `AtWork`); and who was messaged after opting out is in the register, was
  sent one such message by that runner, and has none under way whose lookup was good (`LateOnce`).
- *Filing.* `Kept`: the row a runner waits for is the last of its log, and pending
  (`InHand`); a run's number is at most the length of its log, so that the next run's is
  new (`RunsNumbered`); the job's rows of a month are one run in the sequence of the
  datasets (`JobInOrder`); the rows of a run that goes on, and of one that has several
  rows, agree with what the tables still hold (`RunHonest`, `RowsHonest`), while a nil
  filing is a run of one row; loans are reported only of a month that has one (`RowsTrue`).
- *Figures, Identifiers.* Arithmetic and case distinctions, no invariants. For the sliding windows:
  the window that starts at the first of three sorted times contains the others.
  For the check digits: a digit is recovered from a sum modulo 10 because its weight
  has an inverse there, and doubling with its carry is one to one on the digits.

**Only model-checked:** liveness (`PayoutDecided`, `EventSettlesUnlessCutOff`,
`EndsDefaulted`, `EndsFiled`), which is out of the prover's reach, and `Collections`,
whose one property the code violates. Every invariant and every action property of
a passing run is also proved, those of section 5's right-hand column under the
conditions named there.

## 6. What the checks found

In each of these the code does other than a comment, docstring or document of
the repository says. The first is a run of `PROJECT.json`; each of the others
has a `.cfg` of its own beside it, with the one property TLC finds violated.

| Configuration | Violates | Because |
|---|---|---|
| `MCCollections.cfg` | `PromisesReminded` | the job calls `send_sms(..., category=...)` (`scheduler.py:208`), an argument `send_sms` does not have (`sms.py:268`); the `TypeError` is caught per row, so no promise is ever reminded, which the docstring at `scheduler.py:172` promises |
| `MCWebhook_crash.cfg` | `EventSettles` | the retry job takes `failed` events only (`scheduler.py:109`): one that is `received` when the process dies is never taken up, though `models/integrations.py:94` and `DARAJA_GO_LIVE.md:296` say no delivery is lost |
| `MCWebhook_moved.cfg` | `CreditedInOneDcp` | a paybill that changes hands between two deliveries of one payment lets both DCPs book it: references are unique within a DCP |
| `MCLedger_lost.cfg` | `BalanceAgrees` | `match_reference` loads the loan (`payments.py:638`) before it is locked (`payments.py:661`), and the lock does not refresh what was loaded: the later commit overwrites the earlier, against `repayments.py:13`. Manual and reconciled payments do the same |
| `MCSuspense_lost.cfg` | `LeavesOnce` | a reversal whose answer is lost is treated as refused (`payment_approvals.py:226`): nothing is saved and the entry can be refunded, against `payment_approvals.py:295` |
| `MCSuspense_twice.cfg` | `ExecutedOnce` | the commit of a refund's intent (`disbursement.py:332`) releases the row lock that `approvals.py:211` takes against a second execution; only an overpayment too small for two refunds stops it |
| `MCLending_unlocked.cfg` | `OwingStaysLocked` | the statuses that keep the edit lock (`lending.py:33`) omit `defaulted`, against `lending.py:432` |
| `MCBooks_zero.cfg` | `CreditedOnce` | an early payoff of nothing records `<ref>-OVR` only (`repayments.py:434-441`), so the reference can be credited again, against `repayments.py:11`. `Ledger` has it too: `missed` |
| `MCBooks_periods.cfg` | `NeverMoreThanDaily` | completed periods are counted in the product's unit of today (`repayments.py:225`): after an update they may earn more than the daily method, against `repayments.py:75` |
| `MCOnboarding_wallet.cfg` | `LockedNumberFrozen` | `wallet_locked` is set (`clients.py:640`) and stops nothing: a locked number can be changed (`clients.py:177`), against `clients.py:629` |

The same models show what the conditions of section 5 are for. These need no
configuration of their own, only other constants in the `.cfg`, with the property
named as the only one:

| Constants | Violates | Because |
|---|---|---|
| `payout_serial` with `EarlyResolve = TRUE` | `NoDoublePayout` | `resolve` accepts `initiated`; a row resolved as failed while its request runs lets the loan be paid again |
| `payout_serial` with two settlers | `NoDoublePayout`, `PromiseSpec` | two settlements pass the status check before either commits: staff resolve a simulated payout as failed while the sweep takes it as paid, a second one is begun, and the sweep's commit follows |
| `payout_races` with `CredsChange = "any"` | `RecordIsTrue` | the sweep takes a real payout for a simulated one once credentials are gone |
| `ledger_races` with the overdue sweep | `BalanceAgrees` | the sweep writes the balance it read before a payment |
| `lending_overlap` with two cashiers | `LockFollowsLoans` | the later of two results of one payout makes a repaid loan run again, and leaves the borrower's lock as it found it, released meanwhile |
| `suspense_serial` with two settlers | `EntryMatchesMoney` | two deliveries of one failed result pass the status check before either commits; the later one reopens the entry, allocated meanwhile |

And these are what two overlapping handlers may do before the "once nobody is under
way" of section 5 holds. TLC finds each of them at once when the property is stated without it:

| Run | What is not true | Because |
|---|---|---|
| `payout_races` | that a loan in repayment is never charged again | two settlements pass the status check (`disbursement.py:211`); the later one restores the balance a repayment has lowered |
| `ledger_channels` | that a paid loan never owes again | a sweep or a payment that read the loan before writes `overdue`, or its balance, over `paid` |
| `ledger_channels` | that every receipt is booked once | a reference is looked up before the lock, in two tables with separate unique indexes; and a payoff of nothing leaves no repayment to find |
| `lending_overlap` | that a rejected loan stays rejected | two approvers find one loan undecided, and the later commit wins |
| `lending_overlap` | that a rejected change is not applied | two reviewers find one request pending |
| `lending_overlap` | that the identity of a borrower with a running loan is frozen | an edit found no loan running, and a payout activates one before it commits |

Observed while modelling; a property of a run or a theorem states each precisely
where one is named, the others are facts of the code the models contain:

- *Ledger.* The row of an STK prompt is written after Safaricom has shown it
  (`payments.py:365`); if that is cut off, only the paybill confirmation books the payment.
- *Books.* Interest owed back (`-INT`) is booked as cash received although none comes
  (`CashIsReal` says by how much the account is off). A payout is dated by its
  creation: one that succeeds after a month was exported is in no monthly
  export. Fees in the balance are outside the in duplum cap (`money.py:52`).
- *Suggested limits.* The principals of rejected and pending applications count as
  the largest before; exactly seven in ten on time gives a factor of 1.00; the risk
  summary's exposure omits defaulted loans and the suggestion's counts them
  (`ExposuresDifferByDefaults`); a product with no maximum has suggestions and no offers.
- *Messaging.* The lookups of the template and of the register fail open (`sms.py:331`,
  `:340`, `:425`): while they fail, an opted-out borrower is messaged at every run. If it was the database
  that failed, or if PostgreSQL ends the transaction to break a deadlock, the message is out and
  the rows of that DCP's run are lost. A delivery report that comes before the commit of its message's row is
  dropped, and an older report may overwrite a newer one.
- *Onboarding.* The provider's result decides nothing: the engine reads the flags of
  the row. Two overlapping requests may each overturn the other's verdict (`DecidedStands` says
  exactly when), two overlapping conversions make two clients. With CRB demanded, the engine raises
  (`CrbCheck.borrower_id` does not exist): the request ends in an error, and a conversion is
  committed without a decision. `services/mpesa.py` has neither `validate_name` nor
  `name_check`, so guarantors are never validated by name and an alternative number's
  name is never compared. Flags stay when the number or ID they were earned with changes.
- *Filing.* Any row of the month makes the job pass over a DCP for good. A loan in
  default is reported closed and is among the overdue. A repayment dated in a month
  and recorded after its filing is in no filing; one dated before month end may be
  for a loan the loan dataset does not have. A refused dataset does not stop the next, although the
  sequence is mandatory: the CBK may have loans without the customers. An extractor that fails in the
  database leaves no row and ends the run.
- *Collections.* The efficiency job runs at 02:00 Nairobi time on the 1st, which for
  a server on UTC is the last day of the month it should have closed. A promise moved to another
  month stays counted in the old one, and what was paid of it stays counted when it is
  broken. Ratiba's `initiate` repeats standing orders and passes over a newer withdrawal.
- *Figures.* `capital_adequacy` is compliant for every book with money out and for no other
  (`CapitalNeverShort`). A loan past due before the sweep is on watch in one return and
  zero days late in the other. An AML flag is raised once per loan and pattern, for
  ever; overlapping scans may raise it twice. A score of "0-100" ends at 85
  (`ScoreTopsOut`). One altered balance makes a statement suspect only among its
  first fourteen rows.
- *Identifiers.* The check digit of the expiry date is read and not checked, one
  check digit that fits is enough for the others, and the national ID of a card's
  optional field has the confidence of its document number.
- *Not modelled, met on the way.* `otp.deliver` passes the same `category` argument, so
  no code is ever sent. The consent code (`clients.py:918-1010`) belongs to
  the officer and not to the client or phone. Survey and complaint numbers are a count plus
  one without a unique index (`impact.py:40`, `complaints.py:61`).
  `bank_statement.py` sorts dates before it looks for ones out of order, and checks
  balances on credits only. An approver decides an action by the static
  permission of its kind, whatever overrides say.

## 7. How the project was ordered, and what could come next

The most costly mistakes came first: `Payout`, `Webhook`, `Ledger`, `Suspense`,
`Lending`; then the cents (`Pricing`, `Account`, `Books`), what leaves the system
(`Messaging`, `Filing`), how clients come in (`Onboarding`), and the functions
(`Portfolio`, `Statements`, `Identifiers`). There is one passing run per module
with state, two where one property needs other threads or channels than another; a
violated configuration that repeats what another's constants show has no run.

What could come next:

1. A composition of `Ledger` and `Suspense`, in which a receipt is a repayment, a refund or a
   reversal once, across both; today they meet at the allocation by hand.
2. Users in `Suspense`: the maker is not the checker, the approver settings and
   the overrides that decide who may do either.
3. The token version and the lockout counters of `routers/auth.py`, once requests are
   no longer taken as admitted.

## 8. What is not modelled, and why

- *Extraction and calls for a verdict* (OCR, faces, PDF statements, CRB, geography,
  `bank_statement.py`): they return a value that is stored; `Onboarding` takes any outcome.
- *Queries* (dashboards, reports, search, AI assistant): what they compute of the book is in
  `Portfolio`; the rest is layout. *Rows only stored and
  listed* (complaints, field operations, activity log, call notes, mentorship, API keys):
  nothing a sequence of steps could break.
- *Wiring and one-off scripts* (configuration, encryption, migrations, seeds, frontend,
  deployment): what matters of them is in section 1.
- *Tenancy* where it decides nothing: `Webhook`, `Messaging` and `Filing` have
  several DCPs, the other models one. Rows carry `tenant_id` and every query filters on
  it; the guards are `core/ownership.py`.
- *Authentication and access control*: requests are taken as admitted, with the role
  they have; the subject here is the money and the client workflow.
- *Inside modelled components*: refunds of a loan outside suspense and rows from
  before payments were split (`Books`); re-allocating an overpayment and suggestions by
  phone number (`Ledger`); account numbers, product bands and reassignment (`Lending`); the wording
  of templates (`Messaging`); columns of a dataset (`Filing`); calls and visits in
  the efficiency rows (`Collections`). `components` in `PROJECT.json` has the full list.
- *Fractions of a percent*: rates in `Pricing` are whole percent.
- *Liveness of refunds and reversals*: the reconciliation report lists payouts of
  type b2c only and `resolve` refuses reversals, so nothing in the code makes
  either end; there is no fairness to state.
- *A crash during an uncommitted reversal* is the same to the model as a lost answer
  (`LostReversals`).

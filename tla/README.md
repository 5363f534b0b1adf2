# A verification of the Jetopay services

Jetopay is a set of NestJS microservices (`src/services/*`) that move a card or
account payment through a gateway, a payment service provider, Shaparak (the card
network), Shetab (the interbank network), the source and the destination bank and a
clearing hub. Each service keeps its state in a PostgreSQL database of its own
through TypeORM; services call each other over RabbitMQ
(`firstValueFrom(client.send(pattern, payload))`) and the outside world calls them
over HTTP. The TLA+ modules of this directory model that code; TLC checks them on
small instances and TLAPS proves theorems about them.

## Inventory

What every service has in common, and what makes the code hard to test:

- A handler is an `async` function. Between two `await`s it runs alone in its
  process, at an `await` any other handler may run. There is no database
  transaction around a handler (the balances of bank-source are the exception), so
  every query is a step of its own in the models.
- `repository.save(entity)` writes the columns of an object that may have been read
  long before; `repository.update(where, columns)` writes the named columns only.
- A remote call has no timeout. An error reply, and a pattern that the remote
  service does not handle, rejects it.
- Timers and background work exist in memory only; containers are restarted
  (`restart: unless-stopped` in docker-compose.yml).
- PostgreSQL returns `decimal` columns as strings.

| Component | State | Operations | Talks to | What is hard | What makes it correct |
|---|---|---|---|---|---|
| hub-shaparak (`transaction.service.ts`, `ledger.service.ts`) | transactions, ledger entries; timers in memory | record, process with retries, verify | source bank, destination bank, Shaparak | record, processing, retries and verification of one transaction run concurrently; crash; failing saves | one transaction per reference; ledger before processing; bounded attempts; AUTHORIZED and SETTLED mean what they say |
| gateway-api payment | transactions, payment methods | initiate, verify, cancel; add, remove, set default method | psp, Shaparak, bank-source | status updates after remote calls overwrite each other | a paid transaction is not reported failed; a final status is final; one default method per user |
| gateway-api auth | users, refresh tokens, one-time codes | register, log in, refresh, log out; generate and verify a code | users | look-up and update of single-use rows in two queries; whole-row saves | a token or a code is used once; attempts are counted |
| gateway-api biometric | keys of devices, challenges | register and remove keys; challenge and response | users | two services over the same tables; a saved copy brings a removed row back | a challenge is answered once; a removed key stays removed |
| gateway-api users | users, profiles | create, update, delete | auth, biometric | unique columns checked before the insert; updates that overlap a deletion | one user per email and phone; nothing outlives its user |
| psp | payment attempts, transactions | process, verify, cancel; fraud rules | Shaparak, Shetab, hub | failure replies that are normal replies; updates after remote calls | an attempt that failed is recorded as failed |
| shaparak | card payments, verifications, merchants | initiate, callback, verify, refund | hub | late and duplicated callbacks, refunds racing callbacks; check digits | one reference per payment; a refund at most once and only of a paid payment; a mistyped card number is caught |
| shetab | interbank transfers, settlement batches, banks | initiate, verify | the banks, through a routing service | status read, bank asked, row updated whatever it has become | rows and answers follow the bank; a decision is never turned round |
| bank-source | accounts, balances, frozen funds, transactions | freeze, unfreeze, debit, settle, link account, totals | hub, gateway | row locks, rows saved after the commit, string arithmetic on decimals | no overdraft; money moves once; balances, statements and answers agree |
| bank-destination | transfers, destination accounts | receive or credit, process, notify; add and verify an account; statistics | notification | errors in error handling; look-up and insert of an account in two queries | what senders and users are told is what the rows say; a completed transfer stays completed |

## Plan

The order in which the modules were written, the most important behaviour first; all of
it is done.

1. `HubTransactions`: the clearing hub and its abstract specification
   `TransactionLifecycle`.
2. The card payment: `GatewayPayments`, `PspPayments` and `CardPayments`, one module per
   service, and `CardPaymentSystem`, which composes them.
3. `PaymentMethods`: the default payment method of a user.
4. `BankTransfers`: transfers and accounts of the destination bank.
5. `BankAccounts`: balances, debits, freezes and linked accounts of the source bank, and
   its abstract specification `AccountLedger`.
6. `InterbankTransfers`: Shetab.
7. `GatewayAuth` and `Biometrics`, which `GatewayIdentity` composes: users, tokens, codes
   and keys of the gateway.
8. `CardRules` and `PagedReads`: the algorithms, against what they are for.

The proofs are in modules of their own, `..._proofs`; `PspShetab_proofs` has those of the
psp and of Shetab, `Gateway_proofs` those of users, sessions, codes, keys and payment
methods, `CardPayments_proofs` also those of card numbers and listings, and `SumTheorems`
the theorems about sums that several of them use. Every invariant and every action
property of the runs is proved. What could still be added: an abstract specification of
the card payment that `CardPaymentSystem` implements, as `TransactionLifecycle` is of the
hub, and the steps by which liveness follows from fairness, as far as they are safety
properties (who can never be in whose way).

## The clearing hub: `HubTransactions`

**State.** `status`, `retryCount` and `ledger` are columns of the hub's database, per
record request (a request and the row that it inserts have the same name). `recorder`,
`processor` and `verifier` say at which `await` the three handlers
`recordTransaction`, `processTransaction` and `verifyTransaction` stand and what they
hold in memory. The history variables `attempts` and `accepted` count the
`process_transaction` messages to the source bank and remember who accepted in the
current attempt. `dbErrors` and `crashes` bound the faults.

**Actions.** One per stretch of code between two `await`s: `RecordCheck` (look-up),
`RecordSave` (insert, with the unique index of `transaction.entity.ts`), `RecordPost`
(ledger entries, start of the processing); `ProcessFind`, `ProcessMark`,
`ProcessAccepted`/`ProcessRefused` per party, `ProcessAuthorize`, `ProcessFail` (the
catch block, which sets the timer), `ProcessRetry`; `VerifyRead`, `VerifyReply`,
`VerifyRefused`, `VerifySettle` (ledger), `VerifySave`, `VerifyRescue` (catch block).
`RecordError`, `ProcessError` and `VerifyError` are failing database calls, each going
where its exception goes. `Crash` discards what is in memory.

The three parties are external: no service of this repository handles
`process_transaction` or `verify_transaction`, so the model lets each of them accept,
refuse or answer with an error (the tests of the hub mock acceptance). A failing database call
has no effect on the rows. Amounts, the fee and the codes are abstracted, and so
are the events, which nothing listens to. `updateTransactionStatus` is left out because
nothing calls it.

**Runs.**

- `hub_faults`: two requests racing for one reference number, two verifications, two
  attempts, one database error and one crash. Two requests are what a race takes; two
  verifications overwrite each other and the processing; two attempts give one
  retry; one fault suffices to cut any handler at any point. It shows the safety
  properties and that the hub implements `TransactionLifecycle`.
- `hub_liveness`: one request, three attempts (the default), two verifications, no faults. Fairness:
  a handler that can continue does (the event loop runs every ready callback, a
  timer fires) and a party that is asked replies, which the code takes for granted
  since it has no timeout. Arrivals of calls are not fair.

Three comments say what the code does not do. "Already settled or failed transactions
cannot be verified again" (`transaction.service.ts:120`): the check is made before three
remote calls, and a verification that passed it early saves FAILED over SETTLED, or the
reverse. "Update ledger entries to reflect settlement" (`:171`): entries that are inserted
after it, since the row is visible before them, stay unsettled under a settled row.
"5 seconds, 20 seconds, 60 seconds" (`:486`): `min(60000, 5000 * 2^n)` with the count
already incremented gives 10 and 20 seconds, and with three attempts there is no third
delay. The first two are in the state space of `hub_faults`, whose properties say what
holds all the same.

Deadlock is not checked: when every call has been answered, the hub is idle.

**Proofs** (`HubTransactions_proofs`). For every set of requests and verifications and
every bound: the safety invariants of `hub_faults`, the action property
`RetryCountGrows` and the refinement. None of the invariants is inductive, because a
row says nothing of what the handlers in progress will still write to it. `IInv` adds:
`BookInv`, the order in which row, entries and processing appear; `AttemptInv`, that the
processor's copy of the count is current whenever it will be saved and what the running
attempt adds to it; `AcceptInv`, who has accepted given where the processor stands; and
`VerifyInv`, that a verification has one existing row and reaches the ledger only with
all confirmations. The only assumption is `HubAssumption` on the constants.
`AcceptedNotReprocessed` holds only while the database answers, since a failing save
after the last acceptance starts the next attempt. `AcceptedOnce` therefore assumes
`MaxDbErrors = 0`; it allows any number of crashes, refusals and retries. Its invariant
`NoErrorInv` says that a row accepted by all three is about to be saved as AUTHORIZED, is
saved, or lost its processor to a crash. `EventuallyDecided` is checked by TLC only.

## The card payment

A user initiates a payment at the gateway, which inserts a row and calls the psp, which
checks it and calls Shaparak, which inserts a card payment and hands out a reference
number. The reference travels back. The card network reports the result to Shaparak in
callbacks. The user then asks the gateway to verify: it asks Shaparak and, if the
payment is confirmed, sends `settle_transaction` to the source bank.

### Shaparak: `CardPayments`

**State.** `cardStatus`, `transactionOf`, `refund` and `records` are the rows per
reference number: the payment, its transaction, the amount in the row of its refund and
the number of `payment_verifications` rows. A refund is a row of `card_payments` like any
other, with the number `REF-<reference>` (`RefundOf`) and the transaction number
`REFUND-<transaction>`: callbacks, verifications and refunds may name it, callbacks overwrite
its status, and it can be refunded in turn. `PaymentOf` is the payment from which the `REF-`
numbers go out. `callback`, `verification` and `refunder`
say at which `await` the handlers `processPaymentCallback`, `verifyPayment` and
`refundPayment` stand. `paid` remembers the references for which success was reported.

**Actions.** `InitiateCardPayment`; `CallbackRead`, `CallbackSave`, `CallbackRecord`;
`VerifyRead`, `VerifyLookUp`, `VerifyRecord`; `RefundRead`, `RefundSave` (with the
unique index on the refund's reference), `RefundMark`. `CardError` is a failing query,
`CardCrash` a restart.

The amount of a refund is a part, all of it as a number, all of it as the decimal string
that the service itself returns, or invalid: that is what `amount === payment.amount`
(line 330) and the checks before it tell apart. TypeORM's `save` writes the columns in
which the object differs from the row; the object was read before, so the model writes
the columns that the handler sets. Messages to the hub are for record-keeping, their errors are caught.

**Card numbers.** `CardRules` has the check digit, the length, the BIN and the expiry as
`check_card_validity` uses them and the rule of the psp's fraud check; `asked` is the
number asked about. `TyposAreCaught` is the reference they are checked against: one wrong
digit is always refused, two neighbours swapped unless they are 0 and 9; `ServicesAgree`
says how the services' ideas of a card number relate. A written number is a sequence of
digits, spaces and other characters, of which `Selections` keeps the digits, or all but
the spaces.

**Listings.** `PagedReads` is the listing in pages that the hub, the gateway, Shaparak and
both banks make with `findAndCount`, an order by a date, `skip` and `take`. Dates are not
unique and there is no second key, so `ReadPage` reads any page that `IsPage` allows: of
rows with equal dates the database may skip and take other ones for each page. `AddRow` is
a row of any date that is inserted meanwhile. What is left to rely on is `OnlyTiesAreMissed`: a
reader who asks until a page is not full misses no row that was there except rows that share
their date with another wanted row; while nothing is added, only such rows are read twice,
and a reader who has read none twice has missed none. So a listing of dates that do
not repeat is complete, and any other may have gaps without any insert; a
second key in the order would close them. A listing by status can also miss rows because
rows leave it between pages; the property leaves those out.

**Runs.** `card_faults`: a payment and its refund's row, two callbacks of any result, a
verification, two refunds and one failing query or crash; every call names either row. Two
callbacks and two refunds race; a third of a kind meets no more than what the second does,
since each handler keeps only its own place, and verifications do not change the status. The
row of a refund of the refund is left out of the instance (not of the proofs). A behaviour of
the instance is one of the payments, or reads one listing, or asks about one card, which the
variable `asked` tells apart; so the payments are not multiplied by the listings and the
cards. Cards have four characters with a BIN of one, since position from the right is all
that the check digit depends on, all numbers of four digits and the written forms of three to
five characters with spaces and dashes. Tables begin with up to four of five rows, of which
one is not wanted and two wanted ones have the same date, between an older and a newer one;
the others may be added; pages have one row or two, so that rows with one date stand on one
page or on two, and a row can be pushed from one page to the next, and over it.
`card_full_refund`: the comment at line 329 says "Update original
payment if full refund", and a full refund given as a number does not.

Seen on the way and not kept as a run: the comment at line 224 says "Create verification
record if it doesn't exist", but look-up (225) and insert (237) are two queries, and a
callback that inserts its own record (152) in between gives the payment two.

**Proofs** (`CardPayments_proofs`). The properties of `card_faults` about payments, for
any numbers of payments, calls and faults. None follows from the status of a row, because
callbacks overwrite it at any time, that of a refund too. `CardInv` therefore says of the
handlers on their way what stays true whatever the status becomes: `VerificationInv` and
`RefunderInv`, that they work on a row behind which there is a payment that was paid, and that a
refund about to mark its payment is of the whole amount and recorded; `StatusInv`, that
SUCCESSFUL was reported, of the row or of the payment that was refunded; `CallbackInv`, that a
callback in progress has a payment. What a refund's row belongs to is `RefundRows`: no number
handed out is a `REF-` number, and two refunds have two rows. Assumption: `CardAssumption`,
which says that much of the numbers.

The same module proves `CardsAreChecked` and `OnlyTiesAreMissed`, for card numbers of any
length, tables of any size, any dates and pages of any size. What `Only` keeps of a sequence
is shown prefix by prefix: nothing but what is allowed and all of that, in order, and the same
elements if what differs between two sets of allowed ones does not occur. That the check digit
catches a wrong digit follows by taking its term out of the sum, where the rest is the
same, and from what doubling does to ten digits; a swap takes two terms. Of a listing, no
order of its rows can be kept from page to page, so the argument counts: a row that
was there, shares its date with none and was not read has at least as many rows in
front of it as the pages read (`StillToCome`), and while nothing is added, one that was
read has fewer (`GoneBy`); a page that is not full leaves nothing behind it. `AddRow` only adds rows in
front of others. `Counted` says that the pages read add up to the rows read and those
read twice, from which missing none and repeating none are the same. Assumptions:
`CardRulesAssumption` (BINs are digits, a month is 1..12, a BIN is no longer than a number)
and `ListingAssumption` (a table is finite, a page has rows).

### The psp: `PspPayments`

**State.** `pspStatus` and `pspReference` are the columns of the rows, `attempt` is the
row of `payment_attempts`, the handlers are `processor`, `pspVerifier` and
`pspCanceller`. `updateTransaction` reads the row and saves the whole of it, so every
use is two steps (`...Find` or `...Copy`, then `...Save`) and the handler carries the
copy of the reference. `recorded` remembers what the hub has recorded.

No code of the repository inserts rows into this table (`createTransaction` has no
caller). `Known` is the set of transactions that have one; for the others `processPayment`
always ends in its catch block and, as its own update throws there, in an error. A payment
from a bank account (`payment.service.ts:100`) is sent to Shetab without bank codes, where
its insert always fails: for the psp it is the case in which the remote service refuses.
The fraud check is a choice between refusing and going on: its limits
(`fraud-detection.service.ts:48`) count rows of the table that nothing inserts into. A
card number that the gateway has masked is refused by the BIN rule; a card token is let
through.

**Run.** `psp_faults`: a transaction with and one without a row, two verifications, a
cancellation, one failing query or crash. A verification that is repeated
has its record refused as a duplicate by the hub and saves FAILED over SUCCESSFUL; a
cancellation that read the row before ("Cannot cancel a successful transaction",
`payment.service.ts:246`) saves CANCELLED over SUCCESSFUL. Both are in the state space;
what remains true is checked.

**Proofs** (`PspShetab_proofs`). Both properties of the run, for any numbers of
transactions and calls and any `Known`. `PspInv` says what a handler that is about to
save a copy has behind it: the attempt has failed (`ProcessorInv`), the hub has replied
(`PspVerifierInv`), the row exists (`PspCancellerInv`). Assumption: `PspAssumption`.

### The gateway and the composition: `GatewayPayments`, `CardPaymentSystem`

`GatewayPayments` has the rows (`txStatus`, `txReference`) and the handlers
`initiatePayment`, `verifyPayment` and `cancelTransaction`. Replies of other services
are parameters of its actions. Status updates are `UPDATE ... WHERE id`: they replace
whatever the status is. The updates at the end of the handlers are returned without
`await`, so their errors are not caught by the handler's own catch block.
A reply of the psp with `success: false` is not looked at: the transaction becomes
PROCESSING without a reference and can never be verified.

`CardPaymentSystem` instantiates the three services. A call is a step in which the
callee's handler starts while the caller stands at the call, a reply a step in which the
caller moves with what the callee has ended with. When a service dies, whoever waits for
it waits for ever, since there is no timeout, and whoever it called goes on. The insert at
Shaparak and its reply are one step: that Shaparak dies between the two leaves what the
psp leaves when it dies right after. The source bank is environment: `settle_transaction`
replies with success, with `success: false` for a transaction it does not know, or with an
error. The psp's own verification and cancellation are not called by the gateway and get
no calls here. Calls that name a `REF-` row are in `CardPayments` and left out here (no
number has a `RefundOf`): they read and write such rows only, which no other service reads.

**Runs.**

- `system_races`: two payments, two reference numbers, two verifications, one
  cancellation, one callback, one fault anywhere. Two payments are what it takes to mix
  them up, two verifications to overwrite a result. Repeated and contradictory callbacks
  are in `card_faults`.
- `system_liveness`: one payment, two verifications, a cancellation, a callback, no
  faults. Fairness: a handler that can continue does, a service that was called replies.
  Users and the card network owe nothing.

The status detail "Payment verified and settled successfully" (`payment.service.ts:153`) is
written although the reply of the bank was not looked at: SUCCESSFUL means paid and
recorded at Shaparak and answered by the bank, as `SuccessfulWasPaid` says, not settled.

Two more disagreements are in the state space of `system_races`:
"Only pending transactions can be cancelled" (`payment.controller.ts:136`) is checked in
one query and written in another, so a PROCESSING or SUCCESSFUL transaction can become
CANCELLED; "Transaction was already ..." (`payment.service.ts:125`) does not keep a
verification that asked Shaparak before the callback from overwriting the result of one
that asked after it, in either direction. `DecidedIsFinal` and `SuccessfulWasPaid` state
what does hold.

Deadlock is not checked in these runs: when all calls have ended, or a service has died
under them, nothing is left to do.

**Proofs** (`CardPaymentSystem_proofs`). All properties of `system_races`, for any numbers
of transactions, references, calls and faults. `SuccessfulWasPaid` is not inductive: the
row says nothing of the other services. `Inv` follows the reference on its way.
`TxInv`: the reference of a row is written once, by the last step of `initiatePayment`,
for the transaction that Shaparak keeps with it, and the row has it from PROCESSING on.
`VerifyInv`: a verification goes on with a row that has its reference, and once Shaparak
has confirmed it, the payment is paid and recorded; the same holds of SUCCESSFUL in
`TxInv`. `CardInv` ties the callbacks and the answers of Shaparak to `paid` and `records`;
`OthersTyped` types what the composition's `TypeOK` leaves to the services. That no more
transactions are SUCCESSFUL than references were paid follows from the injection that
the references of the rows are; it is the one place that needs a theorem on
cardinalities. Assumption: `SystemAssumption`.

## Payment methods: `PaymentMethods`

**State.** The rows of one user, `stored`, the marked ones, `isDefault`, and where each
call of `addPaymentMethod`, `setDefaultPaymentMethod` and `removePaymentMethod` stands.
A method is named by the call that adds it. `overlaps` remembers that a call has started
while another was in progress, `forgone` that the default was removed or that a
change of default ended without a new one.

**Actions.** One per query: `AddCount`, `AddSave`; `SetClear`, `SetMark`; `RemoveFind`,
`RemoveReplace`, `RemoveMark`, `RemoveDelete`; `MethodsError`, a failing query after
which the call ends. A crash leaves the rows as a failing query does.

**Runs.** `methods_faults`: three methods, two changes of the default, two removals, one
failing query. Three methods let two race while one is the default. Two comments say what
the code does not do: "Find another payment method to set as default" (line 126), since
the query looks for the method that is being removed, so that a user who removes the
default is left without one; and "Check if this is the first payment method" (line 52),
since two overlapping additions both become the default. `DefaultIsSound` therefore has
at most one default as long as calls have not overlapped, and a default one
unless it was forgone.

**Proofs** (`Gateway_proofs`). All properties of `methods_faults`. `SequentialInv`
says that without an overlap one call at most is in progress, and that it will only mark
a method where no other is marked; `DefaultInv`, that a user who has methods, or had
when an addition counted them, has a default unless a change is between its two updates
or the default was forgone. Assumption: `MethodsAssumption`.

## The source bank: `BankAccounts`

**State.** A transaction row is named by its `debit_account` message, a `frozen_funds` row
by its `freeze_funds` message, a linked account by its `link_account` message: `status`,
`frozen`, `linked`. `balance` has the current and the available balance of the accounts
that have one, in hundredths, `lock` the holder of a row lock, `copy` what a handler has
read under it, `pc` and `account` where a handler stands. The history variables: `moved`,
the debits whose money has moved, and `known`, the links whose number was linked when
they arrived.

**Actions.** `InsertDebit` (row PENDING), `LockBalance` or `NoBalance`, `Debit` or
`RollBack`, then `Commit` with `CompleteDebit`, or `FailDebit`; `ArriveFreeze` and
`Freeze`; `ArriveUnfreeze` and `UnfreezeNothing`; `FindSettled`, `ReadSettled`,
`SaveSettled`; `LinkArrive`, `LinkCheck`, `LinkInsert`, `LinkOpen`; `DbError` for a failing
query, going where its exception goes, and `Crash`, which rolls open database
transactions back.

What the code does to decimal strings is modelled by what it does: the available balance
and a freeze are compared and subtracted as numbers, while `reservedBalance +=`
(`balance.service.ts:66`) appends digits, so that the reserved balance agrees with nothing and
an unfreeze is always refused. The same holds of dead ends: the insert of a balance by
`linkAccount` always fails, `hasFrozenFunds` is never set, so that the branch of
`debitAccount` for frozen funds is dead, a settlement sets SETTLED whatever the status is,
and `creditAccount` has no caller. `app.module.ts` does not register `FrozenFunds` and
`account.controller.ts` is a copy of bank-destination's; the services are modelled as they
are written.

**Run.** `accounts_faults`: debits of 4 and 3 under one external id and a freeze of 5 on an
account with 10, of which any two can be paid and not all; an unfreeze, a settlement, two
links of one number by two users, one failing query and one crash. Three compete for two,
one fault cuts any handler anywhere. `BooksAreRight` compares balances, frozen funds,
answers, `getTotalDebitsAndCredits` and the daily summary with the money that moved:
the statement of a day shows all of it and the totals none that did not move, though a
debit that failed after its commit is missing from the totals. The two links change
places by symmetry: no step looks at their users.

**Abstract specification.** `AccountLedger` is the bank without locks, copies and program
counters: `Take` checks the funds and takes the amount of a debit or a freeze in one
step, at most once and from the account that the message named; a debit is COMPLETED only
after it and FAILED only before it has another outcome; a settlement overwrites whatever
is there, and an unfreeze gives nothing back. `ImplementsLedger` maps `taken` to
`moved \cup frozen` and the balances to those of the rows.

**Proofs** (`BankAccounts_proofs`). All properties of the run, for any messages, accounts,
amounts and faults. None is inductive: that a balance stays right needs that whoever
stands between lock and commit holds the lock and a copy that is current (`AccountInv`,
`MoverInv`), and that a debit that has not committed has not moved its money (`DebitInv`);
`LinkInv` says that a link that arrived too late finds the earlier one. `BooksAreRight` is
about sums over all rows of an account. `BookInv` adds that a debit's account does
not change once its money has moved (`EntryInv`), so that the sums change where an entry is
made and there only, by its amount (`DebitKeepsBooks`, `FreezeKeepsBooks`); and that
finitely many messages have come, whatever the sets of messages are, since a sum over
an infinite set is none. The summary and the totals then follow by comparing the sets
they add over (`TotalIsMonotone`). The refinement maps the commit to `Take` (`CommitTakes`),
since under the lock the copy is the row, and every other step to an outcome or a stutter;
`OrderInv` adds what the ledger asks of the arrival and of the outcome.
Assumption: `BankAssumption`.

## The destination bank: `BankTransfers`

**State.** A transfer is named by its message, `receive_transfer` or `credit_account`, an
account row by the request that inserts it: `status`, `completedAt`, `account`. `step` and
`target` say where a message's handler stands and which account it found, `stamped` what
its copy of the row has, `adder` and `verifier` where the requests of users stand. The
history variables `notified` and `earlier` count notifications and remember equal rows.

**Actions.** `Arrive`, `LookAccount` with `FindAccount` or `NotFound`, `CreateTransfer`,
`ReadTransfer`, `StartProcessing`, `CompleteTransfer`, `Notify` (twice for a received
transfer), `FailTransfer`, and `MarkRead`, `MarkFailed`, the second catch block in the
message controller; `AddArrive`, `AddCheck`, `AddInsert`; `VerifyCheck`, `VerifyRead`,
`VerifySave`; `TransferError` and `AccountError` are failing queries, each going to the catch
block that its exception reaches. `Statistics` is `getTransferStatistics`.

**Run.** `transfers_faults`: a received transfer and a credit, two requests that add and
one that verifies, two users, a valid account and one that is not, two failing queries
and a crash. Two failing queries are what it takes to fail in a catch block. Fairness: a
handler at work goes on (`WF` of `Handle` per message), since the event loop runs every
callback that is ready; arrivals are not fair. `ReceivedIsDecided` excludes crashes and
more than one failing query, which do leave a transfer PROCESSING for good.

**Proofs** (`BankTransfers_proofs`). `ToldTheTruth`, `AccountsAgree`,
`StatisticsMatchReplies` and the action property `CompletedIsFinal`. The invariant says of
every place of a handler what its row says, which holds since no other handler knows the
row (`TransferInv`), and of an account row that it was looked for and not found before it
was inserted and keeps its owner (`AccountInv`, `VerifierInv`). The statistics agree
with the replies since their sums are over sets of rows that the replies determine,
finite because each step begins one message at most (`BegunKept`). Liveness is checked by
TLC only. Assumption: `BankAssumption` of this module.

## Shetab: `InterbankTransfers`

**State.** `row` has status and `completedAt` of a transfer, which is named by its request;
`bank` is what the bank knows of it; `pc`, `subject` and `result` are the handlers'. The
history variable `fresh` marks a verification that began after the bank's decision with
no other under way.

**Actions.** `CheckBanks`, `Insert`, `Route` or `RouteThrows`, `MarkProcessing`, `MarkRefused`,
`MarkRejected`, `MarkFailed` for `initiateTransfer`; `ReadTransfer`, `CheckStatus` or
`CheckThrows`, `UpdateStatus` for `verifyTransfer`; `BankDecides` is the environment; `DbError`,
`Crash`.

`routeTransaction` and `checkTransactionStatus` are called and not in the repository. They
are external, modelled from how their results are used: the bank accepts or refuses,
decides later and tells what it has decided. `BankAnswers` is FALSE for the code as it
stands, where every such call throws.

**Run.** `interbank_faults`: a good transfer, one to an unknown bank and one without bank
codes, as the psp sends it; three verifications; two calls that throw, two failing
queries and one crash. Two verifications overlap and a third one is fresh. An update that
comes late takes a final status back to PROCESSING (`interbank.service.ts:154`):
`DecisionNeverFlips` and `FreshVerificationSettles` say how far that goes.

**Proofs** (`PspShetab_proofs`). All properties of the run, with and without a routing
service. The invariant says that only an accepted transfer is updated by a verification
and that what a verification is about to write is the bank's decision, or that there was
none (`TransferInv`, `VerificationInv`); `FreshInv`, that since a fresh verification began,
nothing else is on its way into the row. Assumption: `InterbankAssumption`.

## Users, sessions, codes and keys: `GatewayAuth`, `Biometrics`, `GatewayIdentity`

**State.** In `GatewayAuth`, `user`, `token` and `code` are the rows of users, refresh
tokens and one-time codes, each named by the request that makes it, `latest` the last code
of a phone; `userCopy` and `codeCopy` are the rows that updates and verifications have
read. In `Biometrics`, `key` is the row of a device, `challenge` the rows of the
challenges, `held` the row that a registration or a response has read, `signer` who
signed. `GatewayIdentity` composes the two: requests about keys need their user, and the
removal of a user takes tokens and keys along (`ON DELETE CASCADE`).

**Actions.** `RegisterEmail`, `RegisterPhone`, `InsertUser`; `UpdateRead`, `UpdateSave`;
`DeleteRead`, `DeleteRemove`; `Login`, `OAuthLogin`, `IssueTokens`; `RefreshRead`,
`RefreshRevoke`; `Logout`; `GenerateOtp`; `VerifyRead`, `VerifyCount`, `VerifyConfirm`,
`VerifyFind`. `RegisterRead`, `RegisterSave`, `RemoveKeys`; `ChallengeRead`,
`ChallengeInsert`; `RespondRead`, `RespondFind`, `RespondJudge`, `RespondThrow`,
`RespondRemove`, `RespondTouch` for both services that judge signatures. `AbortAuth` and
`AbortBio` end a request at a failing query or a crash.

The code's rows are read and saved as a whole, and TypeORM inserts a row again that it is
to save and that is gone. A profile update assigns what the request brings, an email, a
phone or both (`Assigned`), and writes the rest back as it was read: one that overlaps another
update takes the email or phone of that one back, one that overlaps a deletion brings the user
back. A registration or a response that overlaps the removal of a key brings the key back, and
a late save of `lastUsed` overwrites a new public key. Overlapping refreshes both get
tokens, overlapping wrong codes count one attempt, and a late one takes back that the
code was verified. `invalidated` (`otp.service.ts:60`) is written and never read. All of
this is in the state space; each property names the overlap it excludes and claims
the rest: it bounds what the overlap can do and does not show that it does no harm. That two
rows never share an email or a phone (`UsersAreUnique`) excludes no overlap. Passwords, signatures and expiry are choices or left out. `revokeAllUserTokens`,
`createChallenge` of the second service and its removal have no callers; the entity of the
codes and several strategies are not in the repository; the text of the users service is
in `get-user-id.decorator.ts`.

**Run.** `identity_faults`: a behaviour makes the requests of one of seven sets (`Mixes`),
in any order and overlapping in any way, and every request may end at each of its queries:
two registrations, a Google login, a change of the email, a change of the phone and a
deletion; a login, three refreshes, a logout and a deletion; a first login by code; three
verifications of two codes; three registrations of keys on two devices with the removal of
keys and of the user; and challenges with two responses, to one service each or both. Each
set holds two requests of the kind that races, and a third where a property speaks of a later
one.

**Proofs** (`Gateway_proofs`). All properties of the run, for any requests, devices and
phones; the mix of requests is any that the instance may choose. The properties speak of
rows and of what requests have answered, and none is inductive, because a request on its
way holds a copy, a user or a token that it has read. `AuthInv` says what those are worth:
`UserInv` and `GoneInv`, that a change about to be saved has the row of a user whose insert
is past and who was not deleted for good; `TokenInv` and `SpentInv`, that a token belongs
to a stored user's session, and that whoever has spent one leaves it inactive for ever,
since only a session's own last step makes a token active; `CodeInv`, that as long as no two
verifications work on a code, the one that does has its row as it is, so that the attempts
count the wrong answers and one answer at most is accepted. `BioInv` does it for keys:
`RowInv`, that the row that a handler is about to save was not removed before, and
`AskInv`, that once a signature has been judged its challenge is gone. The composition
adds `RemoveUserKeepsBio`: the removal of a user takes keys of that user only. That a count of
attempts equals the number of verifications takes theorems on cardinalities, and that
finitely many have begun. Assumptions: `AuthAssumption` (a request is of one kind),
`IdentityAssumption` (a device has an owner, a request about keys a device).

## The runs

| Run | Module | Properties |
|---|---|---|
| `hub_faults` | `MCHubTransactions` | `TypeOK`, `OneTransactionPerReference`, `ProcessingHasLedger`, `RetriesAreCounted`, `AuthorizedByAll`, `SettledIsConfirmed`, `ImplementsLifecycle` |
| `hub_liveness` | `MCHubTransactions` | `EventuallyDecided`, `AcceptedNotReprocessed` |
| `card_faults` | `MCCardPayments` | `VerifiedHasRecord`, `RefundedOnce`, `RefundsAreSound`, `CardsAreChecked`, `OnlyTiesAreMissed` |
| `card_full_refund` | `MCCardPayments` | `FullRefundMarksPayment` |
| `psp_faults` | `MCPspPayments` | `SuccessfulIsRecorded`, `AttemptsFollowReplies` |
| `system_races` | `MCCardPaymentSystem` | `TypeOK`, `ReferencesAgree`, `SuccessfulWasPaid`, `DecidedIsFinal` |
| `system_liveness` | `MCCardPaymentSystem` | `EventuallyNotPending`, `ConfirmedIsConcluded` |
| `methods_faults` | `MCPaymentMethods` | `DefaultIsSound`, `RemovedMethodsStay` |
| `transfers_faults` | `MCBankTransfers` | `ToldTheTruth`, `AccountsAgree`, `StatisticsMatchReplies`, `ReceivedIsDecided` |
| `accounts_faults` | `MCBankAccounts` | `MoneyIsSafe`, `BooksAreRight`, `LinkedOnce`, `ImplementsLedger` |
| `interbank_faults` | `MCInterbankTransfers` | `ReportsFollowBank`, `FreshVerificationSettles`, `DecisionNeverFlips` |
| `identity_faults` | `MCGatewayIdentity` | `RowsHaveOwners`, `RemovedForGood`, `TokensSpentOnce`, `CodesSingleUse`, `ChallengeAnsweredOnce` |

All but `card_full_refund` pass; its counterexample is the one finding in PROJECT.json.
Every property also has a mutant in PROJECT.json: a change of the model, of the kind a
mistake in the code would be, under which TLC finds the property violated.

Every bound is a constant of the model: the sets of calls, and the bounds on faults
(`MaxFaults`, `MaxDbErrors`, `MaxCrashes`, `MaxThrows`, `MaxRetryAttempts`). The faults
are bounded by the guards of the fault actions, the rest by the finite sets of calls.
Deadlock is not checked in any run: when every call has ended, or a process has died under
them, nothing is left to do.

## What is proved and what is only checked

Proved by TLAPS for all values of the constants that satisfy the named assumptions, in
eight modules:

| Module | Proves about |
|---|---|
| `HubTransactions_proofs` | `HubTransactions`, and that it implements `TransactionLifecycle` |
| `CardPayments_proofs` | `CardPayments`, `CardRules`, `PagedReads` |
| `PspShetab_proofs` | `PspPayments`, `InterbankTransfers` |
| `CardPaymentSystem_proofs` | `CardPaymentSystem` |
| `Gateway_proofs` | `GatewayAuth`, `Biometrics`, `GatewayIdentity`, `PaymentMethods` |
| `BankAccounts_proofs` | `BankAccounts`, and that it implements `AccountLedger` |
| `BankTransfers_proofs` | `BankTransfers` |
| `SumTheorems` | sums of a function over a finite set |

Together they state every invariant and every action property of the passing runs. Each
proof about a module has the same shape: an inductive invariant, which holds initially, is
kept by every action, and implies the property. PROJECT.json lists the theorems.

**Induction.** The provers take no theorem with an operator for a parameter, which the usual
theorems of induction are. What they take is that an order is well-founded: every
non-empty subset has a minimal element. So what is proved by induction is stated as
a set of good elements, `SubsetInduction` for the subsets of a finite set, `NatSetInduction`
for numbers and `InductionUpTo` for a range, whose bad elements would have a minimum.
With them `SumTheorems` shows that the recursive function behind `SumFunctionOnSet` exists
and is unique, and hence that a sum over a finite set is an integer (`SumInt`), loses and
gains a term with its element (`SumRemove`, `SumAdd`), depends on the terms only
(`SumAgrees`) and grows with its set (`SumMonotone`); the books, the statistics and the
check digit rest on these. `Only` is a recursive function for the same reason.

Only model-checked: liveness (`EventuallyDecided`, `EventuallyNotPending`, `ConfirmedIsConcluded`, `ReceivedIsDecided`), for which the prover
would need ENABLED; and the counterexample of `card_full_refund`, which a proof cannot give.

## Not modelled

- Shetab's routing and settlement: `routeTransaction`, `checkTransactionStatus`,
  `processSettlement` and `getSettlementStatus`, which the rest of the service calls, are not in
  these files; what is there are single queries, of which only the listing of batches has
  a caller.
- Shaparak's merchants: registration and updates are independent single queries.
- The psp's fraud limits: they count rows that no code inserts. `createTransaction` and
  the statistics of the psp, the hub's `updateTransactionStatus` and
  `payment-processor.service.ts` of the gateway are called by nothing or change nothing.
- Amounts where only their order or equality matters: the fee column, a
  `decimal(10,2)` that a fee of 100,000,000 does not fit, is a failing insert of the model, and
  `getPaymentSummary`, which joins decimal strings in its total amount, is modelled by its
  counts.
- The hub's `transaction-validator.ts` is used by nothing and `logging.middleware.ts` only logs.
- HTTP controllers beyond what they check, DTO validation, Swagger, configuration, guards
  and health checks keep no protocol state. See `components` in PROJECT.json for every
  part and the reason.

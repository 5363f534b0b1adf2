---------------------------- MODULE BankAccounts -----------------------------
(***************************************************************************)
(* The source bank (services/bank-source): debits, freezes, settlements    *)
(* and linked accounts. Each arrives as a message of its own, so a         *)
(* transaction row is named by its debit_account message, a frozen_funds   *)
(* row by its freeze_funds message and a bank_accounts row by its          *)
(* link_account message.                                                   *)
(*                                                                         *)
(* A balance changes in a database transaction that locks its row; every   *)
(* other query is a step of its own. Between two steps any handler may     *)
(* run, the next query may fail, and the process may die, which rolls the  *)
(* open database transactions back.                                        *)
(***************************************************************************)
EXTENDS Integers, FiniteSets, Functions

CONSTANTS
  Debits,         \* debit_account messages
  Freezes,        \* freeze_funds messages
  Unfreezes,      \* unfreeze_funds messages
  Settles,        \* settle_transaction messages
  Links,          \* link_account messages
  Opened,         \* accounts that have a balance from the start
  User,           \* userId of a link message or an opened account
  Number,         \* and its account number with bank code
  Amount,         \* whole amount of a debit or a freeze
  ExternalId,     \* externalId of a debit: the sender's transactionId
  Deposit,        \* hundredths on every opened account at the start
  Nobody,         \* no message, no account
  MaxDbErrors,    \* bound of the model: failing queries
  MaxCrashes      \* bound of the model: crashes of the process

Movers == Debits \cup Freezes \cup Unfreezes
Messages == Movers \cup Settles \cup Links
ExternalIds == {ExternalId[d] : d \in Debits}

\* Accounts are opened ones and linked ones; only the first have a balance.
AccountIds == Opened \cup Links

ASSUME BankAssumption ==
  /\ Debits \cap (Freezes \cup Unfreezes) = {} /\ Freezes \cap Unfreezes = {}
  /\ Movers \cap (Settles \cup Links) = {} /\ Settles \cap Links = {}
  /\ Opened \cap Links = {}
  /\ Nobody \notin Messages \cup Opened
  /\ Amount \in [Debits \cup Freezes -> Nat \ {0}]
  /\ DOMAIN User = AccountIds /\ DOMAIN Number = AccountIds
  /\ Deposit \in Nat /\ MaxDbErrors \in Nat /\ MaxCrashes \in Nat

VARIABLES
  status,     \* account_transactions.status, "none" without a row
  frozen,     \* the rows of frozen_funds, none of them released
  balance,    \* account_balances of the opened accounts, in hundredths
  lock,       \* who holds the lock of a balance row
  copy,       \* the balance that a handler has read
  pc,         \* where the handler of a message stands
  account,    \* the account of a message
  subject,    \* the debit that a settlement has found
  linked,     \* bank_accounts rows that link_account inserted
  known,      \* history: the number was linked when the message arrived
  moved,      \* history: debits whose money has moved
  dbErrors,   \* history: failing queries
  crashes     \* history: crashes

balanceVars == <<frozen, balance, lock, copy, moved>>
faultVars == <<dbErrors, crashes>>
vars == <<status, balanceVars, pc, account, subject, linked, known, faultVars>>

Status == {"PENDING", "COMPLETED", "FAILED", "SETTLED"}
Balance == [available : Int, current : Int, reserved : Int]
Empty == [available |-> 0, current |-> 0, reserved |-> 0]
Ends == {"done", "refused", "errored", "lost"}

Init ==
  /\ status = [d \in Debits |-> "none"]
  /\ frozen = {}
  /\ balance = [a \in Opened |->
       [available |-> Deposit, current |-> Deposit, reserved |-> 0]]
  /\ lock = [a \in Opened |-> Nobody]
  /\ copy = [m \in Movers |-> Empty]
  /\ pc = [m \in Messages |-> "idle"]
  /\ account = [m \in Movers |-> Nobody]
  /\ subject = [s \in Settles |-> Nobody]
  /\ linked = {}
  /\ known = [l \in Links |-> FALSE]
  /\ moved = {}
  /\ dbErrors = 0
  /\ crashes = 0

Goes(m, from, to) ==
  /\ pc[m] = from
  /\ pc' = [pc EXCEPT ![m] = to]
  /\ UNCHANGED faultVars

-----------------------------------------------------------------------------
(* Balances                                                                *)

Hundredths(amount) == 100 * amount

\* Of an amount below 10^9.
LeadingDigit(amount) ==
  CHOOSE digit \in 1..9 : \E zeros \in 0..8 : amount \div 10^zeros = digit

\* A decimal column is read as a string. += with a number appends its digits,
\* and the database rounds the result to two decimals.
Appended(hundredths, amount) ==
  hundredths + IF LeadingDigit(amount) >= 5 THEN 1 ELSE 0

\* A debit is recorded before its balance is touched.
InsertDebit(d, a) ==
  /\ Goes(d, "idle", "locking")
  /\ account' = [account EXCEPT ![d] = a]
  /\ status' = [status EXCEPT ![d] = "PENDING"]
  /\ UNCHANGED <<balanceVars, subject, linked, known>>

ArriveFreeze(f, a) ==
  /\ Goes(f, "idle", "locking")
  /\ account' = [account EXCEPT ![f] = a]
  /\ UNCHANGED <<status, balanceVars, subject, linked, known>>

\* unfreezeFunds looks for the unreleased row, before it takes the lock.
ArriveUnfreeze(u, f) ==
  /\ f \in frozen
  /\ Goes(u, "idle", "locking")
  /\ account' = [account EXCEPT ![u] = account[f]]
  /\ UNCHANGED <<status, balanceVars, subject, linked, known>>

UnfreezeNothing(u) ==
  /\ Goes(u, "idle", "errored")
  /\ UNCHANGED <<status, balanceVars, account, subject, linked, known>>

\* Mutant: debitAccount answers false and its caller does not look.
ThrownAway(m) == IF m \in Debits THEN "completing" ELSE "errored"

\* Where a debit goes on when its balance operation throws; others answer.
Thrown(m) == IF m \in Debits THEN "failing" ELSE "errored"

\* Mutant: the row is read without its lock.
LockNothing(m) ==
  /\ account[m] \in Opened
  /\ Goes(m, "locking", "changing")
  /\ copy' = [copy EXCEPT ![m] = balance[account[m]]]
  /\ UNCHANGED <<status, frozen, balance, lock, moved, account, subject, linked,
                 known>>

\* The row is locked and read. debitAccount has looked for funds frozen under
\* the id of its own new row, of which there are none.
LockBalance(m) ==
  /\ account[m] \in Opened
  /\ lock[account[m]] = Nobody
  /\ Goes(m, "locking", "changing")
  /\ lock' = [lock EXCEPT ![account[m]] = m]
  /\ copy' = [copy EXCEPT ![m] = balance[account[m]]]
  /\ UNCHANGED <<status, frozen, balance, moved, account, subject, linked, known>>

\* A linked account has no balance row.
NoBalance(m) ==
  /\ account[m] \in Links
  /\ Goes(m, "locking", Thrown(m))
  /\ UNCHANGED <<status, balanceVars, account, subject, linked, known>>

\* The lock of the handler's balance is released, and its copy is gone.
Release(m) ==
  /\ lock' = [lock EXCEPT ![account[m]] = Nobody]
  /\ copy' = [copy EXCEPT ![m] = Empty]

\* Mutant: the funds that are not frozen are not told apart.
EnoughCurrent(m) == copy[m].current >= Hundredths(Amount[m])

Enough(m) == copy[m].available >= Hundredths(Amount[m])

\* Rolled back: the funds do not suffice, or, for an unfreeze, the two
\* strings that += joins are no number and the save is refused.
RollBack(m) ==
  /\ m \in Debits \cup Freezes => ~Enough(m)
  /\ Goes(m, "changing", Thrown(m))
  /\ Release(m)
  /\ UNCHANGED <<status, frozen, balance, moved, account, subject, linked, known>>

\* The handler's balance is saved and committed.
Commit(m, newBalance) ==
  /\ Enough(m)
  /\ balance' = [balance EXCEPT ![account[m]] = newBalance]
  /\ Release(m)
  /\ UNCHANGED <<status, account, subject, linked, known>>

\* Mutant: only the available balance is debited.
DebitAvailable(d) ==
  /\ Goes(d, "changing", "completing")
  /\ Commit(d, [copy[d] EXCEPT !.available = @ - Hundredths(Amount[d])])
  /\ moved' = moved \cup {d}
  /\ UNCHANGED frozen

Debit(d) ==
  /\ Goes(d, "changing", "completing")
  /\ Commit(d, [available |-> copy[d].available - Hundredths(Amount[d]),
                current   |-> copy[d].current - Hundredths(Amount[d]),
                reserved  |-> copy[d].reserved])
  /\ moved' = moved \cup {d}
  /\ UNCHANGED frozen

Freeze(f) ==
  /\ Goes(f, "changing", "done")
  /\ Commit(f, [available |-> copy[f].available - Hundredths(Amount[f]),
                current   |-> copy[f].current,
                reserved  |-> Appended(copy[f].reserved, Amount[f])])
  /\ frozen' = frozen \cup {f}
  /\ UNCHANGED moved

\* The handler of a debit saves its row, whatever the row has become.
CompleteDebit(d) ==
  /\ Goes(d, "completing", "done")
  /\ status' = [status EXCEPT ![d] = "COMPLETED"]
  /\ UNCHANGED <<balanceVars, account, subject, linked, known>>

FailDebit(d) ==
  /\ Goes(d, "failing", "errored")
  /\ status' = [status EXCEPT ![d] = "FAILED"]
  /\ UNCHANGED <<balanceVars, account, subject, linked, known>>

-----------------------------------------------------------------------------
(* Settlements                                                             *)

Recorded == {d \in Debits : status[d] # "none"}

\* findOne returns any of the rows with the external id.
FindSettled(s, x) ==
  LET rows == {d \in Recorded : ExternalId[d] = x}
  IN
  /\ \/ rows = {} /\ Goes(s, "idle", "refused") /\ UNCHANGED subject
     \/ \E d \in rows :
          /\ Goes(s, "idle", "reading")
          /\ subject' = [subject EXCEPT ![s] = d]
  /\ UNCHANGED <<status, balanceVars, account, linked, known>>

\* updateTransaction reads the row again, ...
ReadSettled(s) ==
  /\ Goes(s, "reading", "saving")
  /\ UNCHANGED <<status, balanceVars, account, subject, linked, known>>

\* Mutant: a status that the enum does not have.
SaveConfirmed(s) ==
  /\ Goes(s, "saving", "done")
  /\ status' = [status EXCEPT ![subject[s]] = "CONFIRMED"]
  /\ UNCHANGED <<balanceVars, account, subject, linked, known>>

\* ... assigns the status and saves it. hasFrozenFunds is never set: nothing is
\* released.
SaveSettled(s) ==
  /\ Goes(s, "saving", "done")
  /\ status' = [status EXCEPT ![subject[s]] = "SETTLED"]
  /\ UNCHANGED <<balanceVars, account, subject, linked, known>>

-----------------------------------------------------------------------------
(* Linked accounts                                                         *)

\* The rows of bank_accounts.
Known == Opened \cup linked

RowsOf(number) == {a \in Known : Number[a] = number}

LinkArrive(l) ==
  /\ Goes(l, "idle", "checking")
  /\ known' = [known EXCEPT ![l] = RowsOf(Number[l]) # {}]
  /\ UNCHANGED <<status, balanceVars, account, subject, linked>>

\* Mutant: only the user's own links are refused.
LinkCheckOwn(l) ==
  /\ Goes(l, "checking",
          IF \E a \in RowsOf(Number[l]) : User[a] = User[l]
          THEN "errored" ELSE "inserting")
  /\ UNCHANGED <<status, balanceVars, account, subject, linked, known>>

\* A number that is linked already, to this user or another, is refused.
LinkCheck(l) ==
  /\ Goes(l, "checking",
          IF RowsOf(Number[l]) = {} THEN "inserting" ELSE "errored")
  /\ UNCHANGED <<status, balanceVars, account, subject, linked, known>>

LinkInsert(l) ==
  /\ Goes(l, "inserting", "opening")
  /\ linked' = linked \cup {l}
  /\ UNCHANGED <<status, balanceVars, account, subject, known>>

\* The balance has no lastUpdated, which the column requires: the insert is
\* refused and the sender is answered an error.
LinkOpen(l) ==
  /\ Goes(l, "opening", "errored")
  /\ UNCHANGED <<status, balanceVars, account, subject, linked, known>>

-----------------------------------------------------------------------------
(* Faults                                                                  *)

\* Mutant: after an error the database transaction stays open.
FreeNothing(holders) ==
  /\ UNCHANGED lock
  /\ copy' = [m \in Movers |-> IF m \in holders THEN Empty ELSE copy[m]]

\* Rolling back releases the locks of these handlers.
FreeLocks(holders) ==
  /\ lock' = [a \in Opened |-> IF lock[a] \in holders THEN Nobody ELSE lock[a]]
  /\ copy' = [m \in Movers |-> IF m \in holders THEN Empty ELSE copy[m]]

\* A query fails. Before the insert of a debit nothing has happened.
AfterError(m) ==
  IF m \in Debits /\ pc[m] \in {"locking", "changing", "completing"}
  THEN "failing" ELSE "errored"

DbError(m) ==
  /\ dbErrors < MaxDbErrors
  /\ pc[m] \notin Ends \cup {"idle"}
  /\ dbErrors' = dbErrors + 1
  /\ pc' = [pc EXCEPT ![m] = AfterError(m)]
  /\ FreeLocks({m})
  /\ UNCHANGED <<status, frozen, balance, moved, account, subject, linked, known,
                 crashes>>

Crash ==
  /\ crashes < MaxCrashes
  /\ crashes' = crashes + 1
  /\ pc' = [m \in Messages |->
       IF pc[m] \in Ends \cup {"idle"} THEN pc[m] ELSE "lost"]
  /\ FreeLocks(Movers)
  /\ UNCHANGED <<status, frozen, balance, moved, account, subject, linked, known,
                 dbErrors>>

-----------------------------------------------------------------------------
Handle(m) ==
  \/ m \in Movers /\ (LockBalance(m) \/ NoBalance(m) \/ RollBack(m))
  \/ m \in Debits /\ (Debit(m) \/ CompleteDebit(m) \/ FailDebit(m))
  \/ m \in Freezes /\ Freeze(m)
  \/ m \in Settles /\ (ReadSettled(m) \/ SaveSettled(m))
  \/ m \in Links /\ (LinkCheck(m) \/ LinkInsert(m) \/ LinkOpen(m))

Next ==
  \/ \E d \in Debits, a \in Known : InsertDebit(d, a)
  \/ \E f \in Freezes, a \in Known : ArriveFreeze(f, a)
  \/ \E u \in Unfreezes : UnfreezeNothing(u) \/ \E f \in Freezes : ArriveUnfreeze(u, f)
  \/ \E s \in Settles, x \in ExternalIds : FindSettled(s, x)
  \/ \E l \in Links : LinkArrive(l)
  \/ \E m \in Messages : Handle(m) \/ DbError(m)
  \/ Crash

Spec == Init /\ [][Next]_vars

-----------------------------------------------------------------------------
(* What the service answers about an account                               *)

DebitsOf(a) == {d \in Recorded : account[d] = a}

Total(S) == Hundredths(SumFunctionOnSet(Amount, S))

\* Mutant: debits that failed are counted.
TotalOfAll(a) == Total(DebitsOf(a))

\* getTotalDebitsAndCredits: completed debits, of which settled ones are none.
TotalDebits(a) == Total({d \in DebitsOf(a) : status[d] = "COMPLETED"})

\* getTransactionSummary adds up the debits of a day whatever became of them.
DailyDebits(a) == Total(DebitsOf(a))

-----------------------------------------------------------------------------
(* Properties                                                              *)

\* Rows, copies and program counters have their types.
TypeOK ==
  /\ status \in [Debits -> Status \cup {"none"}]
  /\ frozen \subseteq Freezes
  /\ balance \in [Opened -> Balance]
  /\ lock \in [Opened -> Movers \cup {Nobody}]
  /\ copy \in [Movers -> Balance]
  /\ pc \in [Messages -> {"idle", "locking", "changing", "completing", "failing",
                          "reading", "saving", "checking", "inserting",
                          "opening"} \cup Ends]
  /\ account \in [Movers -> AccountIds \cup {Nobody}]
  /\ subject \in [Settles -> Debits \cup {Nobody}]
  /\ linked \subseteq Links
  /\ known \in [Links -> BOOLEAN]
  /\ moved \subseteq Debits
  /\ dbErrors \in 0..MaxDbErrors
  /\ crashes \in 0..MaxCrashes

\* No account is overdrawn, however debits and freezes interleave: the check of
\* the funds and the debit are made under one lock.
NoOverdraft ==
  \A a \in Opened :
    0 <= balance[a].available /\ balance[a].available <= balance[a].current

\* The books: an account has lost just the debits whose money moved, and what
\* is not available of it is just what frozen_funds lists.
BooksBalance ==
  \A a \in Opened :
    /\ balance[a].current = Deposit - Total({d \in moved : account[d] = a})
    /\ balance[a].current - balance[a].available
         = Total({f \in frozen : account[f] = a})

\* A sender is told what happened: a debit answered by its row has moved its
\* money, and one answered by an error has not unless a query failed after the
\* commit.
AnswersMatchMoney ==
  \A d \in Debits :
    /\ pc[d] = "done" => d \in moved /\ status[d] \in {"COMPLETED", "SETTLED"}
    /\ pc[d] = "errored" /\ d \in moved => dbErrors > 0

\* An account's statement bounds what happened to its money: total debits never
\* shows money that did not move, the daily debits show all that did.
StatementBounds ==
  \A a \in Opened :
    /\ TotalDebits(a) <= Deposit - balance[a].current
    /\ Deposit - balance[a].current <= DailyDebits(a)

\* A message that links a number already linked when it arrives inserts no row;
\* two owners of one number need two messages that overlap.
LinkedOnce ==
  \A l \in Links : known[l] => l \notin linked

\* A lock is held by a handler at work on the row, whose copy is the row as it
\* is: handlers that end, fail or die with their process leave no lock behind, so
\* no debit waits for ever, and no handler saves a stale balance.
LocksAreLive ==
  \A a \in Opened :
    lock[a] # Nobody =>
      /\ account[lock[a]] = a
      /\ pc[lock[a]] = "changing"
      /\ copy[lock[a]] = balance[a]

\* Balances are safe: typed, not overdrawn, and changed only under a live lock.
MoneyIsSafe == TypeOK /\ NoOverdraft /\ LocksAreLive

\* Balances, statements, answers and frozen funds agree with the money moved.
BooksAreRight == BooksBalance /\ AnswersMatchMoney /\ StatementBounds

Price == [m \in Debits \cup Freezes |-> Hundredths(Amount[m])]

\* The handlers implement AccountLedger: a balance that is locked, read, checked
\* and saved in several steps changes as if in one, once for each debit and each
\* freeze, and no settlement or failure makes a debit take its money again.
Ledger == INSTANCE AccountLedger WITH
  Accounts  <- AccountIds,
  Funded    <- Opened,
  taken     <- moved \cup frozen,
  available <- [a \in Opened |-> balance[a].available],
  current   <- [a \in Opened |-> balance[a].current]

ImplementsLedger == Ledger!Spec
=============================================================================

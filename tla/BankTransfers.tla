---------------------------- MODULE BankTransfers ----------------------------
(***************************************************************************)
(* The destination bank (services/bank-destination). A transfer is created *)
(* and processed by one message, receive_transfer or credit_account; users *)
(* add destination accounts and verify them over HTTP. Every message       *)
(* creates a transfer of its own, so a transfer is named by its message,   *)
(* and an account row by the request that inserts it.                      *)
(*                                                                         *)
(* A step is one query; between two of them any other handler may run, the *)
(* query may fail, and the process may die.                                *)
(***************************************************************************)
EXTENDS Integers, FiniteSets, Functions

CONSTANTS
  Receives,       \* receive_transfer messages
  Credits,        \* credit_account messages
  Adds,           \* requests that add an account
  Verifies,       \* requests that verify an account
  Users,
  Accounts,       \* pairs of an account number and a bank code
  Valid,          \* those that validateAccount accepts
  Amount,         \* amount of every message
  Nobody,         \* no user, no account
  MaxDbErrors,    \* bound of the model: failing queries
  MaxCrashes      \* bound of the model: crashes of the process

Messages == Receives \cup Credits

ASSUME BankAssumption ==
  /\ Receives \cap Credits = {}
  /\ Valid \subseteq Accounts
  /\ Nobody \notin Users \cup Accounts \cup Adds
  /\ Amount \in [Messages -> Nat]
  /\ MaxDbErrors \in Nat /\ MaxCrashes \in Nat

VARIABLES
  status,       \* transfers.status, "none" without a row
  completedAt,  \* transfers.completedAt is set
  step,         \* where the handler of the message stands
  stamped,      \* completedAt is set in the handler's copy
  target,       \* destinationAccountId of the message
  notified,     \* history: notifications sent for the transfer
  account,      \* destination_accounts.status, "none" without a row
  adder,        \* where a request that adds an account stands, and its data
  earlier,      \* history: equal rows when the request arrived
  verifier,     \* where a request that verifies stands, its row and its user
  dbErrors,     \* history: failing queries
  crashes       \* history: crashes

transferVars == <<status, completedAt, step, stamped, target, notified>>
accountVars == <<account, adder, earlier, verifier>>
faultVars == <<dbErrors, crashes>>
vars == <<transferVars, accountVars, faultVars>>

TransferStatus == {"PENDING", "PROCESSING", "COMPLETED", "FAILED"}
AccountStatus == {"PENDING_VERIFICATION", "VERIFIED"}

\* What the caller is told: the transfer's final status, success: false, or
\* an error.
Replies == {"completed", "failed", "refused", "errored"}

Init ==
  /\ status = [m \in Messages |-> "none"]
  /\ completedAt = [m \in Messages |-> FALSE]
  /\ step = [m \in Messages |-> "idle"]
  /\ stamped = [m \in Messages |-> FALSE]
  /\ target = [m \in Messages |-> Nobody]
  /\ notified = [m \in Messages |-> 0]
  /\ account = [a \in Adds |-> "none"]
  /\ adder = [a \in Adds |-> [pc |-> "idle", user |-> Nobody, acc |-> Nobody]]
  /\ earlier = [a \in Adds |-> {}]
  /\ verifier = [k \in Verifies |->
                   [pc |-> "idle", row |-> Nobody, user |-> Nobody]]
  /\ dbErrors = 0
  /\ crashes = 0

-----------------------------------------------------------------------------
(* The transfer                                                            *)

Goes(m, from, to) ==
  /\ step[m] = from
  /\ step' = [step EXCEPT ![m] = to]
  /\ UNCHANGED <<accountVars, faultVars>>

SaveTransfer(m, newStatus, stamp) ==
  /\ status' = [status EXCEPT ![m] = newStatus]
  /\ completedAt' = [completedAt EXCEPT ![m] = stamp]
  /\ UNCHANGED <<target, notified>>

\* A message arrives for some account id. credit_account looks the account
\* up before createTransfer does.
Arrive(m, a) ==
  /\ Goes(m, "idle", IF m \in Credits THEN "looking" ELSE "finding")
  /\ target' = [target EXCEPT ![m] = a]
  /\ UNCHANGED <<status, completedAt, stamped, notified>>

\* The answer without an account: NotFound, which credit_account turns into a
\* normal reply.
NotFound(m) == IF m \in Credits THEN "refused" ELSE "errored"

LookAccount(m) ==
  /\ Goes(m, "looking",
          IF account[target[m]] = "none" THEN NotFound(m) ELSE "finding")
  /\ UNCHANGED <<status, completedAt, stamped, target, notified>>

FindAccount(m) ==
  /\ Goes(m, "finding",
          IF account[target[m]] = "none" THEN NotFound(m) ELSE "creating")
  /\ UNCHANGED <<status, completedAt, stamped, target, notified>>

CreateTransfer(m) ==
  /\ Goes(m, "creating", "reading")
  /\ SaveTransfer(m, "PENDING", FALSE)
  /\ UNCHANGED stamped

\* processTransfer goes on with a PENDING row. It never finds another one, see
\* RepliesMatchRows: nothing else knows the id yet.
ReadTransfer(m) ==
  /\ status[m] = "PENDING"
  /\ Goes(m, "reading", "starting")
  /\ UNCHANGED <<status, completedAt, stamped, target, notified>>

\* Mutant: the reply follows the mark.
StartRepliesCompleted(m) ==
  /\ Goes(m, "starting", "completed")
  /\ SaveTransfer(m, "PROCESSING", FALSE)
  /\ UNCHANGED stamped

\* Mutant: the notification is sent before the transfer is completed.
NotifiesEarly(m) ==
  /\ Goes(m, "starting", "completing")
  /\ status' = [status EXCEPT ![m] = "PROCESSING"]
  /\ notified' = [notified EXCEPT ![m] = @ + 1]
  /\ UNCHANGED <<completedAt, stamped, target>>

StartProcessing(m) ==
  /\ Goes(m, "starting", "completing")
  /\ SaveTransfer(m, "PROCESSING", FALSE)
  /\ UNCHANGED stamped

\* After the delay.
CompleteTransfer(m) ==
  /\ Goes(m, "completing", "notifying")
  /\ stamped' = [stamped EXCEPT ![m] = TRUE]
  /\ SaveTransfer(m, "COMPLETED", TRUE)

\* processTransfer notifies, and receive_transfer does so again.
Notify(m) ==
  /\ \/ Goes(m, "notifying",
             IF m \in Receives THEN "notifyingAgain" ELSE "completed")
     \/ Goes(m, "notifyingAgain", "completed")
  /\ notified' = [notified EXCEPT ![m] = @ + 1]
  /\ UNCHANGED <<status, completedAt, stamped, target>>

\* The catch block of processTransfer saves its copy.
FailTransfer(m) ==
  /\ Goes(m, "failing", IF m \in Receives THEN "failed" ELSE "refused")
  /\ SaveTransfer(m, "FAILED", stamped[m])
  /\ UNCHANGED stamped

\* The catch block of receive_transfer reads the row again and saves it.
MarkRead(m) ==
  /\ Goes(m, "marking", "markingSave")
  /\ stamped' = [stamped EXCEPT ![m] = completedAt[m]]
  /\ UNCHANGED <<status, completedAt, target, notified>>

MarkFailed(m) ==
  /\ Goes(m, "markingSave", "failed")
  /\ SaveTransfer(m, "FAILED", stamped[m])
  /\ UNCHANGED stamped

\* Mutant: sendTransferNotification lets its errors through.
AfterErrorThrows(m) ==
  CASE step[m] \in {"starting", "completing", "notifying"} -> "failing"
    [] step[m] \in {"reading", "failing", "notifyingAgain"} /\ m \in Receives ->
         "marking"
    [] OTHER -> NotFound(m)

\* Mutant: receive_transfer has no catch block.
AfterErrorUncaught(m) ==
  CASE step[m] \in {"starting", "completing"} -> "failing"
    [] step[m] = "notifying" ->
         IF m \in Receives THEN "notifyingAgain" ELSE "completed"
    [] step[m] = "notifyingAgain" -> "completed"
    [] OTHER -> NotFound(m)

\* Where a failing query takes the handler. A notification that fails is
\* logged and the handler goes on.
AfterError(m) ==
  CASE step[m] \in {"starting", "completing"} -> "failing"
    [] step[m] = "notifying" ->
         IF m \in Receives THEN "notifyingAgain" ELSE "completed"
    [] step[m] = "notifyingAgain" -> "completed"
    [] step[m] \in {"reading", "failing"} /\ m \in Receives -> "marking"
    [] OTHER -> NotFound(m)

Ended(m) == step[m] \in Replies \cup {"lost"}

\* The copy keeps the completion time that it did not manage to save.
TransferError(m) ==
  /\ dbErrors < MaxDbErrors
  /\ step[m] # "idle" /\ ~Ended(m)
  /\ dbErrors' = dbErrors + 1
  /\ step' = [step EXCEPT ![m] = AfterError(m)]
  /\ stamped' = [stamped EXCEPT ![m] = @ \/ step[m] = "completing"]
  /\ UNCHANGED <<status, completedAt, target, notified, accountVars, crashes>>

Handle(m) ==
  \/ LookAccount(m) \/ FindAccount(m) \/ CreateTransfer(m) \/ ReadTransfer(m)
  \/ StartProcessing(m) \/ CompleteTransfer(m) \/ Notify(m)
  \/ FailTransfer(m) \/ MarkRead(m) \/ MarkFailed(m)

-----------------------------------------------------------------------------
(* Destination accounts                                                    *)

Rows == {a \in Adds : account[a] # "none"}

\* The rows that findOne may return for a user's account.
Equal(user, acc) == {a \in Rows : adder[a].user = user /\ adder[a].acc = acc}

\* validateAccount: a long enough number and a known bank code.
Validates(acc) == acc \in Valid

\* An account that does not pass validateAccount is refused.
AddArrive(a, user, acc) ==
  /\ adder[a].pc = "idle"
  /\ adder' = [adder EXCEPT ![a] =
       [pc |-> IF Validates(acc) THEN "checking" ELSE "ended",
        user |-> user, acc |-> acc]]
  /\ earlier' = [earlier EXCEPT ![a] = Equal(user, acc)]
  /\ UNCHANGED <<account, verifier, transferVars, faultVars>>

Adder(a, from, to) ==
  /\ adder[a].pc = from
  /\ adder' = [adder EXCEPT ![a] = [@ EXCEPT !.pc = to]]
  /\ UNCHANGED <<earlier, verifier, transferVars, faultVars>>

\* Mutant: the existing account is not looked for.
AddAlwaysInserts(a) == Adder(a, "checking", "inserting") /\ UNCHANGED account

\* An account that the user has already is returned, else one is inserted.
AddCheck(a) ==
  /\ Adder(a, "checking",
           IF Equal(adder[a].user, adder[a].acc) = {} THEN "inserting"
           ELSE "ended")
  /\ UNCHANGED account

AddInsert(a) ==
  /\ Adder(a, "inserting", "ended")
  /\ account' = [account EXCEPT ![a] = "PENDING_VERIFICATION"]

Verifier(k, from, to) ==
  /\ verifier[k].pc = from
  /\ verifier' = [verifier EXCEPT ![k] = [@ EXCEPT !.pc = to]]
  /\ UNCHANGED <<adder, earlier, transferVars, faultVars>>

\* Mutant: the owner is not compared with the user.
VerifyAnyRow(k, user, a) ==
  /\ verifier[k].pc = "idle"
  /\ verifier' = [verifier EXCEPT ![k] =
       [pc |-> IF account[a] # "none" THEN "owned" ELSE "ended",
        row |-> a, user |-> user]]
  /\ UNCHANGED <<account, adder, earlier, transferVars, faultVars>>

\* Only the owner of a row may verify it.
VerifyCheck(k, user, a) ==
  /\ verifier[k].pc = "idle"
  /\ verifier' = [verifier EXCEPT ![k] =
       [pc |-> IF account[a] # "none" /\ adder[a].user = user THEN "owned"
               ELSE "ended",
        row |-> a, user |-> user]]
  /\ UNCHANGED <<account, adder, earlier, transferVars, faultVars>>

\* verifyAccount reads the row again and saves it.
VerifyRead(k) == Verifier(k, "owned", "saving") /\ UNCHANGED account

\* Mutant: a status that the enum does not have.
VerifyActivates(k) ==
  /\ Verifier(k, "saving", "ended")
  /\ account' = [account EXCEPT ![verifier[k].row] = "ACTIVE"]

VerifySave(k) ==
  /\ Verifier(k, "saving", "ended")
  /\ account' = [account EXCEPT ![verifier[k].row] = "VERIFIED"]

\* A query of these requests fails: the reply is an error.
AccountError ==
  /\ dbErrors < MaxDbErrors
  /\ dbErrors' = dbErrors + 1
  /\ \/ \E a \in Adds :
          /\ adder[a].pc \in {"checking", "inserting"}
          /\ adder' = [adder EXCEPT ![a] = [@ EXCEPT !.pc = "ended"]]
          /\ UNCHANGED verifier
     \/ \E k \in Verifies :
          /\ verifier[k].pc \in {"owned", "saving"}
          /\ verifier' = [verifier EXCEPT ![k] = [@ EXCEPT !.pc = "ended"]]
          /\ UNCHANGED adder
  /\ UNCHANGED <<account, earlier, transferVars, crashes>>

-----------------------------------------------------------------------------
\* The process dies: nobody answers what it was working on.
Crash ==
  /\ crashes < MaxCrashes
  /\ crashes' = crashes + 1
  /\ step' = [m \in Messages |->
       IF step[m] = "idle" \/ Ended(m) THEN step[m] ELSE "lost"]
  /\ adder' = [a \in Adds |->
       IF adder[a].pc = "idle" THEN adder[a]
       ELSE [adder[a] EXCEPT !.pc = "ended"]]
  /\ verifier' = [k \in Verifies |->
       IF verifier[k].pc = "idle" THEN verifier[k]
       ELSE [verifier[k] EXCEPT !.pc = "ended"]]
  /\ UNCHANGED <<status, completedAt, stamped, target, notified, account,
                 earlier, dbErrors>>

Next ==
  \/ \E m \in Messages, a \in Adds : Arrive(m, a)
  \/ \E m \in Messages : Handle(m) \/ TransferError(m)
  \/ \E a \in Adds, user \in Users, acc \in Accounts : AddArrive(a, user, acc)
  \/ \E a \in Adds : AddCheck(a) \/ AddInsert(a)
  \/ \E k \in Verifies, user \in Users, a \in Adds : VerifyCheck(k, user, a)
  \/ \E k \in Verifies : VerifyRead(k) \/ VerifySave(k)
  \/ AccountError
  \/ Crash

\* A handler that has begun goes on while its process lives: its queries are
\* answered, or fail, and the delay is a timer.
Fairness == \A m \in Messages : WF_vars(Handle(m))

Spec == Init /\ [][Next]_vars /\ Fairness

-----------------------------------------------------------------------------
(* getTransferStatistics                                                   *)

TransfersTo(a) == {m \in Messages : status[m] # "none" /\ target[m] = a}

Completed(a) == {m \in TransfersTo(a) : status[m] = "COMPLETED"}

\* Mutant: the amount of every transfer is added up.
StatisticsOfAll(a) ==
  [totalTransfers     |-> Cardinality(TransfersTo(a)),
   completedTransfers |-> Cardinality(Completed(a)),
   totalAmount        |-> SumFunctionOnSet(Amount, TransfersTo(a))]

Statistics(a) ==
  [totalTransfers     |-> Cardinality(TransfersTo(a)),
   completedTransfers |-> Cardinality(Completed(a)),
   totalAmount        |-> SumFunctionOnSet(Amount, Completed(a))]

-----------------------------------------------------------------------------
(* Properties                                                              *)

\* Rows, program counters and copies have their types.
TypeOK ==
  /\ status \in [Messages -> TransferStatus \cup {"none"}]
  /\ completedAt \in [Messages -> BOOLEAN]
  /\ step \in [Messages ->
       {"idle", "looking", "finding", "creating", "reading", "starting",
        "completing", "notifying", "notifyingAgain", "failing", "marking",
        "markingSave", "lost"} \cup Replies]
  /\ stamped \in [Messages -> BOOLEAN]
  /\ target \in [Messages -> Adds \cup {Nobody}]
  /\ notified \in [Messages -> 0..2]
  /\ account \in [Adds -> AccountStatus \cup {"none"}]
  /\ adder \in [Adds ->
       [pc : {"idle", "checking", "inserting", "ended"},
        user : Users \cup {Nobody}, acc : Accounts \cup {Nobody}]]
  /\ earlier \in [Adds -> SUBSET Adds]
  /\ verifier \in [Verifies ->
       [pc : {"idle", "owned", "saving", "ended"},
        row : Adds \cup {Nobody}, user : Users \cup {Nobody}]]
  /\ dbErrors \in 0..MaxDbErrors
  /\ crashes \in 0..MaxCrashes

\* A sender that is told a transfer completed finds it completed, and one that
\* is told anything else finds that nothing was credited, whichever queries
\* fail on the way; processTransfer never meets a transfer that another
\* handler has touched.
RepliesMatchRows ==
  \A m \in Messages :
    /\ step[m] = "completed" => status[m] = "COMPLETED" /\ completedAt[m]
    /\ step[m] \in {"failed", "refused", "errored"} => status[m] # "COMPLETED"
    /\ step[m] = "failed" => status[m] = "FAILED"
    /\ step[m] = "reading" => status[m] = "PENDING"

\* Users are only notified of transfers that have completed, once for a
\* credit and at most twice for a received transfer.
NotifiedOfCompleted ==
  \A m \in Messages :
    notified[m] > 0 =>
      /\ status[m] = "COMPLETED"
      /\ m \in Credits => notified[m] = 1

\* A completed transfer is never reopened or failed: what comes after it, the
\* notifications with their errors included, does not reach the catch blocks.
CompletedIsFinal ==
  [][\A m \in Messages :
       status[m] = "COMPLETED" => status'[m] = "COMPLETED"]_vars

\* A request that arrives when the user has the account already inserts no
\* second row; only requests that overlap can do so.
SequentialAddsAgree ==
  \A a \in Adds : account[a] # "none" => earlier[a] = {}

\* A row is only verified for its owner, and for a valid account.
VerifiedByOwner ==
  \A a \in Adds :
    account[a] = "VERIFIED" =>
      /\ Validates(adder[a].acc)
      /\ \E k \in Verifies :
           verifier[k].row = a /\ verifier[k].user = adder[a].user

\* The statistics of an account count what its senders were told: at least
\* the transfers reported as completed, and none of those reported otherwise.
StatisticsMatchReplies ==
  \A a \in Adds :
    LET Told(replies) == {m \in Messages : target[m] = a /\ step[m] \in replies}
        Total(S) == SumFunctionOnSet(Amount, S)
        stats == Statistics(a)
    IN
    /\ Total(Told({"completed"})) <= stats.totalAmount
    /\ stats.totalAmount <=
         Total(Told({"completed", "notifying", "notifyingAgain", "lost"}))
    /\ stats.completedTransfers <= stats.totalTransfers

\* A received transfer is decided in the end unless the process dies or two
\* queries fail. (A credit is not: an error of its first read leaves it PENDING.)
ReceivedIsDecided ==
  \A m \in Receives :
    status[m] = "PENDING" ~>
      status[m] \in {"COMPLETED", "FAILED"} \/ crashes > 0 \/ dbErrors > 1

\* Senders and users are told the truth about transfers: no reply and no
\* notification says of a row what it does not say itself.
ToldTheTruth == TypeOK /\ RepliesMatchRows /\ NotifiedOfCompleted

\* Destination accounts agree with the requests: one row of an account unless
\* requests overlap, verified by its owner only.
AccountsAgree == SequentialAddsAgree /\ VerifiedByOwner
=============================================================================

-------------------------- MODULE InterbankTransfers --------------------------
(***************************************************************************)
(* Interbank transfers (services/shetab): initiateTransfer and             *)
(* verifyTransfer, which messages and HTTP requests call. Every call of    *)
(* the first makes a row of its own, so a transfer is named by its request.*)
(*                                                                         *)
(* Both services hand the transfer to the banks through routingService,    *)
(* whose routeTransaction and checkTransactionStatus are called but not    *)
(* in the repository: as it stands every such call throws. They are        *)
(* modelled from how the callers use them, as a bank that accepts or       *)
(* refuses a transfer, decides it later, and answers, or throws, when      *)
(* asked for it. The instance of the code as it stands is BankAnswers =    *)
(* FALSE.                                                                  *)
(***************************************************************************)
EXTENDS Integers, FiniteSets

CONSTANTS
  Transfers,      \* requests that initiate a transfer
  Verifications,  \* requests that verify one
  Banks,          \* codes in the table of banks
  Unset,          \* the code of a request that has none
  Source,         \* sourceBankCode of a request
  Destination,    \* destinationBankCode of a request
  BankAnswers,    \* whether the routing service is there
  Nothing,        \* no transfer
  MaxThrows,      \* bound of the model: calls of the bank that throw
  MaxDbErrors,    \* bound of the model: failing queries
  MaxCrashes      \* bound of the model: crashes of the process

ASSUME InterbankAssumption ==
  /\ Transfers \cap Verifications = {}
  /\ Unset \notin Banks /\ Nothing \notin Transfers
  /\ BankAnswers \in BOOLEAN
  /\ MaxThrows \in Nat /\ MaxDbErrors \in Nat /\ MaxCrashes \in Nat

VARIABLES
  row,       \* interbank_transactions: status, and whether completedAt is set
  bank,      \* what the bank knows of a transfer
  pc,        \* where the handler of a request stands
  subject,   \* the transfer that a verification is about
  result,    \* the status that the bank gave a verification
  fresh,     \* history: the verification began after the bank's decision and
             \* with no other under way
  throws, dbErrors, crashes   \* history: faults

requestVars == <<pc, subject, result, fresh>>
faultVars == <<throws, dbErrors, crashes>>
vars == <<row, bank, requestVars, faultVars>>

Requests == Transfers \cup Verifications

Status == {"PENDING", "PROCESSING", "COMPLETED", "FAILED"}
Final == {"COMPLETED", "FAILED"}
Row == [status : Status \cup {"none"}, completedAt : BOOLEAN]
NoRow == [status |-> "none", completedAt |-> FALSE]

\* An answer with success: true, success: false or the status, or an error.
Ends == {"accepted", "failed", "answered", "errored", "lost"}

Init ==
  /\ row = [t \in Transfers |-> NoRow]
  /\ bank = [t \in Transfers |-> "unknown"]
  /\ pc = [r \in Requests |-> "idle"]
  /\ subject = [v \in Verifications |-> Nothing]
  /\ result = [v \in Verifications |-> "none"]
  /\ fresh = [v \in Verifications |-> FALSE]
  /\ throws = 0 /\ dbErrors = 0 /\ crashes = 0

-----------------------------------------------------------------------------
(* The banks                                                               *)

BankDecides(t) ==
  /\ bank[t] = "accepted"
  /\ \E decision \in Final : bank' = [bank EXCEPT ![t] = decision]
  /\ UNCHANGED <<row, requestVars, faultVars>>

\* The status that the bank answers for a transfer it has accepted.
StatusOf(t) == IF bank[t] = "accepted" THEN "PROCESSING" ELSE bank[t]

Throws ==
  /\ ~BankAnswers \/ throws < MaxThrows
  /\ throws' = IF throws < MaxThrows THEN throws + 1 ELSE throws
  /\ UNCHANGED <<dbErrors, crashes>>

-----------------------------------------------------------------------------
(* initiateTransfer                                                        *)

Goes(r, from, to) ==
  /\ pc[r] = from
  /\ pc' = [pc EXCEPT ![r] = to]

Stays == UNCHANGED <<subject, result, fresh, faultVars>>

\* A look-up without a code finds some bank.
Found(code) == code \in Banks \/ (code = Unset /\ Banks # {})

CheckBanks(t) ==
  /\ Goes(t, "idle",
          IF Found(Source[t]) /\ Found(Destination[t]) THEN "inserting"
          ELSE "errored")
  /\ UNCHANGED <<row, bank>> /\ Stays

\* The columns of the codes are not nullable.
Insert(t) ==
  /\ IF Unset \in {Source[t], Destination[t]}
     THEN Goes(t, "inserting", "errored") /\ UNCHANGED row
     ELSE /\ Goes(t, "inserting", "routing")
          /\ row' = [row EXCEPT ![t] = [NoRow EXCEPT !.status = "PENDING"]]
  /\ UNCHANGED bank /\ Stays

Route(t) ==
  /\ BankAnswers
  /\ \/ /\ Goes(t, "routing", "marking")
        /\ bank' = [bank EXCEPT ![t] = "accepted"]
     \/ Goes(t, "routing", "refusing") /\ UNCHANGED bank
  /\ UNCHANGED row /\ Stays

\* The call throws; the bank may have accepted the transfer all the same.
RouteThrows(t) ==
  /\ Goes(t, "routing", "failing")
  /\ \/ UNCHANGED bank
     \/ BankAnswers /\ bank' = [bank EXCEPT ![t] = "accepted"]
  /\ Throws
  /\ UNCHANGED <<row, subject, result, fresh>>

\* The three updates name the columns that they change.
SetStatus(t, status) == row' = [row EXCEPT ![t] = [@ EXCEPT !.status = status]]

MarkProcessing(t) ==
  /\ Goes(t, "marking", "accepted")
  /\ SetStatus(t, "PROCESSING")
  /\ UNCHANGED bank /\ Stays

\* Mutant: a refused transfer is marked like an accepted one.
MarkRefusedProcessing(t) ==
  /\ Goes(t, "refusing", "accepted")
  /\ SetStatus(t, "PROCESSING")
  /\ UNCHANGED bank /\ Stays

MarkRefused(t) ==
  /\ Goes(t, "refusing", "failed")
  /\ SetStatus(t, "FAILED")
  /\ UNCHANGED bank /\ Stays

\* Mutant: a status that the enum does not have.
MarkRejected(t) ==
  /\ Goes(t, "failing", "errored")
  /\ SetStatus(t, "REJECTED")
  /\ UNCHANGED bank /\ Stays

MarkFailed(t) ==
  /\ Goes(t, "failing", "errored")
  /\ SetStatus(t, "FAILED")
  /\ UNCHANGED bank /\ Stays

-----------------------------------------------------------------------------
(* verifyTransfer                                                          *)

UnderWay(t) == {v \in Verifications : subject[v] = t /\ pc[v] \notin Ends}

\* Only an answer that is no error gives its reference.
Referenced == {t \in Transfers : pc[t] \in {"accepted", "failed"}}

\* A final status is answered as it is stored.
ReadTransfer(v, t) ==
  /\ t \in Referenced
  /\ Goes(v, "idle", IF row[t].status \in Final THEN "answered" ELSE "checking")
  /\ subject' = [subject EXCEPT ![v] = t]
  /\ result' = [result EXCEPT ![v] = row[t].status]
  /\ fresh' = [fresh EXCEPT ![v] = bank[t] \in Final /\ UnderWay(t) = {}]
  /\ UNCHANGED <<row, bank, faultVars>>

CheckStatus(v) ==
  /\ BankAnswers
  /\ Goes(v, "checking", "updating")
  /\ result' = [result EXCEPT ![v] = StatusOf(subject[v])]
  /\ UNCHANGED <<row, bank, subject, fresh, faultVars>>

CheckThrows(v) ==
  /\ Goes(v, "checking", "errored")
  /\ Throws
  /\ UNCHANGED <<row, bank, subject, result, fresh>>

\* Mutant: completedAt is only written, never cleared.
UpdateKeepsStamp(v) ==
  /\ Goes(v, "updating", "answered")
  /\ row' = [row EXCEPT ![subject[v]] =
       [status      |-> result[v],
        completedAt |-> result[v] = "COMPLETED" \/ row[subject[v]].completedAt]]
  /\ UNCHANGED bank /\ Stays

\* Mutant: what the bank has not decided is taken for a failure.
UpdateUndecided(v) ==
  /\ Goes(v, "updating", "answered")
  /\ row' = [row EXCEPT ![subject[v]] =
       [status      |-> IF result[v] = "COMPLETED" THEN "COMPLETED" ELSE "FAILED",
        completedAt |-> result[v] = "COMPLETED"]]
  /\ UNCHANGED bank /\ Stays

\* Mutant: only a PENDING row is updated.
UpdatePending(v) ==
  /\ Goes(v, "updating", "answered")
  /\ row' = IF row[subject[v]].status = "PENDING"
            THEN [row EXCEPT ![subject[v]] =
                   [status |-> result[v], completedAt |-> result[v] = "COMPLETED"]]
            ELSE row
  /\ UNCHANGED bank /\ Stays

\* The update does not look at the status it replaces.
UpdateStatus(v) ==
  /\ Goes(v, "updating", "answered")
  /\ row' = [row EXCEPT ![subject[v]] =
       [status |-> result[v], completedAt |-> result[v] = "COMPLETED"]]
  /\ UNCHANGED bank /\ Stays

-----------------------------------------------------------------------------
(* Faults                                                                  *)

\* A query fails. The catch block of initiateTransfer marks the transfer FAILED.
AfterError(r) == IF pc[r] \in {"marking", "refusing"} THEN "failing" ELSE "errored"

DbError(r) ==
  /\ dbErrors < MaxDbErrors
  /\ pc[r] \in {"inserting", "marking", "refusing", "failing", "updating"}
  /\ dbErrors' = dbErrors + 1
  /\ pc' = [pc EXCEPT ![r] = AfterError(r)]
  /\ UNCHANGED <<row, bank, subject, result, fresh, throws, crashes>>

Crash ==
  /\ crashes < MaxCrashes
  /\ crashes' = crashes + 1
  /\ pc' = [r \in Requests |->
       IF pc[r] \in Ends \cup {"idle"} THEN pc[r] ELSE "lost"]
  /\ UNCHANGED <<row, bank, subject, result, fresh, throws, dbErrors>>

-----------------------------------------------------------------------------
Initiate(t) ==
  \/ CheckBanks(t) \/ Insert(t) \/ Route(t) \/ RouteThrows(t)
  \/ MarkProcessing(t) \/ MarkRefused(t) \/ MarkFailed(t)

Verify(v) == CheckStatus(v) \/ CheckThrows(v) \/ UpdateStatus(v)

Next ==
  \/ \E t \in Transfers : Initiate(t) \/ BankDecides(t)
  \/ \E v \in Verifications, t \in Transfers : ReadTransfer(v, t)
  \/ \E v \in Verifications : Verify(v)
  \/ \E r \in Requests : DbError(r)
  \/ Crash

Spec == Init /\ [][Next]_vars

-----------------------------------------------------------------------------
(* Properties                                                              *)

\* Rows, requests and the bank have their types.
TypeOK ==
  /\ row \in [Transfers -> Row]
  /\ bank \in [Transfers -> {"unknown", "accepted"} \cup Final]
  /\ pc \in [Requests ->
       {"idle", "inserting", "routing", "marking", "refusing", "failing",
        "checking", "updating"} \cup Ends]
  /\ subject \in [Verifications -> Transfers \cup {Nothing}]
  /\ result \in [Verifications -> Status \cup {"none"}]
  /\ fresh \in [Verifications -> BOOLEAN]
  /\ throws \in 0..MaxThrows
  /\ dbErrors \in 0..MaxDbErrors
  /\ crashes \in 0..MaxCrashes

\* A row that says COMPLETED, and an answer that says so, is a transfer that the
\* bank completed. One that says FAILED was not accepted or has failed, unless a
\* call threw or a query failed; one whose sender was told that it was accepted
\* is never marked FAILED before the bank decides so.
RowsFollowBank ==
  \A t \in Transfers :
    /\ row[t].status = "COMPLETED" => bank[t] = "COMPLETED"
    /\ row[t].status = "FAILED" =>
         \/ bank[t] \in {"unknown", "FAILED"}
         \/ pc[t] # "accepted" /\ throws + dbErrors > 0

\* Verifications answer what the bank decided, or that it has not, when it was
\* asked, and an answer never runs ahead of the bank.
AnswersFollowBank ==
  \A v \in Verifications :
    pc[v] = "answered" /\ pc[subject[v]] = "accepted" =>
      /\ result[v] \in Final => bank[subject[v]] = result[v]
      /\ bank[subject[v]] # "unknown"

\* A verification that begins after the bank's decision, with no other under
\* way, brings it into the row for good: later verifications, whatever their
\* number, find or write the same.
FreshVerificationSettles ==
  \A v \in Verifications :
    fresh[v] /\ pc[v] = "answered" => row[subject[v]].status = bank[subject[v]]

\* completedAt is set just where the status is COMPLETED, whichever updates of
\* overlapping verifications came last.
CompletionStamped ==
  \A t \in Transfers : row[t].completedAt <=> row[t].status = "COMPLETED"

\* Overlapping verifications may take a final status back to PROCESSING, but
\* never turn a completed transfer into a failed one or the reverse.
DecisionNeverFlips ==
  [][\A t \in Transfers :
       /\ row[t].status = "COMPLETED" => row'[t].status # "FAILED"
       /\ row[t].status = "FAILED" => row'[t].status # "COMPLETED"]_vars

\* What shetab stores and answers of a transfer follows the bank.
ReportsFollowBank ==
  TypeOK /\ RowsFollowBank /\ AnswersFollowBank /\ CompletionStamped
=============================================================================

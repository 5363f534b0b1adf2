----------------------------- MODULE PspPayments -----------------------------
(***************************************************************************)
(* The payment service provider (services/psp): processPayment, called by  *)
(* the gateway, initiates a card payment with Shaparak; verifyPayment asks *)
(* Shaparak and records the transaction in the hub; cancelTransaction.     *)
(* updateTransaction reads the whole row and saves the whole row, so each  *)
(* use of it is two steps and saves a copy that may be stale.              *)
(*                                                                         *)
(* No code inserts the rows of this service's transactions table; `Known`  *)
(* are the transactions that have one.                                     *)
(***************************************************************************)
EXTENDS Integers, FiniteSets

CONSTANTS
  Transactions,      \* transaction numbers, one call of processPayment each
  Known,             \* those that have a row
  References,        \* reference numbers
  PspVerifications,  \* calls of verifyPayment
  PspCancellations,  \* calls of cancelTransaction
  None,              \* no transaction, no reference
  MaxFaults          \* bound of the model: failing database calls and crashes

ASSUME PspAssumption ==
  /\ None \notin Transactions \cup References
  /\ Known \subseteq Transactions
  /\ MaxFaults \in Nat

VARIABLES
  pspStatus,     \* transactions.status
  pspReference,  \* transactions.gatewayReferenceId
  attempt,       \* payment_attempts.status of the call
  processor,     \* where processPayment stands, and its reference
  pspVerifier,   \* where verifyPayment stands, its row and its copy
  pspCanceller,  \* where cancelTransaction stands, its row and its copy
  recorded,      \* history: transactions that the hub has recorded
  faults         \* history: failing database calls and crashes

pspRows == <<pspStatus, pspReference, attempt, recorded>>
pspVars == <<pspRows, processor, pspVerifier, pspCanceller, faults>>

PspStatus == {"PENDING", "PENDING_AUTHORIZATION", "SUCCESSFUL", "FAILED",
              "CANCELLED"}

PspInit ==
  /\ pspStatus    = [t \in Known |-> "PENDING"]
  /\ pspReference = [t \in Known |-> None]
  /\ attempt      = [t \in Transactions |-> "none"]
  /\ processor    = [t \in Transactions |-> [pc |-> "idle", ref |-> None]]
  /\ pspVerifier  = [v \in PspVerifications |->
                       [pc |-> "idle", tx |-> None, copy |-> None]]
  /\ pspCanceller = [k \in PspCancellations |->
                       [pc |-> "idle", tx |-> None, copy |-> None]]
  /\ recorded     = {}
  /\ faults       = 0

\* Saving a copy of the row writes its status and its reference.
SaveRow(t, newStatus, ref) ==
  /\ pspStatus' = [pspStatus EXCEPT ![t] = newStatus]
  /\ pspReference' = [pspReference EXCEPT ![t] = ref]
  /\ UNCHANGED <<attempt, recorded>>

-----------------------------------------------------------------------------
(* processPayment                                                          *)

Processor(t, from, to) ==
  /\ processor[t].pc = from
  /\ processor' = [processor EXCEPT ![t].pc = to]
  /\ UNCHANGED <<pspVerifier, pspCanceller, faults>>

ProcessStart(t) == Processor(t, "idle", "checking") /\ UNCHANGED pspRows

\* The fraud check refuses the payment: the reply is an error.
ProcessReject(t) == Processor(t, "checking", "errored") /\ UNCHANGED pspRows

\* The attempt is saved and Shaparak is called.
ProcessAttempt(t) ==
  /\ Processor(t, "checking", "initiating")
  /\ attempt' = [attempt EXCEPT ![t] = "PROCESSING"]
  /\ UNCHANGED <<pspStatus, pspReference, recorded>>

\* Shaparak replies with the reference of a new payment.
ProcessInitiated(t, ref) ==
  /\ processor[t].pc = "initiating"
  /\ processor' = [processor EXCEPT ![t] = [pc |-> "finding", ref |-> ref]]
  /\ UNCHANGED <<pspVerifier, pspCanceller, pspRows, faults>>

\* Shaparak replies with an error.
ProcessRefused(t) ==
  Processor(t, "initiating", "failing") /\ UNCHANGED pspRows

\* updateTransaction throws NotFound when there is no row.
ProcessFind(t) ==
  /\ Processor(t, "finding", IF t \in Known THEN "saving" ELSE "failing")
  /\ UNCHANGED pspRows

ProcessSave(t) ==
  /\ Processor(t, "saving", "accepted")
  /\ SaveRow(t, "PENDING_AUTHORIZATION", processor[t].ref)

\* Mutant: the catch block only updates the transaction.
ProcessFailKeepsAttempt(t) ==
  Processor(t, "failing", "marking") /\ UNCHANGED pspRows

\* The catch block: the attempt has failed ...
ProcessFail(t) ==
  /\ Processor(t, "failing", "marking")
  /\ attempt' = [attempt EXCEPT ![t] = "FAILED"]
  /\ UNCHANGED <<pspStatus, pspReference, recorded>>

\* ... and so has the transaction, if it has a row; else this throws.
ProcessMarkFind(t) ==
  /\ \/ t \notin Known /\ Processor(t, "marking", "errored")
     \/ /\ t \in Known
        /\ processor[t].pc = "marking"
        /\ processor' = [processor EXCEPT
             ![t] = [pc |-> "markingSave", ref |-> pspReference[t]]]
        /\ UNCHANGED <<pspVerifier, pspCanceller, faults>>
  /\ UNCHANGED pspRows

\* Mutant: the transaction gets a status that the enum does not have.
ProcessMarkRawStatus(t) ==
  /\ Processor(t, "markingSave", "rejected")
  /\ SaveRow(t, "REJECTED", processor[t].ref)

\* The reply is a normal one, with success: false.
ProcessMark(t) ==
  /\ Processor(t, "markingSave", "rejected")
  /\ SaveRow(t, "FAILED", processor[t].ref)

-----------------------------------------------------------------------------
(* verifyPayment                                                           *)

PspVerifier(v, from, to) ==
  /\ pspVerifier[v].pc = from
  /\ pspVerifier' = [pspVerifier EXCEPT ![v].pc = to]
  /\ UNCHANGED <<processor, pspCanceller, faults>>

\* The row must exist, whatever its status; Shaparak is asked.
PspVerifyFind(v, t) ==
  /\ pspVerifier[v].pc = "idle"
  /\ pspVerifier' = [pspVerifier EXCEPT ![v] =
       [pc |-> IF t \in Known THEN "asking" ELSE "ended",
        tx |-> t, copy |-> None]]
  /\ UNCHANGED <<pspRows, processor, pspCanceller, faults>>

\* Mutant: the hub is not asked.
PspVerifyAnsweredSkipsHub(v, verified) ==
  /\ PspVerifier(v, "asking", IF verified THEN "updating" ELSE "failing")
  /\ UNCHANGED pspRows

\* Shaparak replies: the hub is asked to record the transaction, or the
\* catch block is entered.
PspVerifyAnswered(v, verified) ==
  /\ PspVerifier(v, "asking", IF verified THEN "recording" ELSE "failing")
  /\ UNCHANGED pspRows

\* The hub has recorded the transaction.
PspVerifyRecorded(v) ==
  /\ PspVerifier(v, "recording", "updating")
  /\ recorded' = recorded \cup {pspVerifier[v].tx}
  /\ UNCHANGED <<pspStatus, pspReference, attempt>>

PspVerifyErrored(v) ==
  /\ PspVerifier(v, "recording", "failing")
  /\ UNCHANGED pspRows

\* updateTransaction: the row is read and saved.
PspVerifyCopy(v) ==
  LET t    == pspVerifier[v].tx
      then == IF pspVerifier[v].pc = "updating" THEN "succeedingSave"
              ELSE "failingSave"
  IN
  /\ pspVerifier[v].pc \in {"updating", "failing"}
  /\ pspVerifier' = [pspVerifier EXCEPT ![v] =
       [pc |-> then, tx |-> t, copy |-> pspReference[t]]]
  /\ UNCHANGED <<pspRows, processor, pspCanceller, faults>>

PspVerifySave(v) ==
  \/ /\ PspVerifier(v, "succeedingSave", "ended")
     /\ SaveRow(pspVerifier[v].tx, "SUCCESSFUL", pspVerifier[v].copy)
  \/ /\ PspVerifier(v, "failingSave", "ended")
     /\ SaveRow(pspVerifier[v].tx, "FAILED", pspVerifier[v].copy)

-----------------------------------------------------------------------------
(* cancelTransaction                                                       *)

PspCanceller(k, from, to) ==
  /\ pspCanceller[k].pc = from
  /\ pspCanceller' = [pspCanceller EXCEPT ![k].pc = to]
  /\ UNCHANGED <<processor, pspVerifier, faults>>

\* A successful transaction is not cancelled; a cancelled one needs nothing.
PspCancelRead(k, t) ==
  /\ pspCanceller[k].pc = "idle"
  /\ pspCanceller' = [pspCanceller EXCEPT ![k] =
       [pc |-> IF t \notin Known THEN "ended"
               ELSE IF pspStatus[t] \in {"SUCCESSFUL", "CANCELLED"}
               THEN "ended" ELSE "checked",
        tx |-> t, copy |-> None]]
  /\ UNCHANGED <<pspRows, processor, pspVerifier, faults>>

PspCancelCopy(k) ==
  /\ pspCanceller[k].pc = "checked"
  /\ pspCanceller' = [pspCanceller EXCEPT ![k].pc = "saving",
                        ![k].copy = pspReference[pspCanceller[k].tx]]
  /\ UNCHANGED <<pspRows, processor, pspVerifier, faults>>

\* The hub is then told with a message that it does not handle: the caller
\* gets an error.
PspCancelSave(k) ==
  /\ PspCanceller(k, "saving", "ended")
  /\ SaveRow(pspCanceller[k].tx, "CANCELLED", pspCanceller[k].copy)

-----------------------------------------------------------------------------
(* Faults                                                                  *)

PspFault == faults < MaxFaults /\ faults' = faults + 1

\* A failing database call: inside a try block the catch block is entered,
\* elsewhere the reply is an error.
PspError ==
  /\ \/ \E t \in Transactions, from \in {"finding", "saving"} :
          /\ processor[t].pc = from
          /\ processor' = [processor EXCEPT ![t].pc = "failing"]
          /\ UNCHANGED <<pspVerifier, pspCanceller>>
     \/ \E t \in Transactions,
           from \in {"checking", "failing", "marking", "markingSave"} :
          /\ processor[t].pc = from
          /\ processor' = [processor EXCEPT ![t].pc = "errored"]
          /\ UNCHANGED <<pspVerifier, pspCanceller>>
     \/ \E v \in PspVerifications, t \in Known :
          /\ pspVerifier[v].pc = "idle"
          /\ pspVerifier' = [pspVerifier EXCEPT
               ![v] = [pc |-> "failing", tx |-> t, copy |-> None]]
          /\ UNCHANGED <<processor, pspCanceller>>
     \/ \E v \in PspVerifications, from \in {"updating", "succeedingSave"} :
          /\ pspVerifier[v].pc = from
          /\ pspVerifier' = [pspVerifier EXCEPT ![v].pc = "failing"]
          /\ UNCHANGED <<processor, pspCanceller>>
     \/ \E v \in PspVerifications, from \in {"failing", "failingSave"} :
          /\ pspVerifier[v].pc = from
          /\ pspVerifier' = [pspVerifier EXCEPT ![v].pc = "ended"]
          /\ UNCHANGED <<processor, pspCanceller>>
     \/ \E k \in PspCancellations, from \in {"checked", "saving"} :
          /\ pspCanceller[k].pc = from
          /\ pspCanceller' = [pspCanceller EXCEPT ![k].pc = "ended"]
          /\ UNCHANGED <<processor, pspVerifier>>
  /\ PspFault
  /\ UNCHANGED pspRows

\* The process dies and is restarted; nobody answers the calls in progress.
PspCrash ==
  LET Lost(handler, kept) ==
        IF handler.pc \in kept THEN handler ELSE [handler EXCEPT !.pc = "lost"]
  IN
  /\ processor' = [t \in Transactions |->
       Lost(processor[t], {"idle", "accepted", "rejected", "errored"})]
  /\ pspVerifier' = [v \in PspVerifications |->
       Lost(pspVerifier[v], {"idle", "ended"})]
  /\ pspCanceller' = [k \in PspCancellations |->
       Lost(pspCanceller[k], {"idle", "ended"})]
  /\ PspFault
  /\ UNCHANGED pspRows

PspProcess(t) ==
  \/ ProcessReject(t) \/ ProcessAttempt(t) \/ ProcessFind(t) \/ ProcessSave(t)
  \/ ProcessFail(t) \/ ProcessMarkFind(t) \/ ProcessMark(t)
PspVerify(v) ==
  \/ \E verified \in BOOLEAN : PspVerifyAnswered(v, verified)
  \/ PspVerifyRecorded(v) \/ PspVerifyErrored(v)
  \/ PspVerifyCopy(v) \/ PspVerifySave(v)
PspCancel(k) == PspCancelCopy(k) \/ PspCancelSave(k)

\* What the PSP does in processPayment between its calls.
PspStep == (\E t \in Transactions : PspProcess(t)) \/ PspError \/ PspCrash

PspNext ==
  \/ \E t \in Transactions : ProcessStart(t) \/ ProcessRefused(t)
  \/ \E t \in Transactions, ref \in References : ProcessInitiated(t, ref)
  \/ \E v \in PspVerifications, t \in Transactions : PspVerifyFind(v, t)
  \/ \E v \in PspVerifications : PspVerify(v)
  \/ \E k \in PspCancellations, t \in Transactions : PspCancelRead(k, t)
  \/ \E k \in PspCancellations : PspCancel(k)
  \/ PspStep

PspSpec == PspInit /\ [][PspNext]_pspVars
-----------------------------------------------------------------------------
(* Properties                                                              *)

\* Rows, program counters and the copies of handlers have their types.
PspTypeOK ==
  /\ pspStatus \in [Known -> PspStatus]
  /\ pspReference \in [Known -> References \cup {None}]
  /\ attempt \in [Transactions -> {"none", "PROCESSING", "FAILED"}]
  /\ processor \in [Transactions ->
       [pc : {"idle", "checking", "initiating", "finding", "saving", "failing",
              "marking", "markingSave", "accepted", "rejected", "errored",
              "lost"},
        ref : References \cup {None}]]
  /\ pspVerifier \in [PspVerifications ->
       [pc : {"idle", "asking", "recording", "updating", "failing",
              "succeedingSave", "failingSave", "ended", "lost"},
        tx : Transactions \cup {None}, copy : References \cup {None}]]
  /\ pspCanceller \in [PspCancellations ->
       [pc : {"idle", "checked", "saving", "ended", "lost"},
        tx : Transactions \cup {None}, copy : References \cup {None}]]
  /\ recorded \subseteq Transactions
  /\ faults \in Nat

\* A transaction is SUCCESSFUL only if the hub has recorded it, whatever else
\* happens to the row while the hub is being asked.
SuccessfulIsRecorded ==
  \A t \in Known : pspStatus[t] = "SUCCESSFUL" => t \in recorded

\* A payment that is reported as failed with a normal reply has no attempt
\* left in progress, whichever of its steps failed.
RejectedHasFailedAttempt ==
  \A t \in Transactions : processor[t].pc = "rejected" => attempt[t] = "FAILED"

\* Rows have their types, and attempts follow the replies.
AttemptsFollowReplies == PspTypeOK /\ RejectedHasFailedAttempt
=============================================================================

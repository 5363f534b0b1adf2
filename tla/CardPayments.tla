---------------------------- MODULE CardPayments ----------------------------
(***************************************************************************)
(* Card payments of Shaparak (services/shaparak): a payment is initiated,  *)
(* the card network reports its result in callbacks, which may be late,    *)
(* repeated or contradictory, the gateway verifies it and it is refunded.  *)
(* The handlers run concurrently and every query of theirs is a step.      *)
(*                                                                         *)
(* A payment is named by its reference number, which is unique.  A refund  *)
(* is a row of the same table, with the number REF-<reference>; callbacks, *)
(* verifications and refunds that name it treat it as any other payment.   *)
(***************************************************************************)
EXTENDS Integers, FiniteSets

CONSTANTS
  Transactions,   \* transaction numbers of the callers, and of refunds
  References,     \* reference numbers, of payments and of refunds
  Issued,         \* those that Shaparak hands out
  RefundOf,       \* REF-<reference>; None: not in the model (a bound)
  RefundTransaction, \* REFUND-<transaction>; None: not in the model (a bound)
  PaymentOf,      \* the number handed out from which REF- made this one
  Callbacks,      \* calls of processPaymentCallback
  Verifications,  \* calls of verifyPayment
  Refunds,        \* calls of refundPayment
  None,           \* no transaction, no reference
  MaxFaults       \* bound of the model: failing database calls and crashes

ASSUME CardAssumption ==
  /\ None \notin Transactions \cup References
  /\ Issued \subseteq References
  /\ RefundOf \in [References -> (References \ Issued) \cup {None}]
  /\ \A ref, other \in References :
       RefundOf[ref] = RefundOf[other] /\ RefundOf[ref] # None => ref = other
  /\ \A t \in Transactions \cup {None} :
       RefundTransaction[t] \in Transactions \cup {None}
  /\ \A ref \in Issued : PaymentOf[ref] = ref
  /\ \A ref \in References :
       RefundOf[ref] # None => PaymentOf[RefundOf[ref]] = PaymentOf[ref]
  /\ MaxFaults \in Nat

VARIABLES
  cardStatus,    \* card_payments.status of a reference
  transactionOf, \* card_payments.transaction_id of a reference
  refund,        \* the amount of the refund of a reference, in its row
  records,       \* the number of payment_verifications rows of a reference
  callback,      \* where processPaymentCallback stands
  verification,  \* where verifyPayment stands
  refunder,      \* where refundPayment stands
  paid,          \* history: references for which success was reported
  faults         \* history: failing database calls and crashes

rows     == <<cardStatus, transactionOf, refund, records, paid>>
handlers == <<callback, verification, refunder>>
cardVars == <<rows, handlers, faults>>

CardStatus == {"NONE", "PENDING", "SUCCESSFUL", "FAILED", "CANCELLED",
               "REFUNDED", "UNKNOWN"}
Outcomes   == {"SUCCESSFUL", "FAILED", "CANCELLED", "UNKNOWN"}

(***************************************************************************)
(* The amount of a refund: part of the payment, all of it as a number, or  *)
(* all of it as the decimal string that the service itself returns for a   *)
(* payment.  `amount === payment.amount` compares with that string.        *)
(***************************************************************************)
RefundAmounts == {"partial", "full", "fullAsString"}
SameAmount(amount) == amount = "fullAsString"

\* An amount that is not positive, or larger than the payment, is refused.
RequestedAmounts == RefundAmounts \cup {"invalid"}

CardInit ==
  /\ cardStatus    = [ref \in References |-> "NONE"]
  /\ transactionOf = [ref \in References |-> None]
  /\ refund        = [ref \in References |-> "none"]
  /\ records       = [ref \in References |-> 0]
  /\ callback      = [c \in Callbacks |-> [pc |-> "idle", ref |-> None,
                                           outcome |-> "UNKNOWN"]]
  /\ verification  = [v \in Verifications |-> [pc |-> "idle", ref |-> None]]
  /\ refunder      = [f \in Refunds |-> [pc |-> "idle", ref |-> None,
                                         amount |-> "partial"]]
  /\ paid          = {}
  /\ faults        = 0

\* The look-up of a payment finds it with the transaction of the caller.
Matches(ref, t) == cardStatus[ref] # "NONE" /\ transactionOf[ref] = t

\* The payment is inserted, for an active merchant, with a number that the
\* unique index accepts.
InitiateCardPayment(t, ref) ==
  /\ ref \in Issued
  /\ cardStatus[ref] = "NONE"
  /\ cardStatus' = [cardStatus EXCEPT ![ref] = "PENDING"]
  /\ transactionOf' = [transactionOf EXCEPT ![ref] = t]
  /\ UNCHANGED <<refund, records, paid, handlers, faults>>

-----------------------------------------------------------------------------
(* processPaymentCallback                                                  *)

Callback(c, from, to) ==
  /\ callback[c].pc = from
  /\ callback' = [callback EXCEPT ![c].pc = to]
  /\ UNCHANGED <<verification, refunder>>

CallbackRead(c, ref, t, outcome) ==
  /\ \/ ~Matches(ref, t) /\ Callback(c, "idle", "refused")
     \/ /\ Matches(ref, t)
        /\ callback[c].pc = "idle"
        /\ callback' = [callback EXCEPT
             ![c] = [pc |-> "read", ref |-> ref, outcome |-> outcome]]
        /\ UNCHANGED <<verification, refunder>>
  /\ UNCHANGED <<rows, faults>>

\* Mutant: the status of the callback is saved as it was received.
CallbackSaveRawStatus(c) ==
  LET outcome == callback[c].outcome
      ref     == callback[c].ref
  IN
  /\ Callback(c, "read", "saved")
  /\ cardStatus' = [cardStatus EXCEPT
       ![ref] = IF outcome = "SUCCESSFUL" THEN "SUCCESS" ELSE outcome]
  /\ paid' = IF outcome = "SUCCESSFUL" THEN paid \cup {ref} ELSE paid
  /\ UNCHANGED <<transactionOf, refund, records, faults>>

\* The result is saved, whatever the status of the payment is by now.
CallbackSave(c) ==
  LET outcome == callback[c].outcome
      ref     == callback[c].ref
  IN
  /\ Callback(c, "read", "saved")
  /\ cardStatus' = [cardStatus EXCEPT ![ref] = outcome]
  /\ paid' = IF outcome = "SUCCESSFUL" THEN paid \cup {ref} ELSE paid
  /\ UNCHANGED <<transactionOf, refund, records, faults>>

\* A verification record is inserted, also for a payment that failed.
CallbackRecord(c) ==
  /\ Callback(c, "saved", "done")
  /\ records' = [records EXCEPT ![callback[c].ref] = @ + 1]
  /\ UNCHANGED <<cardStatus, transactionOf, refund, paid, faults>>

-----------------------------------------------------------------------------
(* verifyPayment                                                           *)

Verification(v, from, to) ==
  /\ verification[v].pc = from
  /\ verification' = [verification EXCEPT ![v].pc = to]
  /\ UNCHANGED <<callback, refunder>>

\* Mutant: the status of the payment is not checked.
VerifyReadAnyStatus(v, ref, t, sameAmount) ==
  /\ verification[v].pc = "idle"
  /\ verification' = [verification EXCEPT ![v] =
       [pc |-> IF Matches(ref, t) /\ sameAmount THEN "paid" ELSE "refused",
        ref |-> ref]]
  /\ UNCHANGED <<callback, refunder, rows, faults>>

\* The payment is looked up and compared with the call.
VerifyRead(v, ref, t, sameAmount) ==
  LET confirmed == /\ Matches(ref, t) /\ sameAmount
                   /\ cardStatus[ref] = "SUCCESSFUL"
  IN
  /\ verification[v].pc = "idle"
  /\ verification' = [verification EXCEPT ![v] =
       [pc |-> IF confirmed THEN "paid" ELSE "refused", ref |-> ref]]
  /\ UNCHANGED <<callback, refunder, rows, faults>>

\* Mutant: the reply does not wait for the record.
VerifyLookUpReplies(v) ==
  /\ Verification(v, "paid", "verified")
  /\ UNCHANGED <<rows, faults>>

\* A verification record is looked up.
VerifyLookUp(v) ==
  /\ Verification(v, "paid",
       IF records[verification[v].ref] = 0 THEN "recording" ELSE "verified")
  /\ UNCHANGED <<rows, faults>>

\* It is inserted if there was none, and the reply is verified: true.
VerifyRecord(v) ==
  /\ Verification(v, "recording", "verified")
  /\ records' = [records EXCEPT ![verification[v].ref] = @ + 1]
  /\ UNCHANGED <<cardStatus, transactionOf, refund, paid, faults>>

-----------------------------------------------------------------------------
(* refundPayment                                                           *)

Refunder(f, from, to) ==
  /\ refunder[f].pc = from
  /\ refunder' = [refunder EXCEPT ![f].pc = to]
  /\ UNCHANGED <<callback, verification>>

\* Mutant: a payment can be refunded whatever its status.
RefundReadAnyStatus(f, ref, t, amount) ==
  /\ Matches(ref, t) /\ amount # "invalid"
  /\ refunder[f].pc = "idle"
  /\ refunder' = [refunder EXCEPT
       ![f] = [pc |-> "checked", ref |-> ref, amount |-> amount]]
  /\ UNCHANGED <<callback, verification, rows, faults>>

\* The payment is looked up; it must be SUCCESSFUL and the amount valid.
RefundRead(f, ref, t, amount) ==
  LET allowed == /\ Matches(ref, t) /\ cardStatus[ref] = "SUCCESSFUL"
                 /\ amount # "invalid"
  IN
  /\ \/ ~allowed /\ Refunder(f, "idle", "refused")
     \/ /\ allowed
        /\ refunder[f].pc = "idle"
        /\ refunder' = [refunder EXCEPT
             ![f] = [pc |-> "checked", ref |-> ref, amount |-> amount]]
        /\ UNCHANGED <<callback, verification>>
  /\ UNCHANGED <<rows, faults>>

\* The row of a refund.
InsertRefund(ref, amount) ==
  /\ refund' = [refund EXCEPT ![ref] = amount]
  /\ cardStatus' = [r \in References |->
       IF r = RefundOf[ref] THEN "SUCCESSFUL" ELSE cardStatus[r]]
  /\ transactionOf' = [r \in References |->
       IF r = RefundOf[ref] THEN RefundTransaction[transactionOf[ref]]
       ELSE transactionOf[r]]

\* Mutant: reference_id has no unique index.
RefundSaveWithoutIndex(f) ==
  LET amount == refunder[f].amount IN
  /\ Refunder(f, "checked", IF SameAmount(amount) THEN "marking" ELSE "done")
  /\ InsertRefund(refunder[f].ref, amount)
  /\ UNCHANGED <<records, paid, faults>>

\* Mutant: a refund of any amount marks the payment.
RefundSaveForAll(f) ==
  /\ Refunder(f, "checked", "marking")
  /\ refund[refunder[f].ref] = "none"
  /\ InsertRefund(refunder[f].ref, refunder[f].amount)
  /\ UNCHANGED <<records, paid, faults>>

\* The refund is inserted, unless the unique index has one for the payment.
RefundSave(f) ==
  LET ref    == refunder[f].ref
      amount == refunder[f].amount
  IN
  /\ \/ /\ Refunder(f, "checked", "failed")
        /\ refund[ref] # "none"
        /\ UNCHANGED <<refund, cardStatus, transactionOf>>
     \/ /\ Refunder(f, "checked",
                    IF SameAmount(amount) THEN "marking" ELSE "done")
        /\ refund[ref] = "none"
        /\ InsertRefund(ref, amount)
  /\ UNCHANGED <<records, paid, faults>>

\* The payment, read before, is saved as REFUNDED.
RefundMark(f) ==
  /\ Refunder(f, "marking", "done")
  /\ cardStatus' = [cardStatus EXCEPT ![refunder[f].ref] = "REFUNDED"]
  /\ UNCHANGED <<transactionOf, refund, records, paid, faults>>

\* getPaymentStatus says of a payment, next to the columns of its row, whether
\* it is verified: if there is a record, also that of a failed payment.
SaysVerified(ref) == records[ref] > 0

-----------------------------------------------------------------------------
(* Faults                                                                  *)

Fault == faults < MaxFaults /\ faults' = faults + 1

Finished == {"done", "verified", "refused", "failed", "lost"}
Running(handler) == handler.pc \notin Finished \cup {"idle"}

\* A failing database call ends the handler, which replies with the error;
\* what it has saved stays saved.
CardError ==
  /\ \/ \E c \in Callbacks, from \in {"idle", "read", "saved"} :
          Callback(c, from, "failed")
     \/ \E v \in Verifications, from \in {"idle", "paid", "recording"} :
          Verification(v, from, "failed")
     \/ \E f \in Refunds, from \in {"idle", "checked", "marking"} :
          Refunder(f, from, "failed")
  /\ Fault
  /\ UNCHANGED rows

\* The process dies and is restarted.
CardCrash ==
  LET Lost(handler) ==
        IF Running(handler) THEN [handler EXCEPT !.pc = "lost"] ELSE handler
  IN
  /\ callback' = [c \in Callbacks |-> Lost(callback[c])]
  /\ verification' = [v \in Verifications |-> Lost(verification[v])]
  /\ refunder' = [f \in Refunds |-> Lost(refunder[f])]
  /\ Fault
  /\ UNCHANGED rows

CardCallback(c) == CallbackSave(c) \/ CallbackRecord(c)
CardVerify(v)   == VerifyLookUp(v) \/ VerifyRecord(v)
CardRefund(f)   == RefundSave(f) \/ RefundMark(f)

\* What Shaparak does without being called by another service.
CardStep ==
  \/ \E c \in Callbacks, ref \in References, t \in Transactions,
        outcome \in Outcomes : CallbackRead(c, ref, t, outcome)
  \/ \E f \in Refunds, ref \in References, t \in Transactions,
        amount \in RequestedAmounts : RefundRead(f, ref, t, amount)
  \/ \E c \in Callbacks : CardCallback(c)
  \/ \E v \in Verifications : CardVerify(v)
  \/ \E f \in Refunds : CardRefund(f)
  \/ CardError
  \/ CardCrash

CardNext ==
  \/ \E t \in Transactions, ref \in References : InitiateCardPayment(t, ref)
  \/ \E v \in Verifications, ref \in References, t \in Transactions,
        sameAmount \in BOOLEAN : VerifyRead(v, ref, t, sameAmount)
  \/ CardStep

CardSpec == CardInit /\ [][CardNext]_cardVars
-----------------------------------------------------------------------------
(* Properties                                                              *)

\* Rows, program counters and what handlers keep across an await have their
\* types.
CardTypeOK ==
  /\ cardStatus \in [References -> CardStatus]
  /\ transactionOf \in [References -> Transactions \cup {None}]
  /\ refund \in [References -> RefundAmounts \cup {"none"}]
  /\ records \in [References -> Nat]
  /\ callback \in [Callbacks ->
       [pc : {"idle", "read", "saved", "done", "refused", "failed", "lost"},
        ref : References \cup {None}, outcome : Outcomes]]
  /\ verification \in [Verifications ->
       [pc : {"idle", "paid", "recording", "verified", "refused", "failed",
              "lost"},
        ref : References \cup {None}]]
  /\ refunder \in [Refunds ->
       [pc : {"idle", "checked", "marking", "done", "refused", "failed",
              "lost"},
        ref : References \cup {None}, amount : RefundAmounts]]
  /\ paid \subseteq References
  /\ faults \in Nat

\* What verifyPayment has confirmed, a payment or the refund of one, goes back to
\* a payment that was reported as successful, and getPaymentStatus says that it
\* is verified, also when the callback that reported it was cut off between its
\* two inserts.
VerifiedHasRecord ==
  \A v \in Verifications : verification[v].pc = "verified" =>
    /\ PaymentOf[verification[v].ref] \in paid
    /\ SaysVerified(verification[v].ref)

Refunded(f) == refunder[f].pc \in {"marking", "done"}

\* Refunds that race, or a refund that is sent again, answer with success at
\* most once per payment.
RefundedOnce ==
  \A f, g \in Refunds :
    Refunded(f) /\ Refunded(g) /\ refunder[f].ref = refunder[g].ref => f = g

\* There is no refund of a payment that was never reported as successful, nor a
\* refund of its refund, whatever callbacks arrive while one is in progress and
\* whether they name the payment or the refund.
RefundedWasPaid ==
  \A ref \in References : refund[ref] # "none" => PaymentOf[ref] \in paid

\* A payment says REFUNDED only when all of it is refunded.
RefundedInFull ==
  \A ref \in References :
    cardStatus[ref] = "REFUNDED" => refund[ref] = "fullAsString"

\* A refund that was recorded keeps its row, whatever calls name it do to its
\* status: the unique index still refuses a second one.
RefundHasRow ==
  \A ref \in References : RefundOf[ref] # None =>
    (refund[ref] # "none" <=> cardStatus[RefundOf[ref]] # "NONE")

\* What is left in the database of refunds, whichever of them failed, means
\* something: rows have their types, money that was paid is refunded, a payment
\* that says REFUNDED was refunded in full, and refunds have their rows.
RefundsAreSound ==
  CardTypeOK /\ RefundedWasPaid /\ RefundedInFull /\ RefundHasRow

\* card-payment.service.ts:329, "Update original payment if full refund": a
\* refund of the whole amount that succeeds marks the payment.
FullRefundMarksPayment ==
  [][\A f \in Refunds :
       refunder[f].pc # "done" /\ refunder'[f].pc = "done"
         /\ refunder[f].amount \in {"full", "fullAsString"}
         => cardStatus'[refunder[f].ref] = "REFUNDED"]_cardVars
=============================================================================

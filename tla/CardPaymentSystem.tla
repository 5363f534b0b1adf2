-------------------------- MODULE CardPaymentSystem --------------------------
(***************************************************************************)
(* A card payment end to end: the gateway, the PSP and Shaparak, with the  *)
(* calls between them, and the source bank as environment.                 *)
(*                                                                         *)
(* A call over RabbitMQ is a handler of the callee that waits for the      *)
(* caller to stand at the call; its reply is a step of both.  A caller     *)
(* whose callee has died waits for ever, a callee whose caller has died    *)
(* goes on.                                                                *)
(***************************************************************************)
EXTENDS Integers, FiniteSets

CONSTANTS Transactions, References, Verifications, Cancellations, Callbacks,
          Refunds, Known, None, MaxFaults

ASSUME SystemAssumption ==
  /\ None \notin Transactions \cup References
  /\ Known \subseteq Transactions
  /\ MaxFaults \in Nat

VARIABLES
  txStatus, txReference, initiator, verifier, canceller, settleReply,
  pspStatus, pspReference, attempt, processor, pspVerifier, pspCanceller,
  recorded,
  cardStatus, transactionOf, refund, records, callback, verification,
  refunder, paid,
  faults

Gateway  == INSTANCE GatewayPayments
Psp      == INSTANCE PspPayments WITH PspVerifications <- {},
                                      PspCancellations <- {}
\* Calls that name the row of a refund, REF-<reference>, change that row and
\* those of its refunds, which no other service reads: they are in CardPayments
\* and left out here.
Shaparak == INSTANCE CardPayments WITH
              Issued            <- References,
              RefundOf          <- [ref \in References |-> None],
              RefundTransaction <- [t \in Transactions \cup {None} |-> None],
              PaymentOf         <- [ref \in References |-> ref]

gateway  == <<txStatus, txReference, initiator, verifier, canceller,
              settleReply>>
psp      == <<pspStatus, pspReference, attempt, processor, pspVerifier,
              pspCanceller, recorded>>
shaparak == <<cardStatus, transactionOf, refund, records, callback,
              verification, refunder, paid>>
vars     == <<gateway, psp, shaparak, faults>>

Init == Gateway!GatewayInit /\ Psp!PspInit /\ Shaparak!CardInit

-----------------------------------------------------------------------------
(* Calls                                                                   *)

\* POST /payments/initiate; the gateway calls the PSP.
CallPsp(t) ==
  /\ Gateway!InitiateCreate(t)
  /\ Psp!ProcessStart(t)
  /\ UNCHANGED shaparak

\* Mutant: Shaparak records the payment for some transaction.
CallShaparakForAnyTransaction(t, ref) ==
  /\ Psp!ProcessInitiated(t, ref)
  /\ \E u \in Transactions : Shaparak!InitiateCardPayment(u, ref)
  /\ UNCHANGED gateway

\* The PSP calls Shaparak, which inserts the payment and replies.  (That
\* Shaparak dies in between has the effect of the PSP dying right after.)
CallShaparak(t, ref) ==
  /\ Psp!ProcessInitiated(t, ref)
  /\ Shaparak!InitiateCardPayment(t, ref)
  /\ UNCHANGED gateway

\* Shaparak refuses, because of the merchant or of a reference number that
\* exists already.
ShaparakRefuses(t) ==
  /\ Psp!ProcessRefused(t)
  /\ UNCHANGED <<gateway, shaparak>>

\* The reply of the PSP reaches the gateway.
PspReplies(t) ==
  /\ \/ processor[t].pc = "accepted" /\
        Gateway!InitiateReplied(t, processor[t].ref)
     \/ processor[t].pc = "rejected" /\ Gateway!InitiateReplied(t, None)
     \/ processor[t].pc = "errored" /\ Gateway!InitiateRejected(t)
  /\ UNCHANGED <<psp, shaparak>>

\* The gateway's verification v calls Shaparak with the reference and the
\* amount of its row.
CallVerify(v) ==
  /\ verifier[v].pc = "asking"
  /\ Shaparak!VerifyRead(v, txReference[verifier[v].tx], verifier[v].tx, TRUE)
  /\ UNCHANGED <<gateway, psp>>

ShaparakAnswers(v) ==
  /\ \/ verification[v].pc = "verified" /\ Gateway!VerifyAnswered(v, TRUE)
     \/ verification[v].pc = "refused" /\ Gateway!VerifyAnswered(v, FALSE)
     \/ verification[v].pc = "failed" /\ Gateway!VerifyErrored(v)
  /\ UNCHANGED <<psp, shaparak>>

\* settle_transaction of bank-source: success is false when the bank does not
\* know the transaction.
BankReplies(v) ==
  /\ verifier[v].pc = "settling"
  /\ \/ \E success \in BOOLEAN : Gateway!VerifySettled(v, success)
     \/ Gateway!VerifyErrored(v)
  /\ UNCHANGED <<psp, shaparak>>

Next ==
  \/ \E t \in Transactions :
       CallPsp(t) \/ ShaparakRefuses(t) \/ PspReplies(t)
  \/ \E t \in Transactions, ref \in References : CallShaparak(t, ref)
  \/ \E v \in Verifications :
       CallVerify(v) \/ ShaparakAnswers(v) \/ BankReplies(v)
  \/ Gateway!GatewayStep /\ UNCHANGED <<psp, shaparak>>
  \/ Psp!PspStep /\ UNCHANGED <<gateway, shaparak>>
  \/ Shaparak!CardStep /\ UNCHANGED <<gateway, psp>>

Spec == Init /\ [][Next]_vars

(***************************************************************************)
(* Handlers that can go on do, and a service that was called replies.      *)
(* Users, callbacks of the card network and faults are not fair.           *)
(***************************************************************************)
Fairness ==
  /\ \A t \in Transactions :
       /\ WF_vars(PspReplies(t))
       /\ WF_vars(Gateway!GatewayInitiate(t) /\ UNCHANGED <<psp, shaparak>>)
       /\ WF_vars(Psp!PspProcess(t) /\ UNCHANGED <<gateway, shaparak>>)
       /\ WF_vars(ShaparakRefuses(t)
                  \/ \E ref \in References : CallShaparak(t, ref))
  /\ \A v \in Verifications :
       /\ WF_vars(CallVerify(v))
       /\ WF_vars(ShaparakAnswers(v))
       /\ WF_vars(BankReplies(v))
       /\ WF_vars(Gateway!GatewayVerify(v) /\ UNCHANGED <<psp, shaparak>>)
       /\ WF_vars(Shaparak!CardVerify(v) /\ UNCHANGED <<gateway, psp>>)

FairSpec == Spec /\ Fairness
-----------------------------------------------------------------------------
(* Properties                                                              *)

\* The gateway's columns and handlers have their types.
TypeOK ==
  /\ txStatus \in [Transactions -> Gateway!TxStatus]
  /\ txReference \in [Transactions -> References \cup {None}]
  /\ initiator \in [Transactions ->
       [pc : {"idle", "calling", "updating", "failing", "ended"},
        ref : References \cup {None}]]
  /\ verifier \in [Verifications ->
       [pc : {"idle", "asking", "settling", "succeeding", "refusing",
              "decided", "ended"},
        tx : Transactions \cup {None}]]
  /\ canceller \in [Cancellations ->
       [pc : {"idle", "checked", "ended"}, tx : Transactions \cup {None}]]
  /\ settleReply \in [Verifications -> {"none", "settled", "notFound"}]

\* A transaction that the gateway reports as SUCCESSFUL was paid at Shaparak
\* under the reference of its row, which has a verification record, and the
\* source bank has answered its settlement.  The summary of the user does not
\* count more successful transactions than payments that were paid.
SuccessfulWasPaid ==
  /\ \A t \in Transactions : txStatus[t] = "SUCCESSFUL" =>
       /\ txReference[t] \in paid
       /\ records[txReference[t]] > 0
       /\ \E v \in Verifications : verifier[v].tx = t /\ settleReply[v] # "none"
  /\ Gateway!Summary.successfulTransactions <= Cardinality(paid)

\* The reference of a row names a payment that Shaparak keeps for this very
\* transaction, so that no two transactions are paid by one payment.
ReferencesAgree ==
  \A t \in Transactions :
    txReference[t] # None => transactionOf[txReference[t]] = t

\* Once a verification has written its result, the transaction has a final
\* status, whatever initiatePayment, cancellations and other verifications
\* still write.
DecidedIsFinal ==
  \A t \in Transactions :
    Gateway!Decided(t) => txStatus[t] \in Gateway!FinalTxStatus

\* A created transaction does not stay PENDING: the PSP's reply, whatever it
\* is, decides it for good.
EventuallyNotPending ==
  \A t \in Transactions :
    txStatus[t] = "PENDING" ~> [](txStatus[t] # "PENDING")

\* Once Shaparak has confirmed a payment to the gateway, the gateway goes
\* through the settlement and writes a result, whatever the bank replies and
\* whatever other calls do to the row.
ConfirmedIsConcluded ==
  \A v \in Verifications :
    verification[v].pc = "verified" ~> verifier[v].pc = "decided"
=============================================================================

--------------------------- MODULE GatewayPayments ---------------------------
(***************************************************************************)
(* Payments of the gateway (services/gateway-api, payment): a user         *)
(* initiates a payment, which the PSP processes; verifies it, which asks   *)
(* Shaparak and settles with the source bank; and may cancel it.  Each     *)
(* handler updates the status of the row after remote calls, with UPDATE   *)
(* statements that do not look at the status they replace.                 *)
(*                                                                         *)
(* A transaction is named by the initiatePayment call that creates it.     *)
(* Replies of other services are parameters of the actions.                *)
(***************************************************************************)
EXTENDS Integers, FiniteSets

CONSTANTS
  Transactions,   \* calls of initiatePayment
  References,     \* reference numbers
  Verifications,  \* calls of verifyPayment
  Cancellations,  \* calls of cancelTransaction
  None,           \* no transaction, no reference
  MaxFaults       \* bound of the model: failing database calls and crashes

VARIABLES
  txStatus,     \* transactions.status
  txReference,  \* transactions.reference_id
  initiator,    \* where initiatePayment stands
  verifier,     \* where verifyPayment stands
  canceller,    \* where cancelTransaction stands
  settleReply,  \* history: the reply of the source bank to a verification
  faults        \* history: failing database calls and crashes

txRows      == <<txStatus, txReference>>
gatewayVars == <<txRows, initiator, verifier, canceller, settleReply, faults>>

TxStatus == {"NONE", "PENDING", "PROCESSING", "SUCCESSFUL", "FAILED",
             "CANCELLED"}
FinalTxStatus == {"SUCCESSFUL", "FAILED", "CANCELLED"}

GatewayInit ==
  /\ txStatus    = [t \in Transactions |-> "NONE"]
  /\ txReference = [t \in Transactions |-> None]
  /\ initiator   = [t \in Transactions |-> [pc |-> "idle", ref |-> None]]
  /\ verifier    = [v \in Verifications |-> [pc |-> "idle", tx |-> None]]
  /\ canceller   = [k \in Cancellations |-> [pc |-> "idle", tx |-> None]]
  /\ settleReply = [v \in Verifications |-> "none"]
  /\ faults      = 0

\* UPDATE transactions SET status WHERE id.
UpdateStatus(t, newStatus) ==
  /\ txStatus' = [txStatus EXCEPT ![t] = newStatus]
  /\ UNCHANGED txReference

\* getPaymentSummary counts the rows of the user by status.
Summary ==
  LET Count(statuses) ==
        Cardinality({t \in Transactions : txStatus[t] \in statuses})
  IN [totalTransactions      |-> Count(TxStatus \ {"NONE"}),
      successfulTransactions |-> Count({"SUCCESSFUL"}),
      failedTransactions     |-> Count({"FAILED"})]

-----------------------------------------------------------------------------
(* initiatePayment                                                         *)

Initiator(t, from, to) ==
  /\ initiator[t].pc = from
  /\ initiator' = [initiator EXCEPT ![t].pc = to]
  /\ UNCHANGED <<verifier, canceller, settleReply, faults>>

\* The row is inserted and the PSP is called.
InitiateCreate(t) ==
  /\ Initiator(t, "idle", "calling")
  /\ UpdateStatus(t, "PENDING")

\* The PSP replies.  A failure that is a normal reply has no reference and is
\* treated like a success.
InitiateReplied(t, ref) ==
  /\ initiator[t].pc = "calling"
  /\ initiator' = [initiator EXCEPT ![t] = [pc |-> "updating", ref |-> ref]]
  /\ UNCHANGED <<txRows, verifier, canceller, settleReply, faults>>

\* The PSP replies with an error.
InitiateRejected(t) ==
  /\ Initiator(t, "calling", "failing")
  /\ UNCHANGED txRows

\* Mutant: the reference is written by an update of its own.
InitiateUpdateInTwoSteps(t) ==
  LET ref == initiator[t].ref IN
  \/ /\ Initiator(t, "updating", "updating")
     /\ txReference[t] # ref
     /\ txReference' = [txReference EXCEPT ![t] = ref]
     /\ UNCHANGED txStatus
  \/ /\ Initiator(t, "updating", "ended")
     /\ txReference[t] = ref
     /\ UpdateStatus(t, "PROCESSING")

\* The reference, if there is one, and PROCESSING are written, unless another
\* row has the reference already.
InitiateUpdate(t) ==
  LET ref   == initiator[t].ref
      taken == ref # None /\ \E u \in Transactions : txReference[u] = ref
  IN
  /\ Initiator(t, "updating", "ended")
  /\ txStatus' = IF taken THEN txStatus
                 ELSE [txStatus EXCEPT ![t] = "PROCESSING"]
  /\ txReference' = IF taken \/ ref = None THEN txReference
                    ELSE [txReference EXCEPT ![t] = ref]

\* Mutant: the status of the PSP's error is written.
InitiateFailRawStatus(t) ==
  /\ Initiator(t, "failing", "ended")
  /\ UpdateStatus(t, "REJECTED")

\* Mutant: the error is returned without an update.
InitiateFailReturns(t) ==
  /\ Initiator(t, "failing", "ended")
  /\ UNCHANGED txRows

InitiateFail(t) ==
  /\ Initiator(t, "failing", "ended")
  /\ UpdateStatus(t, "FAILED")

-----------------------------------------------------------------------------
(* verifyPayment                                                           *)

Verifier(v, from, to) ==
  /\ verifier[v].pc = from
  /\ verifier' = [verifier EXCEPT ![v].pc = to]
  /\ UNCHANGED <<initiator, canceller, faults>>

\* The row is looked up by its reference; a final status ends the call.
VerifyFind(v, ref) ==
  /\ verifier[v].pc = "idle"
  /\ \/ /\ \A t \in Transactions :
             txReference[t] = ref => txStatus[t] \in FinalTxStatus
        /\ Verifier(v, "idle", "ended")
     \/ \E t \in Transactions :
          /\ txReference[t] = ref
          /\ txStatus[t] \notin FinalTxStatus
          /\ verifier' = [verifier EXCEPT ![v] = [pc |-> "asking", tx |-> t]]
          /\ UNCHANGED <<initiator, canceller, faults>>
  /\ UNCHANGED <<txRows, settleReply>>

\* Mutant: the bank is not asked.
VerifyAnsweredSkipsBank(v, verified) ==
  /\ Verifier(v, "asking", IF verified THEN "succeeding" ELSE "refusing")
  /\ UNCHANGED <<txRows, settleReply>>

\* Mutant: a confirmed payment is returned without settling and updating it.
VerifyAnsweredReturns(v, verified) ==
  /\ Verifier(v, "asking", IF verified THEN "ended" ELSE "refusing")
  /\ UNCHANGED <<txRows, settleReply>>

\* Shaparak replies: the source bank is asked to settle, or the payment fails.
VerifyAnswered(v, verified) ==
  /\ Verifier(v, "asking", IF verified THEN "settling" ELSE "refusing")
  /\ UNCHANGED <<txRows, settleReply>>

\* The source bank replies, with success true or false.
VerifySettled(v, success) ==
  /\ Verifier(v, "settling", "succeeding")
  /\ settleReply' = [settleReply EXCEPT
       ![v] = IF success THEN "settled" ELSE "notFound"]
  /\ UNCHANGED txRows

\* A remote call replies with an error: the catch block is entered.
VerifyErrored(v) ==
  /\ \E from \in {"asking", "settling"} : Verifier(v, from, "refusing")
  /\ UNCHANGED <<txRows, settleReply>>

VerifySucceed(v) ==
  /\ Verifier(v, "succeeding", "decided")
  /\ UpdateStatus(verifier[v].tx, "SUCCESSFUL")
  /\ UNCHANGED settleReply

\* FAILED is written, by the else branch or by the catch block.
VerifyRefuse(v) ==
  /\ Verifier(v, "refusing", "decided")
  /\ UpdateStatus(verifier[v].tx, "FAILED")
  /\ UNCHANGED settleReply

-----------------------------------------------------------------------------
(* cancelTransaction                                                       *)

Canceller(k, from, to) ==
  /\ canceller[k].pc = from
  /\ canceller' = [canceller EXCEPT ![k].pc = to]
  /\ UNCHANGED <<initiator, verifier, settleReply, faults>>

\* The row is read; only a pending one is cancelled.
CancelRead(k, t) ==
  /\ \/ txStatus[t] # "PENDING" /\ Canceller(k, "idle", "ended")
     \/ /\ txStatus[t] = "PENDING"
        /\ canceller[k].pc = "idle"
        /\ canceller' = [canceller EXCEPT ![k] = [pc |-> "checked", tx |-> t]]
        /\ UNCHANGED <<initiator, verifier, settleReply, faults>>
  /\ UNCHANGED txRows

CancelWrite(k) ==
  /\ Canceller(k, "checked", "ended")
  /\ UpdateStatus(canceller[k].tx, "CANCELLED")

-----------------------------------------------------------------------------
(* Faults                                                                  *)

GatewayFault == faults < MaxFaults /\ faults' = faults + 1

\* A failing database call ends the handler: the updates after a reply are
\* returned without await and so are not in the try block either.
GatewayError ==
  /\ \/ \E t \in Transactions, from \in {"idle", "updating", "failing"} :
          /\ initiator[t].pc = from
          /\ initiator' = [initiator EXCEPT ![t].pc = "ended"]
          /\ UNCHANGED <<verifier, canceller>>
     \/ \E v \in Verifications, from \in {"idle", "succeeding", "refusing"} :
          /\ verifier[v].pc = from
          /\ verifier' = [verifier EXCEPT ![v].pc = "ended"]
          /\ UNCHANGED <<initiator, canceller>>
     \/ \E k \in Cancellations, from \in {"idle", "checked"} :
          /\ canceller[k].pc = from
          /\ canceller' = [canceller EXCEPT ![k].pc = "ended"]
          /\ UNCHANGED <<initiator, verifier>>
  /\ GatewayFault
  /\ UNCHANGED <<txRows, settleReply>>

\* The process dies and is restarted: the calls in progress are lost.
GatewayCrash ==
  LET Lost(handler) == IF handler.pc \in {"idle", "decided"} THEN handler
                       ELSE [handler EXCEPT !.pc = "ended"]
  IN
  /\ initiator' = [t \in Transactions |-> Lost(initiator[t])]
  /\ verifier' = [v \in Verifications |-> Lost(verifier[v])]
  /\ canceller' = [k \in Cancellations |-> Lost(canceller[k])]
  /\ GatewayFault
  /\ UNCHANGED <<txRows, settleReply>>

GatewayInitiate(t) == InitiateUpdate(t) \/ InitiateFail(t)
GatewayVerify(v)   == VerifySucceed(v) \/ VerifyRefuse(v)

\* What the gateway does on its own and for its users.
GatewayStep ==
  \/ \E t \in Transactions : GatewayInitiate(t)
  \/ \E v \in Verifications, ref \in References : VerifyFind(v, ref)
  \/ \E v \in Verifications : GatewayVerify(v)
  \/ \E k \in Cancellations, t \in Transactions : CancelRead(k, t)
  \/ \E k \in Cancellations : CancelWrite(k)
  \/ GatewayError
  \/ GatewayCrash

\* A transaction that a verification has decided.
Decided(t) == \E v \in Verifications :
                verifier[v].pc = "decided" /\ verifier[v].tx = t
=============================================================================

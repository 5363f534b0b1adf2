------------------------ MODULE CardPayments_proofs ------------------------
(***************************************************************************)
(* Proofs about CardPayments, for any numbers of payments and of calls and *)
(* any bound on the faults; about the rules for card numbers, for numbers  *)
(* of any length; and about listings, for tables and pages of any size.    *)
(***************************************************************************)
EXTENDS CardPayments, CardRules, PagedReads, SumTheorems, FiniteSetTheorems,
        TLAPS

(***************************************************************************)
(* The inductive invariant.  The properties speak of rows and of handlers  *)
(* that have answered; what makes them inductive is what a handler on its  *)
(* way knows about its row although callbacks may have changed the status  *)
(* since: that it is there, that the payment behind it was paid, and that  *)
(* its refund is recorded.                                                 *)
(***************************************************************************)

\* A callback that has read its payment has one.
CallbackInv ==
  \A c \in Callbacks : callback[c].pc \in {"read", "saved"} =>
    callback[c].ref \in References /\ cardStatus[callback[c].ref] # "NONE"

\* A verification beyond the check of the status is of a paid payment.
VerificationInv ==
  \A v \in Verifications :
    verification[v].pc \in {"paid", "recording", "verified"} =>
      /\ verification[v].ref \in References
      /\ PaymentOf[verification[v].ref] \in paid

\* So is a refund; once it is saved the row is there with its amount, and the
\* payment is marked for the whole amount only.
RefunderInv ==
  \A f \in Refunds :
    /\ refunder[f].pc \in {"checked", "marking", "done"} =>
         /\ refunder[f].ref \in References
         /\ cardStatus[refunder[f].ref] # "NONE"
         /\ PaymentOf[refunder[f].ref] \in paid
    /\ refunder[f].pc = "marking" => refunder[f].amount = "fullAsString"
    /\ refunder[f].pc \in {"marking", "done"}
         => refund[refunder[f].ref] = refunder[f].amount

\* SUCCESSFUL was reported, of the payment or of the one that was refunded;
\* there is no refund of another.
StatusInv ==
  \A ref \in References :
    \/ cardStatus[ref] = "SUCCESSFUL"
    \/ cardStatus[ref] # "NONE" /\ ref \notin Issued
    => PaymentOf[ref] \in paid

CardInv ==
  /\ CardTypeOK
  /\ CallbackInv
  /\ VerificationInv
  /\ RefunderInv
  /\ StatusInv
  /\ VerifiedHasRecord
  /\ RefundedOnce
  /\ RefundedWasPaid
  /\ RefundedInFull
  /\ RefundHasRow

USE DEF CardInv, SaysVerified

\* The initial states have the invariant.
LEMMA CardInvInit == CardInit => CardInv
  BY CardAssumption DEF CardInit, CardTypeOK, CallbackInv, VerificationInv,
     RefunderInv, StatusInv, VerifiedHasRecord, RefundedOnce, Refunded,
     RefundedWasPaid, RefundedInFull, RefundHasRow, CardStatus, Outcomes, RefundAmounts

USE DEF CardTypeOK, rows, handlers

\* The row of a refund is of no number handed out, and of one refund only; it
\* goes back to the same payment.
LEMMA RefundRows ==
  /\ None \notin References
  /\ \A ref \in References : RefundOf[ref] # None =>
       /\ RefundOf[ref] \in References \ Issued
       /\ PaymentOf[RefundOf[ref]] = PaymentOf[ref]
  /\ \A ref, other \in References :
       RefundOf[ref] = RefundOf[other] /\ RefundOf[ref] # None => ref = other
  /\ \A ref \in Issued : PaymentOf[ref] = ref
  BY CardAssumption

\* initiateCardPayment keeps the invariant.
LEMMA InitiateKeepsInv ==
  ASSUME CardInv, NEW t \in Transactions, NEW ref \in References,
         InitiateCardPayment(t, ref)
  PROVE  CardInv'
<1>1. /\ UNCHANGED <<refund, records, paid, handlers, faults>>
      /\ transactionOf' \in [References -> Transactions \cup {None}]
      /\ cardStatus' \in [References -> CardStatus]
      /\ cardStatus'[ref] = "PENDING" /\ ref \in Issued
      /\ \A r \in References \ {ref} : cardStatus'[r] = cardStatus[r]
  BY DEF InitiateCardPayment, CardStatus
<1>2. CardTypeOK'
  BY <1>1
<1>3. CallbackInv' /\ VerificationInv' /\ RefunderInv' /\ StatusInv'
  BY <1>1 DEF CallbackInv, VerificationInv, RefunderInv, StatusInv
<1>4. VerifiedHasRecord' /\ RefundedOnce' /\ RefundedWasPaid'
  BY <1>1 DEF VerifiedHasRecord, RefundedOnce, Refunded, RefundedWasPaid
<1>5. RefundedInFull' /\ RefundHasRow'
  BY <1>1, RefundRows DEF RefundedInFull, RefundHasRow
<1>6. QED
  BY <1>2, <1>3, <1>4, <1>5

\* processPaymentCallback keeps the invariant.
LEMMA CallbackKeepsInv ==
  ASSUME CardInv, NEW c \in Callbacks,
         \/ \E ref \in References, t \in Transactions, outcome \in Outcomes :
              CallbackRead(c, ref, t, outcome)
         \/ CallbackSave(c)
         \/ CallbackRecord(c)
  PROVE  CardInv'
<1>1. CASE \E ref \in References, t \in Transactions, outcome \in Outcomes :
             CallbackRead(c, ref, t, outcome)
  <2>1. PICK ref \in References, t \in Transactions, outcome \in Outcomes :
          CallbackRead(c, ref, t, outcome)
    BY <1>1
  <2>2. UNCHANGED <<rows, verification, refunder, faults>>
    BY <2>1 DEF CallbackRead, Callback
  <2>3. \/ callback' = [callback EXCEPT ![c].pc = "refused"]
        \/ /\ callback' = [callback EXCEPT
                ![c] = [pc |-> "read", ref |-> ref, outcome |-> outcome]]
           /\ cardStatus[ref] # "NONE"
    BY <2>1 DEF CallbackRead, Callback, Matches
  <2>4. CardTypeOK' /\ CallbackInv'
    <3>1. CASE callback' = [callback EXCEPT ![c].pc = "refused"]
      BY <2>2, <3>1 DEF CallbackInv
    <3>2. CASE /\ callback' = [callback EXCEPT
                    ![c] = [pc |-> "read", ref |-> ref, outcome |-> outcome]]
               /\ cardStatus[ref] # "NONE"
      BY <2>2, <3>2 DEF CallbackInv
    <3>3. QED
      BY <2>3, <3>1, <3>2
  <2>5. QED
    BY <2>2, <2>4 DEF VerificationInv, RefunderInv, StatusInv,
       VerifiedHasRecord, RefundedOnce, Refunded, RefundedWasPaid,
       RefundedInFull, RefundHasRow
<1>2. CASE CallbackSave(c)
  <2> DEFINE ref == callback[c].ref
             outcome == callback[c].outcome
  <2>1. /\ ref \in References /\ cardStatus[ref] # "NONE"
        /\ outcome \in Outcomes
    BY <1>2 DEF CallbackSave, Callback, CallbackInv
  <2>2. /\ callback' = [callback EXCEPT ![c].pc = "saved"]
        /\ cardStatus' = [cardStatus EXCEPT ![ref] = outcome]
        /\ paid' = IF outcome = "SUCCESSFUL" THEN paid \cup {ref} ELSE paid
        /\ UNCHANGED <<transactionOf, refund, records, verification, refunder,
                       faults>>
    BY <1>2 DEF CallbackSave, Callback
  <2>3. callback'[c].ref = ref /\ \A d \in Callbacks \ {c} : callback'[d] = callback[d]
    BY <2>2
  <2> HIDE DEF ref, outcome
  <2>4. CardTypeOK'
    <3>1. callback' \in [Callbacks ->
            [pc : {"idle", "read", "saved", "done", "refused", "failed", "lost"},
             ref : References \cup {None}, outcome : Outcomes]]
      BY <2>2
    <3>2. cardStatus' \in [References -> CardStatus] /\ paid' \subseteq References
      BY <2>1, <2>2 DEF CardStatus, Outcomes
    <3>3. QED
      BY <2>2, <3>1, <3>2
  <2>5. /\ cardStatus'[ref] = outcome /\ outcome \notin {"NONE", "REFUNDED"}
        /\ \A r \in References \ {ref} : cardStatus'[r] = cardStatus[r]
        /\ paid \subseteq paid'
    BY <2>1, <2>2 DEF Outcomes
  <2>6. StatusInv'
    <3> SUFFICES ASSUME NEW r \in References,
                        \/ cardStatus'[r] = "SUCCESSFUL"
                        \/ cardStatus'[r] # "NONE" /\ r \notin Issued
                 PROVE  PaymentOf[r] \in paid'
      BY DEF StatusInv
    <3>1. CASE r # ref \/ r \notin Issued
      BY <2>1, <2>5, <3>1 DEF StatusInv
    <3>2. CASE r = ref /\ r \in Issued
      BY <2>2, <2>5, <3>2, RefundRows
    <3>3. QED
      BY <3>1, <3>2
  <2>7. CallbackInv' /\ VerificationInv' /\ RefunderInv'
    <3>1. CallbackInv'
      BY <2>1, <2>3, <2>5 DEF CallbackInv
    <3>2. VerificationInv' /\ RefunderInv'
      BY <2>2, <2>5 DEF VerificationInv, RefunderInv
    <3>3. QED
      BY <3>1, <3>2
  <2>8. VerifiedHasRecord' /\ RefundedOnce' /\ RefundedWasPaid'
    BY <2>2, <2>5 DEF VerifiedHasRecord, RefundedOnce, Refunded, RefundedWasPaid
  <2>9. RefundedInFull' /\ RefundHasRow'
    BY <2>1, <2>2, <2>5, RefundRows DEF RefundedInFull, RefundHasRow
  <2>10. QED
    BY <2>4, <2>6, <2>7, <2>8, <2>9
<1>3. CASE CallbackRecord(c)
  BY <1>3 DEF CallbackRecord, Callback, CallbackInv, VerificationInv,
     RefunderInv, StatusInv, VerifiedHasRecord, RefundedOnce, Refunded,
     RefundedWasPaid, RefundedInFull, RefundHasRow
<1>4. QED
  BY <1>1, <1>2, <1>3

\* verifyPayment keeps the invariant.
LEMMA VerificationKeepsInv ==
  ASSUME CardInv, NEW v \in Verifications,
         \/ \E ref \in References, t \in Transactions, same \in BOOLEAN :
              VerifyRead(v, ref, t, same)
         \/ VerifyLookUp(v)
         \/ VerifyRecord(v)
  PROVE  CardInv'
<1>1. CASE \E ref \in References, t \in Transactions, same \in BOOLEAN :
             VerifyRead(v, ref, t, same)
  BY <1>1 DEF VerifyRead, CallbackInv, VerificationInv, RefunderInv,
     StatusInv, VerifiedHasRecord, RefundedOnce, Refunded, RefundedWasPaid,
     RefundedInFull, RefundHasRow
<1>2. CASE VerifyLookUp(v)
  BY <1>2 DEF VerifyLookUp, Verification, CallbackInv, VerificationInv,
     RefunderInv, StatusInv, VerifiedHasRecord, RefundedOnce, Refunded,
     RefundedWasPaid, RefundedInFull, RefundHasRow
<1>3. CASE VerifyRecord(v)
  BY <1>3 DEF VerifyRecord, Verification, CallbackInv, VerificationInv,
     RefunderInv, StatusInv, VerifiedHasRecord, RefundedOnce, Refunded,
     RefundedWasPaid, RefundedInFull, RefundHasRow
<1>4. QED
  BY <1>1, <1>2, <1>3

\* refundPayment keeps the invariant.
LEMMA RefundKeepsInv ==
  ASSUME CardInv, NEW f \in Refunds,
         \/ \E ref \in References, t \in Transactions,
               amount \in RequestedAmounts : RefundRead(f, ref, t, amount)
         \/ RefundSave(f)
         \/ RefundMark(f)
  PROVE  CardInv'
<1>1. CASE \E ref \in References, t \in Transactions,
              amount \in RequestedAmounts : RefundRead(f, ref, t, amount)
  <2>1. PICK ref \in References, t \in Transactions,
             amount \in RequestedAmounts : RefundRead(f, ref, t, amount)
    BY <1>1
  <2>2. UNCHANGED <<rows, callback, verification, faults>>
    BY <2>1 DEF RefundRead, Refunder
  <2>3. \/ refunder' = [refunder EXCEPT ![f].pc = "refused"]
        \/ /\ refunder' = [refunder EXCEPT
                ![f] = [pc |-> "checked", ref |-> ref, amount |-> amount]]
           /\ PaymentOf[ref] \in paid /\ cardStatus[ref] # "NONE"
           /\ amount \in RefundAmounts
    BY <2>1 DEF RefundRead, Refunder, Matches, StatusInv, RequestedAmounts
  <2>4. CardTypeOK' /\ RefunderInv' /\ RefundedOnce'
    <3>1. CASE refunder' = [refunder EXCEPT ![f].pc = "refused"]
      <4>1. CardTypeOK' /\ RefunderInv'
        BY <2>2, <3>1 DEF RefunderInv
      <4>2. RefundedOnce'
        BY <3>1 DEF RefundedOnce, Refunded
      <4>3. QED
        BY <4>1, <4>2
    <3>2. CASE /\ refunder' = [refunder EXCEPT
                    ![f] = [pc |-> "checked", ref |-> ref, amount |-> amount]]
               /\ PaymentOf[ref] \in paid /\ cardStatus[ref] # "NONE"
               /\ amount \in RefundAmounts
      <4>1. CardTypeOK' /\ RefunderInv'
        BY <2>2, <3>2 DEF RefunderInv
      <4>2. RefundedOnce'
        BY <3>2 DEF RefundedOnce, Refunded
      <4>3. QED
        BY <4>1, <4>2
    <3>3. QED
      BY <2>3, <3>1, <3>2
  <2>5. QED
    BY <2>2, <2>4 DEF CallbackInv, VerificationInv, StatusInv,
       VerifiedHasRecord, RefundedWasPaid, RefundedInFull, RefundHasRow
<1>2. CASE RefundSave(f)
  <2> DEFINE ref == refunder[f].ref
             amount == refunder[f].amount
  <2>1. /\ refunder[f].pc = "checked" /\ ref \in References
        /\ cardStatus[ref] # "NONE" /\ PaymentOf[ref] \in paid
        /\ amount \in RefundAmounts
        /\ UNCHANGED <<callback, verification, records, paid, faults>>
    BY <1>2 DEF RefundSave, Refunder, RefunderInv
  <2>2. CASE /\ refunder' = [refunder EXCEPT ![f].pc = "failed"]
             /\ UNCHANGED <<refund, cardStatus, transactionOf>>
    <3>1. CardTypeOK' /\ RefunderInv'
      BY <2>1, <2>2 DEF RefunderInv
    <3>2. RefundedOnce'
      BY <2>2 DEF RefundedOnce, Refunded
    <3>3. QED
      BY <2>1, <2>2, <3>1, <3>2 DEF CallbackInv, VerificationInv, StatusInv,
         VerifiedHasRecord, RefundedWasPaid, RefundedInFull, RefundHasRow
  <2>3. ASSUME NEW to \in {"marking", "done"}, refund[ref] = "none",
               to = IF SameAmount(amount) THEN "marking" ELSE "done",
               refunder' = [refunder EXCEPT ![f].pc = to],
               InsertRefund(ref, amount)
        PROVE  CardInv'
    <3>1. /\ refunder'[f].pc = to /\ refunder'[f].ref = ref
          /\ refunder'[f].amount = amount
          /\ \A g \in Refunds \ {f} : refunder'[g] = refunder[g]
      BY <2>3
    <3>2. /\ refund'[ref] = amount
          /\ \A r \in References \ {ref} : refund'[r] = refund[r]
          /\ refund' \in [References -> RefundAmounts \cup {"none"}]
      BY <2>1, <2>3 DEF InsertRefund
    <3>3. /\ cardStatus' \in [References -> CardStatus]
          /\ \A r \in References :
               cardStatus'[r] = IF r = RefundOf[ref] THEN "SUCCESSFUL"
                                ELSE cardStatus[r]
      BY <2>3 DEF InsertRefund, CardStatus
    <3>4. CardTypeOK'
      <4>1. transactionOf[ref] \in Transactions \cup {None}
        BY <2>1
      <4>2. transactionOf' \in [References -> Transactions \cup {None}]
        BY <2>3, <4>1, CardAssumption DEF InsertRefund
      <4>3. refunder' \in [Refunds ->
              [pc : {"idle", "checked", "marking", "done", "refused", "failed",
                     "lost"},
               ref : References \cup {None}, amount : RefundAmounts]]
        BY <2>3
      <4>4. QED
        BY <2>1, <3>2, <3>3, <4>2, <4>3
    <3> HIDE DEF ref, amount
    <3>5. CallbackInv' /\ VerificationInv'
      BY <2>1, <3>3 DEF CallbackInv, VerificationInv
    <3>6. RefunderInv'
      <4>1. \A g \in Refunds : refunder[g].pc \in {"marking", "done"}
                                => refunder[g].ref # ref
        BY <2>3 DEF RefunderInv, RefundAmounts
      <4> SUFFICES ASSUME NEW g \in Refunds
                   PROVE  /\ refunder'[g].pc \in {"checked", "marking", "done"} =>
                               /\ refunder'[g].ref \in References
                               /\ cardStatus'[refunder'[g].ref] # "NONE"
                               /\ PaymentOf[refunder'[g].ref] \in paid'
                          /\ refunder'[g].pc = "marking"
                               => refunder'[g].amount = "fullAsString"
                          /\ refunder'[g].pc \in {"marking", "done"}
                               => refund'[refunder'[g].ref] = refunder'[g].amount
        BY DEF RefunderInv
      <4>2. CASE g = f
        BY <2>1, <2>3, <3>1, <3>2, <3>3, <4>2 DEF SameAmount
      <4>3. CASE g # f
        BY <2>1, <3>1, <3>2, <3>3, <4>1, <4>3 DEF RefunderInv
      <4>4. QED
        BY <4>2, <4>3
    <3>7. StatusInv'
      BY <2>1, <3>3, RefundRows DEF StatusInv
    <3>8. RefundedOnce'
      <4>1. \A g \in Refunds : Refunded(g) => refunder[g].ref # ref
        BY <2>3 DEF RefunderInv, Refunded, RefundAmounts
      <4>2. QED
        BY <3>1, <4>1 DEF RefundedOnce, Refunded
    <3>9. VerifiedHasRecord' /\ RefundedWasPaid' /\ RefundedInFull'
      BY <2>1, <2>3, <3>2, <3>3 DEF VerifiedHasRecord, RefundedWasPaid,
         RefundedInFull
    <3>10. RefundHasRow'
      BY <2>1, <2>3, <3>2, <3>3, RefundRows DEF RefundHasRow, RefundAmounts
    <3>11. QED
      BY <3>4, <3>5, <3>6, <3>7, <3>8, <3>9, <3>10
  <2>4. QED
    <3> HIDE DEF CardInv
    <3>1. QED
      BY <1>2, <2>2, <2>3 DEF RefundSave, Refunder
<1>3. CASE RefundMark(f)
  <2> DEFINE ref == refunder[f].ref
  <2>1. /\ ref \in References /\ cardStatus[ref] # "NONE"
        /\ PaymentOf[ref] \in paid /\ refund[ref] = "fullAsString"
        /\ cardStatus' = [cardStatus EXCEPT ![ref] = "REFUNDED"]
        /\ refunder[f].pc = "marking"
        /\ refunder' = [refunder EXCEPT ![f].pc = "done"]
        /\ UNCHANGED <<callback, verification, transactionOf, refund, records,
                       paid, faults>>
    BY <1>3 DEF RefundMark, Refunder, RefunderInv
  <2>2. /\ refunder'[f].pc = "done" /\ refunder'[f].ref = ref
        /\ refunder'[f].amount = refunder[f].amount
        /\ \A g \in Refunds \ {f} : refunder'[g] = refunder[g]
    BY <2>1
  <2>3. /\ cardStatus' \in [References -> CardStatus]
        /\ cardStatus'[ref] = "REFUNDED"
        /\ \A r \in References \ {ref} : cardStatus'[r] = cardStatus[r]
    BY <2>1 DEF CardStatus
  <2>4. CardTypeOK'
    BY <2>1, <2>3
  <2>5. RefunderInv' /\ RefundedOnce'
    <3>1. RefunderInv'
      BY <2>1, <2>2, <2>3 DEF RefunderInv
    <3>2. RefundedOnce'
      BY <2>1, <2>2 DEF RefundedOnce, Refunded
    <3>3. QED
      BY <3>1, <3>2
  <2> HIDE DEF ref
  <2>6. CallbackInv' /\ VerificationInv' /\ StatusInv'
    BY <2>1, <2>3 DEF CallbackInv, VerificationInv, StatusInv
  <2>7. VerifiedHasRecord' /\ RefundedWasPaid' /\ RefundedInFull'
    BY <2>1, <2>3 DEF VerifiedHasRecord, RefundedWasPaid, RefundedInFull
  <2>8. RefundHasRow'
    BY <2>1, <2>3, RefundRows DEF RefundHasRow
  <2>9. QED
    BY <2>4, <2>5, <2>6, <2>7, <2>8
<1>4. QED
  BY <1>1, <1>2, <1>3

\* A failing database call keeps the invariant.
LEMMA ErrorKeepsInv == CardInv /\ CardError => CardInv'
<1> SUFFICES ASSUME CardInv, CardError PROVE CardInv'
  OBVIOUS
<1>1. UNCHANGED rows /\ faults' \in Nat
  BY CardAssumption DEF CardError, Fault
<1>2. CASE \E c \in Callbacks, from \in {"idle", "read", "saved"} :
             Callback(c, from, "failed")
  <2>1. PICK c \in Callbacks :
          /\ callback' = [callback EXCEPT ![c].pc = "failed"]
          /\ UNCHANGED <<verification, refunder>>
    BY <1>2 DEF Callback
  <2>2. QED
    BY <1>1, <2>1 DEF CallbackInv, VerificationInv, RefunderInv, StatusInv,
       VerifiedHasRecord, RefundedOnce, Refunded, RefundedWasPaid,
       RefundedInFull, RefundHasRow
<1>3. CASE \E v \in Verifications, from \in {"idle", "paid", "recording"} :
             Verification(v, from, "failed")
  <2>1. PICK v \in Verifications :
          /\ verification' = [verification EXCEPT ![v].pc = "failed"]
          /\ UNCHANGED <<callback, refunder>>
    BY <1>3 DEF Verification
  <2>2. QED
    BY <1>1, <2>1 DEF CallbackInv, VerificationInv, RefunderInv, StatusInv,
       VerifiedHasRecord, RefundedOnce, Refunded, RefundedWasPaid,
       RefundedInFull, RefundHasRow
<1>4. CASE \E f \in Refunds, from \in {"idle", "checked", "marking"} :
             Refunder(f, from, "failed")
  <2>1. PICK f \in Refunds :
          /\ refunder' = [refunder EXCEPT ![f].pc = "failed"]
          /\ UNCHANGED <<callback, verification>>
    BY <1>4 DEF Refunder
  <2>2. /\ \A g \in Refunds :
             /\ refunder'[g] \in [pc : {"failed", refunder[g].pc},
                                  ref : {refunder[g].ref},
                                  amount : {refunder[g].amount}]
        /\ CardTypeOK'
    BY <1>1, <2>1
  <2>3. RefundedOnce'
    BY <2>1 DEF RefundedOnce, Refunded
  <2>4. RefunderInv'
    BY <1>1, <2>2 DEF RefunderInv
  <2>5. QED
    BY <1>1, <2>1, <2>2, <2>3, <2>4 DEF CallbackInv, VerificationInv, StatusInv,
       VerifiedHasRecord, RefundedWasPaid, RefundedInFull, RefundHasRow
<1>5. QED
  BY <1>2, <1>3, <1>4 DEF CardError

\* So does a crash.
LEMMA CrashKeepsInv == CardInv /\ CardCrash => CardInv'
<1> SUFFICES ASSUME CardInv, CardCrash PROVE CardInv'
  OBVIOUS
<1>1. /\ \A c \in Callbacks :
           callback'[c] \in {callback[c], [callback[c] EXCEPT !.pc = "lost"]}
      /\ \A v \in Verifications : verification'[v] \in
           {verification[v], [verification[v] EXCEPT !.pc = "lost"]}
      /\ \A f \in Refunds :
           refunder'[f] \in {refunder[f], [refunder[f] EXCEPT !.pc = "lost"]}
  BY DEF CardCrash
<1>2. CardTypeOK'
  <2>1. UNCHANGED rows /\ faults' \in Nat
    BY CardAssumption DEF CardCrash, Fault
  <2>2. callback' \in [Callbacks ->
          [pc : {"idle", "read", "saved", "done", "refused", "failed", "lost"},
           ref : References \cup {None}, outcome : Outcomes]]
    BY DEF CardCrash
  <2>3. verification' \in [Verifications ->
          [pc : {"idle", "paid", "recording", "verified", "refused", "failed",
                 "lost"},
           ref : References \cup {None}]]
    BY DEF CardCrash
  <2>4. refunder' \in [Refunds ->
          [pc : {"idle", "checked", "marking", "done", "refused", "failed",
                 "lost"},
           ref : References \cup {None}, amount : RefundAmounts]]
    BY DEF CardCrash
  <2>5. QED
    BY <2>1, <2>2, <2>3, <2>4
<1>3. CallbackInv' /\ VerificationInv' /\ RefunderInv' /\ StatusInv'
  BY <1>1 DEF CardCrash, CallbackInv, VerificationInv, RefunderInv, StatusInv
<1>4. /\ VerifiedHasRecord' /\ RefundedOnce' /\ RefundedWasPaid'
      /\ RefundedInFull' /\ RefundHasRow'
  BY <1>1 DEF CardCrash, VerifiedHasRecord, RefundedOnce, Refunded,
     RefundedWasPaid, RefundedInFull, RefundHasRow
<1>5. QED
  BY <1>2, <1>3, <1>4

\* Every step of Shaparak keeps the invariant.
LEMMA CardNextKeepsInv == CardInv /\ [CardNext]_cardVars => CardInv'
<1> SUFFICES ASSUME CardInv, [CardNext]_cardVars PROVE CardInv'
  OBVIOUS
<1>1. CASE \E t \in Transactions, ref \in References :
             InitiateCardPayment(t, ref)
  BY <1>1, InitiateKeepsInv
<1>2. CASE \E v \in Verifications, ref \in References, t \in Transactions,
             sameAmount \in BOOLEAN : VerifyRead(v, ref, t, sameAmount)
  BY <1>2, VerificationKeepsInv
<1>3. CASE CardStep
  <2>1. CASE \E c \in Callbacks, ref \in References, t \in Transactions,
                outcome \in Outcomes : CallbackRead(c, ref, t, outcome)
    BY <2>1, CallbackKeepsInv
  <2>2. CASE \E f \in Refunds, ref \in References, t \in Transactions,
                amount \in RequestedAmounts : RefundRead(f, ref, t, amount)
    BY <2>2, RefundKeepsInv
  <2>3. CASE \E c \in Callbacks : CardCallback(c)
    BY <2>3, CallbackKeepsInv DEF CardCallback
  <2>4. CASE \E v \in Verifications : CardVerify(v)
    BY <2>4, VerificationKeepsInv DEF CardVerify
  <2>5. CASE \E f \in Refunds : CardRefund(f)
    BY <2>5, RefundKeepsInv DEF CardRefund
  <2>6. QED
    BY <1>3, <2>1, <2>2, <2>3, <2>4, <2>5, ErrorKeepsInv, CrashKeepsInv
       DEF CardStep
<1>4. CASE UNCHANGED cardVars
  BY <1>4 DEF cardVars, CallbackInv, VerificationInv, RefunderInv, StatusInv,
     VerifiedHasRecord, RefundedOnce, Refunded, RefundedWasPaid,
     RefundedInFull, RefundHasRow
<1>5. QED
  BY <1>1, <1>2, <1>3, <1>4 DEF CardNext

-----------------------------------------------------------------------------
(* Theorems                                                                *)

\* The inductive invariant holds in every state that Shaparak can reach.
THEOREM CardInvariant == CardSpec => []CardInv
  BY CardInvInit, CardNextKeepsInv, PTL DEF CardSpec

\* Rows and handlers have their types, for any number of calls.
THEOREM CardTypeCorrect == CardSpec => []CardTypeOK
<1>1. CardInv => CardTypeOK
  OBVIOUS
<1>2. QED
  BY <1>1, CardInvariant, PTL

\* A payment that verifyPayment confirms was reported as successful and has a
\* verification record.
THEOREM VerificationsAreRecorded == CardSpec => []VerifiedHasRecord
<1>1. CardInv => VerifiedHasRecord
  OBVIOUS
<1>2. QED
  BY <1>1, CardInvariant, PTL

\* However many refunds of one payment race, at most one succeeds.
THEOREM RefundsAreUnique == CardSpec => []RefundedOnce
<1>1. CardInv => RefundedOnce
  OBVIOUS
<1>2. QED
  BY <1>1, CardInvariant, PTL

\* Only payments that were reported as successful are refunded.
THEOREM RefundsWerePaid == CardSpec => []RefundedWasPaid
<1>1. CardInv => RefundedWasPaid
  OBVIOUS
<1>2. QED
  BY <1>1, CardInvariant, PTL

\* A payment marked as REFUNDED has a refund of its whole amount.
THEOREM RefundsAreFull == CardSpec => []RefundedInFull
<1>1. CardInv => RefundedInFull
  OBVIOUS
<1>2. QED
  BY <1>1, CardInvariant, PTL

\* The refunds in the database mean what they say, for any number of calls,
\* whether they name a payment, its refund or the refund of its refund.
THEOREM SoundRefunds == CardSpec => []RefundsAreSound
<1>1. CardInv => RefundsAreSound
  BY DEF RefundsAreSound
<1>2. QED
  BY <1>1, CardInvariant, PTL

-----------------------------------------------------------------------------
(* Selections.  The recursive function of Only exists, so it satisfies its *)
(* equation; what it keeps is then known by induction on the prefixes.     *)

\* g gives what is kept of each prefix of s up to n.
Keeps(s, allowed, n, g) ==
  g = [i \in 0..n |->
         IF i = 0 THEN <<>>
         ELSE IF s[i] \in allowed THEN Append(g[i - 1], s[i])
         ELSE g[i - 1]]

\* There is such a function for every n.
LEMMA KeepsExists ==
  ASSUME NEW s, NEW allowed, NEW n \in Nat
  PROVE  \E g : Keeps(s, allowed, n, g)
<1> DEFINE Good == {m \in Nat : \E g : Keeps(s, allowed, m, g)}
<1>1. 0 \in Good
  <2>1. Keeps(s, allowed, 0, [i \in 0..0 |-> <<>>])
    BY DEF Keeps
  <2>2. QED
    BY <2>1
<1>2. ASSUME NEW m \in Nat, m \in Good PROVE m + 1 \in Good
  <2>1. PICK g : Keeps(s, allowed, m, g)
    BY <1>2
  <2> DEFINE last == IF s[m + 1] \in allowed THEN Append(g[m], s[m + 1]) ELSE g[m]
             h == [i \in 0..(m + 1) |-> IF i = m + 1 THEN last ELSE g[i]]
  <2>2. \A i \in 0..m : g[i] = IF i = 0 THEN <<>>
                               ELSE IF s[i] \in allowed THEN Append(g[i - 1], s[i])
                               ELSE g[i - 1]
    BY <2>1 DEF Keeps
  <2>3. \A i \in 0..(m + 1) :
          h[i] = IF i = 0 THEN <<>>
                 ELSE IF s[i] \in allowed THEN Append(h[i - 1], s[i])
                 ELSE h[i - 1]
    <3> SUFFICES ASSUME NEW i \in 0..(m + 1)
                 PROVE  h[i] = IF i = 0 THEN <<>>
                               ELSE IF s[i] \in allowed THEN Append(h[i - 1], s[i])
                               ELSE h[i - 1]
      OBVIOUS
    <3>1. CASE i = m + 1
      <4>1. h[i] = last /\ h[i - 1] = g[m] /\ i # 0
        BY <3>1
      <4>2. QED
        BY <3>1, <4>1
    <3>2. CASE i \in 0..m
      <4>1. h[i] = g[i] /\ (i # 0 => h[i - 1] = g[i - 1])
        BY <3>2
      <4> HIDE DEF h
      <4>2. QED
        BY <2>2, <3>2, <4>1
    <3>3. QED
      BY <3>1, <3>2
  <2>4. Keeps(s, allowed, m + 1, h)
    <3>1. h = [i \in 0..(m + 1) |-> h[i]]
      OBVIOUS
    <3> HIDE DEF h
    <3>2. QED
      BY <2>3, <3>1 DEF Keeps
  <2>5. QED
    BY <2>4
<1>3. Nat \subseteq Good
  <2> HIDE DEF Good
  <2>1. QED
    BY <1>1, <1>2, NatSetInduction
<1>4. QED
  BY <1>3

\* Only is what such a function gives for the whole sequence.
LEMMA OnlyIsKept ==
  ASSUME NEW s, NEW allowed, Len(s) \in Nat
  PROVE  \E g : Keeps(s, allowed, Len(s), g) /\ Only(s, allowed) = g[Len(s)]
<1> DEFINE Kept == CHOOSE g : Keeps(s, allowed, Len(s), g)
<1>1. Keeps(s, allowed, Len(s), Kept)
  BY KeepsExists
<1>2. Only(s, allowed) = Kept[Len(s)]
  BY Zenon DEF Only, Keeps
<1>3. QED
  BY <1>1, <1>2

\* Induction up to a number.
LEMMA InductionUpTo ==
  ASSUME NEW n \in Nat, NEW Good, 0 \in Good,
         \A i \in 0..(n - 1) : i \in Good => i + 1 \in Good
  PROVE  0..n \subseteq Good
<1> DEFINE Fine == {i \in Nat : i <= n => i \in Good}
<1>1. 0 \in Fine
  OBVIOUS
<1>2. ASSUME NEW i \in Nat, i \in Fine PROVE i + 1 \in Fine
  <2>1. CASE i + 1 <= n
    <3>1. i \in 0..(n - 1) /\ i \in Good
      BY <1>2, <2>1
    <3>2. QED
      BY <3>1
  <2>2. CASE ~(i + 1 <= n)
    BY <2>2
  <2>3. QED
    BY <2>1, <2>2
<1>3. Nat \subseteq Fine
  <2> HIDE DEF Fine
  <2>1. QED
    BY <1>1, <1>2, NatSetInduction
<1>4. QED
  BY <1>3

\* What is kept of a sequence, prefix by prefix.
LEMMA OnlySteps ==
  ASSUME NEW S, NEW s \in Seq(S), NEW allowed
  PROVE  \E g : /\ g[0] = <<>> /\ Only(s, allowed) = g[Len(s)]
                /\ \A i \in 0..(Len(s) - 1) :
                     g[i + 1] = IF s[i + 1] \in allowed THEN Append(g[i], s[i + 1])
                                ELSE g[i]
                /\ \A i \in 0..Len(s) : g[i] \in Seq(S \cap allowed)
<1>0. Len(s) \in Nat
  OBVIOUS
<1>1. PICK g : Keeps(s, allowed, Len(s), g) /\ Only(s, allowed) = g[Len(s)]
  BY OnlyIsKept
<1>2. g[0] = <<>>
  BY <1>1 DEF Keeps
<1>3. \A i \in 0..(Len(s) - 1) :
        g[i + 1] = IF s[i + 1] \in allowed THEN Append(g[i], s[i + 1]) ELSE g[i]
  <2> SUFFICES ASSUME NEW i \in 0..(Len(s) - 1)
               PROVE  g[i + 1] = IF s[i + 1] \in allowed THEN Append(g[i], s[i + 1])
                                 ELSE g[i]
    OBVIOUS
  <2>1. i + 1 \in 0..Len(s) /\ i + 1 # 0 /\ (i + 1) - 1 = i
    OBVIOUS
  <2>2. QED
    BY <1>1, <2>1 DEF Keeps
<1> DEFINE Good == {i \in 0..Len(s) : g[i] \in Seq(S \cap allowed)}
<1>4. 0 \in Good
  <2>1. <<>> \in Seq(S \cap allowed)
    OBVIOUS
  <2>2. g[0] \in Seq(S \cap allowed)
    BY <1>2, <2>1, Zenon
  <2>3. 0 \in 0..Len(s)
    BY <1>0
  <2>4. QED
    BY <2>2, <2>3
<1>5. ASSUME NEW i \in 0..(Len(s) - 1), i \in Good PROVE i + 1 \in Good
  <2>1. s[i + 1] \in S /\ g[i] \in Seq(S \cap allowed)
    BY <1>5
  <2>2. \A x \in S \cap allowed : Append(g[i], x) \in Seq(S \cap allowed)
    BY <2>1
  <2>3. g[i + 1] \in Seq(S \cap allowed)
    BY <1>3, <2>1, <2>2
  <2>4. QED
    BY <1>0, <2>3
<1>6. 0..Len(s) \subseteq Good
  <2> HIDE DEF Good
  <2>1. QED
    BY <1>0, <1>4, <1>5, InductionUpTo
<1>7. QED
  BY <1>1, <1>2, <1>3, <1>6

\* Every allowed element is kept, and nothing else is there.
LEMMA OnlyAllowed ==
  ASSUME NEW S, NEW s \in Seq(S), NEW allowed
  PROVE  /\ Only(s, allowed) \in Seq(S \cap allowed)
         /\ Len(Only(s, allowed)) <= Len(s)
         /\ Range(s) \cap allowed \subseteq Range(Only(s, allowed))
<1>0. Len(s) \in Nat
  OBVIOUS
<1>1. PICK g : /\ g[0] = <<>> /\ Only(s, allowed) = g[Len(s)]
               /\ \A i \in 0..(Len(s) - 1) :
                    g[i + 1] = IF s[i + 1] \in allowed THEN Append(g[i], s[i + 1])
                               ELSE g[i]
               /\ \A i \in 0..Len(s) : g[i] \in Seq(S \cap allowed)
  BY OnlySteps
<1> DEFINE Good == {i \in 0..Len(s) :
                      /\ Len(g[i]) <= i
                      /\ \A k \in 1..i : s[k] \in allowed =>
                           \E j \in 1..Len(g[i]) : g[i][j] = s[k]}
<1>2. 0 \in Good
  BY <1>1
<1>3. ASSUME NEW i \in 0..(Len(s) - 1), i \in Good PROVE i + 1 \in Good
  <2>1. g[i] \in Seq(S \cap allowed) /\ i + 1 \in 1..Len(s)
    BY <1>1
  <2>2. CASE s[i + 1] \in allowed
    <3>1. g[i + 1] = Append(g[i], s[i + 1])
      BY <1>1, <2>2
    <3>2. /\ Len(g[i + 1]) = Len(g[i]) + 1 /\ g[i + 1][Len(g[i]) + 1] = s[i + 1]
          /\ \A j \in 1..Len(g[i]) : g[i + 1][j] = g[i][j]
      BY <2>1, <3>1
    <3>3. ASSUME NEW k \in 1..(i + 1), s[k] \in allowed
          PROVE  \E j \in 1..Len(g[i + 1]) : g[i + 1][j] = s[k]
      <4>1. CASE k = i + 1
        BY <2>1, <3>2, <4>1
      <4>2. CASE k \in 1..i
        <5>1. PICK j \in 1..Len(g[i]) : g[i][j] = s[k]
          BY <1>3, <3>3, <4>2
        <5>2. QED
          BY <2>1, <3>2, <5>1
      <4>3. QED
        BY <4>1, <4>2
    <3>4. QED
      BY <1>3, <2>1, <3>2, <3>3
  <2>3. CASE s[i + 1] \notin allowed
    <3>1. g[i + 1] = g[i]
      BY <1>1, <2>3
    <3>2. QED
      BY <1>3, <2>1, <2>3, <3>1
  <2>4. QED
    BY <2>2, <2>3
<1>4. 0..Len(s) \subseteq Good
  <2> HIDE DEF Good
  <2>1. QED
    BY <1>0, <1>2, <1>3, InductionUpTo
<1>5. /\ Only(s, allowed) \in Seq(S \cap allowed) /\ Len(Only(s, allowed)) <= Len(s)
      /\ \A k \in 1..Len(s) : s[k] \in allowed =>
           \E j \in 1..Len(Only(s, allowed)) : Only(s, allowed)[j] = s[k]
  BY <1>1, <1>4
<1>6. QED
  BY <1>5 DEF Range

\* It does not matter what else is allowed.
LEMMA OnlyAgrees ==
  ASSUME NEW S, NEW s \in Seq(S), NEW A, NEW B,
         \A i \in 1..Len(s) : s[i] \in A <=> s[i] \in B
  PROVE  Only(s, A) = Only(s, B)
<1>0. Len(s) \in Nat
  OBVIOUS
<1>1. PICK g : /\ g[0] = <<>> /\ Only(s, A) = g[Len(s)]
               /\ \A i \in 0..(Len(s) - 1) :
                    g[i + 1] = IF s[i + 1] \in A THEN Append(g[i], s[i + 1]) ELSE g[i]
               /\ \A i \in 0..Len(s) : g[i] \in Seq(S \cap A)
  BY OnlySteps
<1>2. PICK h : /\ h[0] = <<>> /\ Only(s, B) = h[Len(s)]
               /\ \A i \in 0..(Len(s) - 1) :
                    h[i + 1] = IF s[i + 1] \in B THEN Append(h[i], s[i + 1]) ELSE h[i]
               /\ \A i \in 0..Len(s) : h[i] \in Seq(S \cap B)
  BY OnlySteps
<1> DEFINE Good == {i \in 0..Len(s) : g[i] = h[i]}
<1>3. 0 \in Good
  BY <1>1, <1>2
<1>4. ASSUME NEW i \in 0..(Len(s) - 1), i \in Good PROVE i + 1 \in Good
  <2>1. i + 1 \in 1..Len(s) /\ i + 1 \in 0..Len(s) /\ g[i] = h[i]
    BY <1>0, <1>4
  <2>2. /\ g[i + 1] = IF s[i + 1] \in A THEN Append(g[i], s[i + 1]) ELSE g[i]
        /\ h[i + 1] = IF s[i + 1] \in B THEN Append(h[i], s[i + 1]) ELSE h[i]
    BY <1>1, <1>2
  <2>3. g[i + 1] = h[i + 1]
    BY <2>1, <2>2, Zenon
  <2>4. QED
    BY <2>1, <2>3
<1>5. 0..Len(s) \subseteq Good
  <2> HIDE DEF Good
  <2>1. QED
    BY <1>0, <1>3, <1>4, InductionUpTo
<1>6. QED
  BY <1>1, <1>2, <1>5

\* As far as all elements are allowed, they are kept where they are.
LEMMA OnlyKeepsPrefix ==
  ASSUME NEW S, NEW s \in Seq(S), NEW allowed, NEW m \in 0..Len(s),
         \A i \in 1..m : s[i] \in allowed
  PROVE  /\ Len(Only(s, allowed)) >= m
         /\ \A i \in 1..m : Only(s, allowed)[i] = s[i]
<1>0. Len(s) \in Nat
  OBVIOUS
<1>1. PICK g : /\ g[0] = <<>> /\ Only(s, allowed) = g[Len(s)]
               /\ \A i \in 0..(Len(s) - 1) :
                    g[i + 1] = IF s[i + 1] \in allowed THEN Append(g[i], s[i + 1])
                               ELSE g[i]
               /\ \A i \in 0..Len(s) : g[i] \in Seq(S \cap allowed)
  BY OnlySteps
<1> DEFINE Good == {i \in 0..Len(s) :
                      /\ i <= m => Len(g[i]) = i
                      /\ i >= m => Len(g[i]) >= m
                      /\ \A k \in 1..i : k <= m => g[i][k] = s[k]}
<1>2. 0 \in Good
  BY <1>1
<1>3. ASSUME NEW i \in 0..(Len(s) - 1), i \in Good PROVE i + 1 \in Good
  <2>1. g[i] \in Seq(S \cap allowed) /\ i + 1 \in 1..Len(s)
    BY <1>1
  <2>2. CASE s[i + 1] \in allowed
    <3>1. g[i + 1] = Append(g[i], s[i + 1])
      BY <1>1, <2>2
    <3>2. /\ Len(g[i + 1]) = Len(g[i]) + 1 /\ g[i + 1][Len(g[i]) + 1] = s[i + 1]
          /\ \A j \in 1..Len(g[i]) : g[i + 1][j] = g[i][j]
      BY <2>1, <3>1
    <3>3. ASSUME NEW k \in 1..(i + 1), k <= m PROVE g[i + 1][k] = s[k]
      <4>1. CASE k = i + 1
        BY <1>3, <2>1, <3>2, <3>3, <4>1
      <4>2. CASE k \in 1..i
        <5>1. k \in 1..Len(g[i])
          BY <1>3, <2>1, <3>3, <4>2
        <5>2. QED
          BY <1>3, <3>2, <3>3, <4>2, <5>1
      <4>3. QED
        BY <4>1, <4>2
    <3>4. Len(g[i]) \in Nat
      BY <2>1
    <3>5. /\ i + 1 <= m => Len(g[i + 1]) = i + 1
          /\ i + 1 >= m => Len(g[i + 1]) >= m
      BY <1>3, <3>2, <3>4
    <3>6. QED
      BY <2>1, <3>3, <3>5
  <2>3. CASE s[i + 1] \notin allowed
    <3>1. g[i + 1] = g[i] /\ i >= m
      BY <1>1, <2>1, <2>3
    <3>2. QED
      BY <1>3, <2>1, <3>1
  <2>4. QED
    BY <2>2, <2>3
<1>4. 0..Len(s) \subseteq Good
  <2> HIDE DEF Good
  <2>1. QED
    BY <1>0, <1>2, <1>3, InductionUpTo
<1>5. QED
  BY <1>1, <1>4

-----------------------------------------------------------------------------
(* Card numbers, of any length.                                            *)

\* What each digit adds to the check sum.
Values(digits) == [i \in 1..Len(digits) |-> Value(digits, i)]

\* It is a digit.
LEMMA ValuesAreDigits ==
  ASSUME NEW digits \in Seq(Digit), NEW i \in 1..Len(digits)
  PROVE  Values(digits)[i] = Value(digits, i) /\ Value(digits, i) \in Digit
<1>1. digits[i] \in 0..9
  BY DEF Digit
<1>2. Doubled(digits[i]) \in 0..9
  BY <1>1 DEF Doubled
<1>3. QED
  BY <1>1, <1>2 DEF Values, Value, Digit

\* One term of a sum of digits is told from the others.
LEMMA OneTerm ==
  ASSUME NEW digits \in Seq(Digit), NEW T \in SUBSET (1..Len(digits)), NEW i \in T
  PROVE  /\ SumFunctionOnSet(Values(digits), T \ {i}) \in Int
         /\ SumFunctionOnSet(Values(digits), T)
              = Value(digits, i) + SumFunctionOnSet(Values(digits), T \ {i})
<1>1. IsFiniteSet(T)
  <2>1. IsFiniteSet(1..Len(digits))
    BY FS_Interval
  <2>2. QED
    BY <2>1, FS_Subset
<1>2. IsFiniteSet(T \ {i})
  BY <1>1, FS_Subset
<1>3. \A j \in T : Values(digits)[j] \in Int
  BY ValuesAreDigits DEF Digit
<1>4. SumFunctionOnSet(Values(digits), T \ {i}) \in Int
  BY <1>2, <1>3, SumInt
<1>5. SumFunctionOnSet(Values(digits), T)
        = Values(digits)[i] + SumFunctionOnSet(Values(digits), T \ {i})
  BY <1>1, <1>3, SumRemove
<1>6. QED
  BY <1>4, <1>5, ValuesAreDigits

\* The check of a number, by its sum.
LEMMA LuhnSum ==
  ASSUME NEW digits \in Seq(Digit)
  PROVE  Luhn(digits) <=> SumFunctionOnSet(Values(digits), 1..Len(digits)) % 10 = 0
<1>1. DOMAIN Values(digits) = 1..Len(digits)
  BY DEF Values
<1>2. Luhn(digits) <=> SumFunction(Values(digits)) % 10 = 0
  BY DEF Luhn, Values
<1>3. SumFunction(Values(digits)) = SumFunctionOnSet(Values(digits), 1..Len(digits))
  BY <1>1 DEF SumFunction
<1>4. QED
  BY <1>2, <1>3

\* Two digits that differ add up differently, doubled or not.
LEMMA DigitsDiffer ==
  ASSUME NEW a \in Digit, NEW b \in Digit, NEW r \in Int, a # b
  PROVE  /\ ~((a + r) % 10 = 0 /\ (b + r) % 10 = 0)
         /\ ~((Doubled(a) + r) % 10 = 0 /\ (Doubled(b) + r) % 10 = 0)
<1>1. a \in 0..9 /\ b \in 0..9
  BY DEF Digit
<1>2. ~((a + r) % 10 = 0 /\ (b + r) % 10 = 0)
  BY <1>1, SMT
<1>3. ~((Doubled(a) + r) % 10 = 0 /\ (Doubled(b) + r) % 10 = 0)
  BY <1>1, SMT DEF Doubled
<1>4. QED
  BY <1>2, <1>3

\* So do two neighbours that are swapped, unless they are 0 and 9.
LEMMA NeighboursDiffer ==
  ASSUME NEW a \in Digit, NEW b \in Digit, NEW r \in Int, a # b, {a, b} # {0, 9}
  PROVE  ~((Doubled(a) + b + r) % 10 = 0 /\ (Doubled(b) + a + r) % 10 = 0)
<1>1. a \in 0..9 /\ b \in 0..9
  BY DEF Digit
<1>2. ~(a = 0 /\ b = 9) /\ ~(a = 9 /\ b = 0)
  OBVIOUS
<1>3. QED
  BY <1>1, <1>2, SMT DEF Doubled

\* A wrong digit.
LEMMA WrongDigitIsCaught ==
  ASSUME NEW digits \in Seq(Digit), Luhn(digits), NEW i \in 1..Len(digits),
         NEW x \in Digit, x # digits[i]
  PROVE  ~Luhn([digits EXCEPT ![i] = x])
<1> DEFINE wrong == [digits EXCEPT ![i] = x]
           all == 1..Len(digits)
           rest == SumFunctionOnSet(Values(digits), all \ {i})
<1>1. /\ wrong \in Seq(Digit) /\ Len(wrong) = Len(digits) /\ wrong[i] = x
      /\ \A j \in all \ {i} : wrong[j] = digits[j]
      /\ digits[i] \in Digit
  OBVIOUS
<1>2. \A j \in all \ {i} : Values(wrong)[j] = Values(digits)[j]
  BY <1>1 DEF Values, Value
<1> HIDE DEF wrong
<1>3. IsFiniteSet(all \ {i})
  <2>1. IsFiniteSet(all)
    BY FS_Interval
  <2>2. QED
    BY <2>1, FS_Subset
<1>4. SumFunctionOnSet(Values(wrong), all \ {i}) = rest
  BY <1>2, <1>3, SumAgrees
<1>5. /\ rest \in Int
      /\ SumFunctionOnSet(Values(digits), all) = Value(digits, i) + rest
  BY OneTerm
<1>6. SumFunctionOnSet(Values(wrong), all) = Value(wrong, i) + rest
  BY <1>1, <1>4, OneTerm
<1>7. (Value(digits, i) + rest) % 10 = 0
  BY <1>5, LuhnSum
<1>8. Luhn(wrong) => (Value(wrong, i) + rest) % 10 = 0
  BY <1>1, <1>6, LuhnSum
<1>9. ~((Value(wrong, i) + rest) % 10 = 0)
  BY <1>1, <1>5, <1>7, DigitsDiffer DEF Value
<1>10. QED
  BY <1>8, <1>9 DEF wrong

\* Two neighbours swapped.
LEMMA SwapIsCaught ==
  ASSUME NEW digits \in Seq(Digit), Luhn(digits), NEW i \in 1..(Len(digits) - 1),
         {digits[i], digits[i + 1]} # {0, 9}, digits[i] # digits[i + 1]
  PROVE  ~Luhn([digits EXCEPT ![i] = digits[i + 1], ![i + 1] = digits[i]])
<1> DEFINE wrong == [digits EXCEPT ![i] = digits[i + 1], ![i + 1] = digits[i]]
           all == 1..Len(digits)
           most == all \ {i}
           a == digits[i]
           b == digits[i + 1]
           rest == SumFunctionOnSet(Values(digits), most \ {i + 1})
<1>0. i \in all /\ i + 1 \in all /\ i # i + 1 /\ i + 1 \in most /\ most \subseteq all
      /\ a \in Digit /\ b \in Digit
  OBVIOUS
<1>1. /\ wrong \in Seq(Digit) /\ Len(wrong) = Len(digits)
      /\ wrong[i] = b /\ wrong[i + 1] = a
      /\ \A j \in all \ {i, i + 1} : wrong[j] = digits[j]
  BY <1>0
<1>2. \A j \in most \ {i + 1} : Values(wrong)[j] = Values(digits)[j]
  BY <1>1 DEF Values, Value
<1> HIDE DEF wrong
<1>3. IsFiniteSet(most \ {i + 1})
  <2>1. IsFiniteSet(all)
    BY FS_Interval
  <2>2. QED
    BY <2>1, FS_Subset
<1>4. SumFunctionOnSet(Values(wrong), most \ {i + 1}) = rest
  BY <1>2, <1>3, SumAgrees
<1>5. /\ rest \in Int
      /\ SumFunctionOnSet(Values(digits), all)
           = Value(digits, i) + (Value(digits, i + 1) + rest)
  <2>1. SumFunctionOnSet(Values(digits), all)
          = Value(digits, i) + SumFunctionOnSet(Values(digits), most)
    BY <1>0, OneTerm
  <2>2. /\ rest \in Int
        /\ SumFunctionOnSet(Values(digits), most) = Value(digits, i + 1) + rest
    BY <1>0, OneTerm
  <2>3. QED
    BY <2>1, <2>2
<1>6. SumFunctionOnSet(Values(wrong), all)
        = Value(wrong, i) + (Value(wrong, i + 1) + rest)
  <2>1. SumFunctionOnSet(Values(wrong), all)
          = Value(wrong, i) + SumFunctionOnSet(Values(wrong), most)
    BY <1>0, <1>1, OneTerm
  <2>2. SumFunctionOnSet(Values(wrong), most)
          = Value(wrong, i + 1) + SumFunctionOnSet(Values(wrong), most \ {i + 1})
    BY <1>0, <1>1, OneTerm
  <2>3. QED
    BY <1>4, <2>1, <2>2
<1>7. (Value(digits, i) + (Value(digits, i + 1) + rest)) % 10 = 0
  BY <1>5, LuhnSum
<1>8. Luhn(wrong) => (Value(wrong, i) + (Value(wrong, i + 1) + rest)) % 10 = 0
  BY <1>1, <1>6, LuhnSum
<1>9. \/ /\ Value(digits, i) = Doubled(a) /\ Value(digits, i + 1) = b
         /\ Value(wrong, i) = Doubled(b) /\ Value(wrong, i + 1) = a
      \/ /\ Value(digits, i) = a /\ Value(digits, i + 1) = Doubled(b)
         /\ Value(wrong, i) = b /\ Value(wrong, i + 1) = Doubled(a)
  <2>1. \/ (Len(digits) - i) % 2 = 1 /\ (Len(digits) - (i + 1)) % 2 # 1
        \/ (Len(digits) - i) % 2 # 1 /\ (Len(digits) - (i + 1)) % 2 = 1
    OBVIOUS
  <2>2. QED
    BY <1>1, <2>1 DEF Value
<1>10. Doubled(a) \in Int /\ Doubled(b) \in Int /\ a \in Int /\ b \in Int
  BY <1>0 DEF Doubled, Digit
<1>11. ~Luhn(wrong)
  <2> SUFFICES ASSUME Luhn(wrong) PROVE FALSE
    OBVIOUS
  <2>1. a # b /\ {a, b} # {0, 9}
    OBVIOUS
  <2>2. \/ (Doubled(a) + b + rest) % 10 = 0 /\ (Doubled(b) + a + rest) % 10 = 0
        \/ (a + Doubled(b) + rest) % 10 = 0 /\ (b + Doubled(a) + rest) % 10 = 0
    <3>1. /\ (Value(digits, i) + (Value(digits, i + 1) + rest)) % 10 = 0
          /\ (Value(wrong, i) + (Value(wrong, i + 1) + rest)) % 10 = 0
      BY <1>7, <1>8
    <3> HIDE DEF a, b, rest
    <3>2. \/ /\ (Doubled(a) + (b + rest)) % 10 = 0
             /\ (Doubled(b) + (a + rest)) % 10 = 0
          \/ /\ (a + (Doubled(b) + rest)) % 10 = 0
             /\ (b + (Doubled(a) + rest)) % 10 = 0
      BY <1>9, <3>1, Zenon
    <3>3. /\ Doubled(a) + (b + rest) = Doubled(a) + b + rest
          /\ Doubled(b) + (a + rest) = Doubled(b) + a + rest
          /\ a + (Doubled(b) + rest) = a + Doubled(b) + rest
          /\ b + (Doubled(a) + rest) = b + Doubled(a) + rest
      BY <1>5, <1>10
    <3>4. QED
      BY <3>2, <3>3, Zenon
  <2>3. (Doubled(a) + b + rest) % 10 = 0 /\ (Doubled(b) + a + rest) % 10 = 0
    <3> HIDE DEF a, b, rest
    <3>1. QED
      BY <1>5, <1>10, <2>2
  <2> HIDE DEF a, b, rest
  <2>4. QED
    BY <1>0, <1>5, <2>1, <2>3, NeighboursDiffer
<1>12. QED
  BY <1>11 DEF wrong

\* The check of Shaparak catches one wrong digit, and two neighbours swapped, in a
\* card number of any length.
THEOREM TyposAreAlwaysCaught == \A digits \in Seq(Digit) : TyposAreCaught(digits)
<1> SUFFICES ASSUME NEW digits \in Seq(Digit), Luhn(digits)
             PROVE  TyposAreCaught(digits)
  BY DEF TyposAreCaught
<1>1. DOMAIN digits = 1..Len(digits)
  OBVIOUS
<1>2. QED
  BY <1>1, WrongDigitIsCaught, SwapIsCaught DEF TyposAreCaught

\* Numbers that both services accept: separators apart, they see the same digits.
LEMMA BothAccept ==
  ASSUME NEW written \in Seq(Character), NEW expiry, NEW now,
         Valid(written, expiry, now), PspAccepts(written)
  PROVE  /\ Len(Digits(written)) >= MinLength
         /\ BinFound(SubSeq(Digits(written), 1, BinLength))
<1> DEFINE Solid == Character \ {Space}
<1>1. Digits(written) = Compact(written)
  <2>1. ASSUME NEW i \in 1..Len(written) PROVE written[i] \in Digit <=> written[i] \in Solid
    <3>1. written[i] \in Digit => written[i] \in Solid
      BY DEF Digit, Space, Character
    <3>2. ASSUME written[i] \in Solid PROVE written[i] \in Digit
      <4>1. PICK j \in 1..Len(Compact(written)) : Compact(written)[j] = written[i]
        <5>1. Range(written) \cap Solid \subseteq Range(Compact(written))
          BY OnlyAllowed DEF Compact
        <5>2. QED
          BY <3>2, <5>1 DEF Range
      <4>2. Compact(written) \in Seq(Character)
        <5>1. Compact(written) \in Seq(Character \cap Solid)
          BY OnlyAllowed DEF Compact
        <5>2. QED
          BY <5>1
      <4>3. QED
        BY <4>1, <4>2 DEF PspAccepts
    <3>3. QED
      BY <3>1, <3>2
  <2>2. QED
    BY <2>1, OnlyAgrees DEF Digits, Compact
<1>2. Len(Digits(written)) >= MinLength
  BY <1>1 DEF PspAccepts
<1>3. /\ MinLength \in Nat /\ BinLength \in 1..MinLength
      /\ SubSeq(written, 1, BinLength) \in Seq(Digit)
      /\ Len(written) >= MinLength
  BY CardRulesAssumption DEF Valid, BinFound
<1>4. \A i \in 1..BinLength : written[i] \in Digit
  <2>1. SUFFICES ASSUME NEW i \in 1..BinLength PROVE written[i] \in Digit
    OBVIOUS
  <2>2. Len(SubSeq(written, 1, BinLength)) = BinLength
        /\ SubSeq(written, 1, BinLength)[i] = written[i]
    BY <1>3
  <2>3. QED
    BY <1>3, <2>2
<1>5. /\ Len(Digits(written)) >= BinLength
      /\ \A i \in 1..BinLength : Digits(written)[i] = written[i]
  BY <1>3, <1>4, OnlyKeepsPrefix DEF Digits
<1>6. Digits(written) \in Seq(Digit)
  <2>1. Digits(written) \in Seq(Character \cap Digit)
    BY OnlyAllowed DEF Digits
  <2>2. QED
    BY <2>1
<1>7. SubSeq(Digits(written), 1, BinLength) = SubSeq(written, 1, BinLength)
  BY <1>3, <1>5, <1>6
<1>8. QED
  BY <1>2, <1>7 DEF Valid

\* Numbers written in digits only.
LEMMA DigitsAccepted ==
  ASSUME NEW written \in Seq(Character), NEW expiry, NEW now,
         Valid(written, expiry, now), Digits(written) = written
  PROVE  PspAccepts(written)
<1> DEFINE Solid == Character \ {Space}
<1>1. written \in Seq(Digit)
  <2>1. Digits(written) \in Seq(Character \cap Digit)
    BY OnlyAllowed DEF Digits
  <2>2. QED
    BY <2>1
<1>2. \A i \in 1..Len(written) : written[i] \in Solid
  BY <1>1 DEF Digit, Character, Space
<1>3. /\ Len(Compact(written)) >= Len(written)
      /\ \A i \in 1..Len(written) : Compact(written)[i] = written[i]
  BY <1>2, OnlyKeepsPrefix DEF Compact
<1>4. Len(Compact(written)) <= Len(written) /\ Compact(written) \in Seq(Character \cap Solid)
  BY OnlyAllowed DEF Compact
<1>5. Len(Compact(written)) = Len(written) /\ DOMAIN Compact(written) = 1..Len(written)
  BY <1>3, <1>4
<1>6. Len(written) >= MinLength
  BY DEF Valid
<1>7. QED
  BY <1>1, <1>3, <1>5, <1>6 DEF PspAccepts

\* The year and the month of a date.
LEMMA DatesAreNumbers ==
  ASSUME NEW date \in [year : 0..99, month : 1..12]
  PROVE  date.year \in Int /\ date.month \in Int
<1>1. date.year \in 0..99 /\ date.month \in 1..12
  OBVIOUS
<1>2. \A n : (n \in 0..99 \/ n \in 1..12) => n \in Int
  OBVIOUS
<1>3. QED
  BY <1>1, <1>2, Zenon

\* A card that has expired has expired at every later date too.
LEMMA StaysExpired ==
  ASSUME NEW expiry \in Months, NEW now \in Months, NEW later \in Months,
         Expired(expiry, now), ~Expired(later, now)
  PROVE  Expired(expiry, later)
<1>1. /\ expiry \in [year : 0..99, month : 1..12] /\ now \in [year : 0..99, month : 1..12]
      /\ later \in [year : 0..99, month : 1..12]
  BY CardRulesAssumption
<1>2. /\ expiry.year \in Int /\ expiry.month \in Int /\ now.year \in Int
      /\ now.month \in Int /\ later.year \in Int /\ later.month \in Int
  BY <1>1, DatesAreNumbers
<1>3. QED
  BY <1>2, SMT DEF Expired

\* Whatever numbers are asked about, of any length and with any separators, typing
\* errors are caught and the two services agree as far as the code makes them.
THEOREM CardsAreAlwaysChecked == CardsAreChecked
<1>1. ASSUME NEW written \in Seq(Character), NEW expiry \in Months, NEW now \in Months,
             NEW later \in Months
      PROVE  ServicesAgree(written, expiry, now, later)
  <2>1. Expired(expiry, now) /\ ~Expired(later, now) => ~Valid(written, expiry, later)
    BY StaysExpired DEF Valid
  <2>2. QED
    BY <2>1, BothAccept, DigitsAccepted DEF ServicesAgree
<1>2. asked \in Cards => asked \in Seq(Character)
  BY CardRulesAssumption
<1>3. QED
  BY <1>1, <1>2, TyposAreAlwaysCaught DEF CardsAreChecked

-----------------------------------------------------------------------------
(* Listings. The rows newer than a row tell on which page it may be: when  *)
(* fewer rows are skipped than are newer, it is still to come, and when    *)
(* more are, it has gone by; unless another row has its date.              *)

\* The rows of the listing that stand before a row in any order by date.
Newer(row) == {other \in Found : Date[other] > Date[row]}

ListTypes ==
  /\ table \subseteq Rows /\ IsFiniteSet(table)
  /\ limit \in Nat \ {0} /\ number \in Nat \ {0}
  /\ seen \subseteq Found /\ again \subseteq seen
  /\ before \subseteq table
  /\ ~grown => before = table

\* A row that was missed so far, and is not tied, is still to come.
StillToCome ==
  \A row \in Missed :
    Tied(row) \/ (~ended /\ Cardinality(Newer(row)) >= Skip(number, limit))

\* A row that was read, and is not tied, has gone by.
GoneBy ==
  ~grown => \A row \in seen :
    Tied(row) \/ Cardinality(Newer(row)) < Skip(number, limit)

\* The number of rows in the pages read, counting each as often as it was read.
Reads == Least(Skip(number, limit), Cardinality(Found))

\* Rows that were read twice are missing among the rows read.
Counted ==
  ~grown =>
    /\ Cardinality(seen) <= Reads
    /\ again = {} <=> Cardinality(seen) = Reads
    /\ ended => Reads = Cardinality(Found)

ListInv ==
  /\ ListTypes
  /\ StillToCome
  /\ GoneBy
  /\ \A row \in again : ~grown => Tied(row)
  /\ Counted

\* The first row of page n + 1 comes after those of page n.
LEMMA SkipNext ==
  ASSUME NEW n \in Nat \ {0}, NEW size \in Nat \ {0}
  PROVE  Skip(n, size) \in Nat /\ Skip(n + 1, size) = Skip(n, size) + size
  BY DEF Skip

\* The rows of a listing are finitely many, and so are those newer than one.
LEMMA FoundIsFinite ==
  ASSUME ListTypes
  PROVE  /\ IsFiniteSet(Found) /\ Cardinality(Found) \in Nat
         /\ \A S \in SUBSET Found : /\ IsFiniteSet(S) /\ Cardinality(S) \in Nat
                                    /\ Cardinality(S) <= Cardinality(Found)
         /\ \A row : Newer(row) \subseteq Found
         /\ \A row \in Found : Date[row] \in Int
<1>1. IsFiniteSet(Found)
  BY FS_Subset DEF ListTypes, Found
<1>2. \A S \in SUBSET Found :
        /\ IsFiniteSet(S) /\ Cardinality(S) <= Cardinality(Found)
  BY <1>1, FS_Subset
<1>3. \A S \in SUBSET Found : Cardinality(S) \in Nat
  BY <1>2, FS_CardinalityType
<1>4. \A row : Newer(row) \subseteq Found
  BY DEF Newer
<1>5. \A row \in Found : Date[row] \in Int
  BY ListingAssumption DEF Found
<1>6. QED
  BY <1>1, <1>2, <1>3, <1>4, <1>5

\* A part of a finite set that leaves out one of its elements is smaller.
LEMMA FewerWithout ==
  ASSUME NEW S, IsFiniteSet(S), NEW x \in S, NEW T \in SUBSET (S \ {x})
  PROVE  Cardinality(T) \in Nat /\ Cardinality(T) <= Cardinality(S) - 1
<1>1. IsFiniteSet(S \ {x}) /\ Cardinality(S \ {x}) = Cardinality(S) - 1
  BY FS_RemoveElement
<1>2. IsFiniteSet(T) /\ Cardinality(T) <= Cardinality(S \ {x})
  BY <1>1, FS_Subset
<1>3. QED
  BY <1>1, <1>2, FS_CardinalityType

\* Where a page stands: which rows come before and after it, and how many.
LEMMA PageRows ==
  ASSUME ListTypes, NEW page \in SUBSET Found, NEW offset \in Nat,
         IsPage(page, offset, limit)
  PROVE  \E skipped \in SUBSET (Found \ page) :
           /\ Precede(skipped, Found \ skipped)
           /\ Precede(page, Found \ (skipped \cup page))
           /\ Cardinality(skipped) = Least(offset, Cardinality(Found))
           /\ Cardinality(page) =
                Least(limit, Cardinality(Found) - Cardinality(skipped))
           /\ Cardinality(skipped \cup page) =
                Cardinality(skipped) + Cardinality(page)
<1>1. PICK skipped \in SUBSET (Found \ page) :
        /\ Precede(skipped, Found \ skipped)
        /\ Precede(page, Found \ (skipped \cup page))
        /\ Cardinality(skipped) = Least(offset, Cardinality(Found))
        /\ Cardinality(page) =
             Least(limit, Cardinality(Found) - Cardinality(skipped))
  BY DEF IsPage
<1>2. /\ skipped \in SUBSET Found /\ skipped \cap page = {}
      /\ IsFiniteSet(skipped) /\ IsFiniteSet(page)
      /\ Cardinality(skipped) \in Nat /\ Cardinality(page) \in Nat
  BY FoundIsFinite
<1>3. Cardinality(skipped \cup page) =
        Cardinality(skipped) + Cardinality(page) - Cardinality({})
  BY <1>2, FS_Union
<1>4. Cardinality(skipped \cup page) = Cardinality(skipped) + Cardinality(page)
  BY <1>2, <1>3, FS_EmptySet
<1>5. QED
  BY <1>1, <1>4

\* A row that is not tied, was to come and is not on the page, is after it: as
\* many rows more are newer than it, and the page is full.
LEMMA ComesLater ==
  ASSUME ListTypes, NEW page \in SUBSET Found, NEW offset \in Nat,
         IsPage(page, offset, limit),
         NEW row \in Found \ page, ~Tied(row),
         Cardinality(Newer(row)) >= offset
  PROVE  /\ Cardinality(page) = limit
         /\ Cardinality(Newer(row)) >= offset + limit
<1>1. PICK skipped \in SUBSET (Found \ page) :
        /\ Precede(skipped, Found \ skipped)
        /\ Precede(page, Found \ (skipped \cup page))
        /\ Cardinality(skipped) = Least(offset, Cardinality(Found))
        /\ Cardinality(page) =
             Least(limit, Cardinality(Found) - Cardinality(skipped))
        /\ Cardinality(skipped \cup page) =
             Cardinality(skipped) + Cardinality(page)
  BY PageRows
<1> DEFINE first == skipped \cup page
<1>2. \A other \in Found : other # row => Date[other] # Date[row]
  BY DEF Tied
<1>3. Newer(row) \in SUBSET (Found \ {row})
  BY FoundIsFinite DEF Newer
<1>4. Cardinality(Newer(row)) < Cardinality(Found)
  BY <1>3, FoundIsFinite, FewerWithout
<1>5. Cardinality(skipped) = offset
  BY <1>1, <1>4, FoundIsFinite DEF Least
<1>6. row \notin skipped
  <2> SUFFICES ASSUME row \in skipped PROVE FALSE
    OBVIOUS
  <2>1. Newer(row) \in SUBSET (skipped \ {row})
    BY <1>1, <1>3, FoundIsFinite DEF Newer, Precede
  <2>2. Cardinality(Newer(row)) <= Cardinality(skipped) - 1
    BY <2>1, FoundIsFinite, FewerWithout
  <2>3. QED
    BY <1>5, <2>2, FoundIsFinite
<1>7. first \in SUBSET Newer(row)
  BY <1>1, <1>2, <1>6, FoundIsFinite DEF Newer, Precede
<1>8. Cardinality(first) <= Cardinality(Newer(row))
  BY <1>7, FoundIsFinite, FS_Subset
<1>9. QED
  BY <1>1, <1>4, <1>5, <1>8, FoundIsFinite DEF Least, ListTypes

\* Fewer rows are newer than a row of the page, that is not tied, than there
\* are up to the end of the page, and no fewer than before it.
LEMMA IsOnPage ==
  ASSUME ListTypes, NEW page \in SUBSET Found, NEW offset \in Nat,
         IsPage(page, offset, limit),
         NEW row \in page, ~Tied(row)
  PROVE  /\ Cardinality(Newer(row)) >= offset
         /\ Cardinality(Newer(row)) < offset + limit
<1>1. PICK skipped \in SUBSET (Found \ page) :
        /\ Precede(skipped, Found \ skipped)
        /\ Precede(page, Found \ (skipped \cup page))
        /\ Cardinality(skipped) = Least(offset, Cardinality(Found))
        /\ Cardinality(page) =
             Least(limit, Cardinality(Found) - Cardinality(skipped))
        /\ Cardinality(skipped \cup page) =
             Cardinality(skipped) + Cardinality(page)
  BY PageRows
<1> DEFINE first == skipped \cup page
<1>2. \A other \in Found : other # row => Date[other] # Date[row]
  BY DEF Tied
<1>3. Cardinality(page) \in Nat /\ Cardinality(page) # 0
  BY FoundIsFinite, FS_EmptySet
<1>4. Cardinality(skipped) = offset
  BY <1>1, <1>3, FoundIsFinite DEF Least, ListTypes
<1>5. skipped \in SUBSET Newer(row)
  BY <1>1, <1>2, FoundIsFinite DEF Newer, Precede
<1>6. Newer(row) \in SUBSET (first \ {row})
  BY <1>1, FoundIsFinite DEF Newer, Precede
<1>7. Cardinality(skipped) <= Cardinality(Newer(row))
  BY <1>5, FoundIsFinite, FS_Subset
<1>8. /\ first \in SUBSET Found /\ row \in first
      /\ IsFiniteSet(first) /\ Cardinality(first) \in Nat
  BY FoundIsFinite
<1>9. Cardinality(Newer(row)) <= Cardinality(first) - 1
  BY <1>6, <1>8, FewerWithout
<1>10. QED
  BY <1>1, <1>3, <1>4, <1>7, <1>8, <1>9, FoundIsFinite DEF Least, ListTypes

\* The initial states have the invariant.
LEMMA ListInitInv == ListInit => ListInv
<1> SUFFICES ASSUME ListInit PROVE ListInv
  OBVIOUS
<1>1. ListTypes
  BY ListingAssumption DEF ListInit, ListTypes
<1>2. Skip(number, limit) = 0
  BY <1>1 DEF ListInit, ListTypes, Skip
<1>3. StillToCome
  <2>1. \A row : Cardinality(Newer(row)) \in Nat
    BY <1>1, FoundIsFinite
  <2>2. QED
    BY <1>2, <2>1 DEF StillToCome, ListInit
<1>4. Counted
  BY <1>1, <1>2, FoundIsFinite, FS_EmptySet DEF Counted, ListInit, Reads, Least
<1>5. QED
  BY <1>1, <1>3, <1>4 DEF ListInv, GoneBy, ListInit

\* A page keeps it.
LEMMA ReadPageInv ==
  ASSUME ListInv, NEW page \in SUBSET Found, ReadPage(page)
  PROVE  ListInv'
<1>0. PICK offset \in Nat : offset = Skip(number, limit)
  BY SkipNext DEF ListInv, ListTypes
<1>1. ListTypes /\ IsPage(page, offset, limit)
  BY <1>0 DEF ListInv, ReadPage
<1>2. Skip(number', limit') = offset + limit
  BY <1>0, SkipNext DEF ListInv, ReadPage, ListTypes
<1>3. /\ UNCHANGED <<Found, limit, before, table, grown>>
      /\ \A row : UNCHANGED <<Newer(row), Tied(row)>>
  BY DEF ReadPage, Found, Newer, Tied
<1>4. ListTypes'
  BY <1>3 DEF ListInv, ListTypes, ReadPage
<1> DEFINE short == Cardinality(page) < limit
<1>5. ended' => short
  <2>1. ended' = short
    BY DEF ReadPage
  <2> HIDE DEF short
  <2>2. QED
    BY <2>1, Zenon
<1>6. StillToCome'
  <2> SUFFICES ASSUME NEW row \in Missed', ~Tied(row)
               PROVE  ~ended' /\ Cardinality(Newer(row)) >= offset + limit
    BY <1>2, <1>3 DEF StillToCome
  <2>1. row \in Found \ page /\ row \in Missed
    BY <1>1 DEF Missed, ReadPage, ListTypes, Found
  <2>2. Cardinality(Newer(row)) >= offset
    BY <1>0, <2>1 DEF ListInv, StillToCome
  <2>3. /\ Cardinality(page) = limit
        /\ Cardinality(Newer(row)) >= offset + limit
    BY <1>1, <2>1, <2>2, ComesLater
  <2>4. QED
    BY <1>1, <1>5, <2>3 DEF ListTypes
<1>7. GoneBy'
  <2> SUFFICES ASSUME ~grown, NEW row \in seen \cup page, ~Tied(row)
               PROVE  Cardinality(Newer(row)) < offset + limit
    BY <1>2, <1>3 DEF GoneBy, ReadPage
  <2>1. CASE row \in page
    BY <1>1, <2>1, IsOnPage
  <2>2. CASE row \in seen
    <3>1. Cardinality(Newer(row)) < offset
      BY <1>0, <2>2 DEF ListInv, GoneBy
    <3>2. QED
      BY <1>1, <3>1, FoundIsFinite DEF ListTypes
  <2>3. QED
    BY <2>1, <2>2
<1>8. \A row \in again' : ~grown' => Tied(row)'
  <2> SUFFICES ASSUME ~grown, NEW row \in seen \cap page, ~Tied(row)
               PROVE  FALSE
    BY <1>3 DEF ListInv, ReadPage
  <2>1. Cardinality(Newer(row)) < offset
    BY <1>0 DEF ListInv, GoneBy
  <2>2. Cardinality(Newer(row)) >= offset
    BY <1>1, IsOnPage
  <2>3. QED
    BY <1>1, <2>1, <2>2, FoundIsFinite
<1>9. Counted'
  <2> SUFFICES ASSUME ~grown PROVE Counted'
    BY <1>3 DEF Counted
  <2>1. PICK skipped \in SUBSET (Found \ page) :
          /\ Cardinality(skipped) = Least(offset, Cardinality(Found))
          /\ Cardinality(page) =
               Least(limit, Cardinality(Found) - Cardinality(skipped))
    BY <1>1, PageRows
  <2>2. /\ Cardinality(Found) \in Nat /\ Cardinality(page) \in Nat
        /\ IsFiniteSet(page) /\ IsFiniteSet(seen) /\ IsFiniteSet(seen \cap page)
        /\ Cardinality(seen) \in Nat /\ Cardinality(seen \cap page) \in Nat
        /\ limit \in Nat \ {0}
    BY <1>1, FoundIsFinite DEF ListTypes
  <2>3. Reads = Cardinality(skipped) /\ Reads' = Reads + Cardinality(page)
    BY <1>0, <1>2, <1>3, <2>1, <2>2 DEF Reads, Least
  <2>4. Cardinality(seen') =
          Cardinality(seen) + Cardinality(page) - Cardinality(seen \cap page)
    BY <2>2, FS_Union DEF ReadPage
  <2>5. again' = {} <=> again = {} /\ Cardinality(seen \cap page) = 0
    BY <2>2, FS_EmptySet DEF ReadPage
  <2>6. ended' => Reads' = Cardinality(Found)
    BY <1>5, <2>1, <2>2, <2>3 DEF Least
  <2>7. /\ Cardinality(seen) <= Reads
        /\ again = {} <=> Cardinality(seen) = Reads
    BY DEF ListInv, Counted
  <2>8. Reads \in Nat
    BY <1>0, <2>2 DEF Reads, Least
  <2>9. /\ Cardinality(seen') <= Reads'
        /\ again' = {} <=> Cardinality(seen') = Reads'
    BY <2>2, <2>3, <2>4, <2>5, <2>7, <2>8
  <2>10. QED
    BY <1>3, <2>6, <2>9 DEF Counted
<1>10. QED
  BY <1>4, <1>6, <1>7, <1>8, <1>9 DEF ListInv

\* So does a row that is added: it moves rows back, and unties none.
LEMMA AddRowInv ==
  ASSUME ListInv, NEW added \in Rows, AddRow(added)
  PROVE  ListInv'
<1>1. /\ UNCHANGED <<limit, number, ended, seen, again, before, Missed>>
      /\ table' = table \cup {added} /\ grown'
  BY DEF AddRow, Missed
<1>2. ListTypes'
  <2>1. IsFiniteSet(table')
    BY <1>1, FS_AddElement DEF ListInv, ListTypes
  <2>2. QED
    BY <1>1, <2>1 DEF ListInv, ListTypes, Found
<1>3. Found \subseteq Found'
  BY <1>1 DEF Found
<1>4. ASSUME NEW row PROVE Tied(row) => Tied(row)'
  BY <1>3 DEF Tied
<1>5. ASSUME NEW row
      PROVE  Cardinality(Newer(row)) <= Cardinality(Newer(row))'
  <2>1. Newer(row) \in SUBSET Newer(row)'
    BY <1>3 DEF Newer
  <2>2. IsFiniteSet(Newer(row)')
    <3>1. Found' \subseteq table' /\ IsFiniteSet(table')
      BY <1>2 DEF Found, ListTypes
    <3>2. Newer(row)' \in SUBSET table'
      BY <3>1 DEF Newer
    <3>3. QED
      BY <3>1, <3>2, FS_Subset
  <2>3. QED
    BY <2>1, <2>2, FS_Subset
<1>6. StillToCome'
  <2> SUFFICES ASSUME NEW row \in Missed, ~Tied(row)'
               PROVE  ~ended /\ Cardinality(Newer(row))' >= Skip(number, limit)
    BY <1>1 DEF StillToCome
  <2>1. ~ended /\ Cardinality(Newer(row)) >= Skip(number, limit)
    BY <1>4 DEF ListInv, StillToCome
  <2>2. Skip(number, limit) \in Nat /\ Cardinality(Newer(row)) \in Nat
    BY SkipNext, FoundIsFinite DEF ListInv, ListTypes
  <2>3. Cardinality(Newer(row))' \in Nat
    <3>1. Newer(row)' \in SUBSET table' /\ IsFiniteSet(table')
      BY <1>2 DEF Newer, Found, ListTypes
    <3>2. QED
      BY <3>1, FS_Subset, FS_CardinalityType
  <2>4. QED
    BY <1>5, <2>1, <2>2, <2>3
<1>7. QED
  BY <1>1, <1>2, <1>6 DEF ListInv, GoneBy, Counted

\* The invariant holds in every state of a listing, and says what the reader
\* can rely on: for tables and pages of any size, and any dates, a reader of
\* all pages misses and repeats rows with equal dates only.
THEOREM ListingsMissOnlyTies == ListSpec => []OnlyTiesAreMissed
<1>1. ListInv /\ [ListNext]_listVars => ListInv'
  <2> SUFFICES ASSUME ListInv, [ListNext]_listVars PROVE ListInv'
    OBVIOUS
  <2>1. CASE UNCHANGED listVars
    BY <2>1 DEF listVars, ListInv, ListTypes, StillToCome, GoneBy, Counted,
       Missed, Reads, Newer, Tied, Found
  <2>2. QED
    BY <2>1, ReadPageInv, AddRowInv DEF ListNext
<1>2. ListInv => OnlyTiesAreMissed
  <2> SUFFICES ASSUME ListInv PROVE OnlyTiesAreMissed
    OBVIOUS
  <2>1. ended => \A row \in Missed : Tied(row)
    BY DEF ListInv, StillToCome
  <2>2. ASSUME ended, ~grown PROVE Missed = {} <=> again = {}
    <3>1. /\ again = {} <=> Cardinality(seen) = Cardinality(Found)
          /\ seen \in SUBSET Found
      BY <2>2 DEF ListInv, Counted, ListTypes
    <3>2. Cardinality(seen) = Cardinality(Found) <=> seen = Found
      BY <3>1, FoundIsFinite, FS_Subset DEF ListInv
    <3>3. Missed = Found \ seen
      BY <2>2 DEF ListInv, ListTypes, Missed, Found
    <3>4. QED
      BY <3>1, <3>2, <3>3
  <2>3. QED
    BY <2>1, <2>2 DEF ListInv, OnlyTiesAreMissed
<1>3. QED
  BY <1>1, <1>2, ListInitInv, PTL DEF ListSpec
=============================================================================

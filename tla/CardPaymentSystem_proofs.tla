----------------------- MODULE CardPaymentSystem_proofs -----------------------
(***************************************************************************)
(* Proofs about CardPaymentSystem, for any numbers of transactions,        *)
(* references, calls and faults.                                           *)
(***************************************************************************)
EXTENDS CardPaymentSystem, TLAPS, FiniteSetTheorems

(***************************************************************************)
(* The inductive invariant. The reference of a row is written once, by the *)
(* last step of initiatePayment, after Shaparak gave it for this very      *)
(* transaction. A verification goes on with a row that has its reference,  *)
(* and from the answer of Shaparak on its payment is paid and recorded.    *)
(***************************************************************************)

Reference == References \cup {None}

InitiatorPc == {"idle", "calling", "updating", "failing", "ended"}
VerifierPc  == {"idle", "asking", "settling", "succeeding", "refusing",
                "decided", "ended"}
ProcessorPc == {"idle", "checking", "initiating", "finding", "saving",
                "failing", "marking", "markingSave", "accepted", "rejected",
                "errored", "lost"}
AnswerPc    == {"idle", "paid", "recording", "verified", "refused", "failed",
                "lost"}
RefunderPc  == {"idle", "checked", "marking", "done", "refused", "failed",
                "lost"}

OthersTyped ==
  /\ pspReference \in [Known -> Reference]
  /\ processor \in [Transactions ->
       [pc : ProcessorPc, ref : Reference]]
  /\ cardStatus \in [References -> Shaparak!CardStatus]
  /\ transactionOf \in [References -> Transactions \cup {None}]
  /\ records \in [References -> Nat]
  /\ callback \in [Callbacks ->
       [pc : {"idle", "read", "saved", "done", "refused", "failed", "lost"},
        ref : Reference, outcome : Shaparak!Outcomes]]
  /\ verification \in [Verifications ->
       [pc : AnswerPc, ref : Reference]]
  /\ IsFiniteSet(paid)

TxInv(t) ==
  /\ txReference[t] # None =>
       /\ initiator[t].pc = "ended"
       /\ transactionOf[txReference[t]] = t
  /\ initiator[t].pc = "updating" /\ initiator[t].ref # None =>
       transactionOf[initiator[t].ref] = t
  /\ processor[t].pc \in {"finding", "saving", "accepted"} =>
       processor[t].ref # None /\ transactionOf[processor[t].ref] = t
  /\ txStatus[t] = "SUCCESSFUL" =>
       /\ txReference[t] # None /\ txReference[t] \in paid
       /\ records[txReference[t]] > 0
       /\ \E v \in Verifications : verifier[v].tx = t /\ settleReply[v] # "none"

CardInv(ref) ==
  /\ cardStatus[ref] = "NONE" => transactionOf[ref] = None
  /\ cardStatus[ref] = "SUCCESSFUL" => ref \in paid

Confirmed == {"paid", "recording", "verified"}

VerifyInv(v) ==
  /\ verifier[v].pc = "idle" => verifier[v].tx = None
  /\ verifier[v].pc \in {"asking", "settling", "succeeding", "refusing", "decided"} =>
       verifier[v].tx # None
  /\ verifier[v].tx # None => txReference[verifier[v].tx] # None
  /\ verification[v].pc \in Confirmed =>
       /\ verifier[v].tx # None
       /\ verification[v].ref = txReference[verifier[v].tx]
       /\ verification[v].ref \in paid
  /\ verification[v].pc = "verified" => records[verification[v].ref] > 0
  /\ verifier[v].pc \in {"settling", "succeeding"} => verification[v].pc = "verified"
  /\ verifier[v].pc = "succeeding" => settleReply[v] # "none"
  /\ verifier[v].pc = "decided" => txStatus[verifier[v].tx] \in Gateway!FinalTxStatus

\* A refund about to be saved is of a payment that has a number: no other
\* number is that of its row.
RefundersTyped ==
  /\ refunder \in [Refunds ->
       [pc : RefunderPc, ref : Reference, amount : Shaparak!RefundAmounts]]
  /\ \A f \in Refunds : refunder[f].pc = "checked" => refunder[f].ref # None

Inv ==
  /\ TypeOK /\ OthersTyped
  /\ \A t \in Transactions : TxInv(t)
  /\ \A ref \in References : CardInv(ref)
  /\ \A v \in Verifications : VerifyInv(v)

\* The types of what the handlers of the gateway and of the PSP keep.
LEMMA HandlersTyped ==
  Inv => /\ initiator \in [Transactions -> [pc : InitiatorPc, ref : Reference]]
         /\ verifier \in [Verifications ->
              [pc : VerifierPc, tx : Transactions \cup {None}]]
         /\ processor \in [Transactions -> [pc : ProcessorPc, ref : Reference]]
         /\ verification \in [Verifications -> [pc : AnswerPc, ref : Reference]]
BY DEF Inv, TypeOK, OthersTyped, Reference, InitiatorPc, VerifierPc

\* The initial states have the invariant.
LEMMA InvInit == Init => Inv
<1> SUFFICES ASSUME Init PROVE Inv
  OBVIOUS
<1> USE SystemAssumption DEF Init, Gateway!GatewayInit, Psp!PspInit, Shaparak!CardInit
<1>1. TypeOK
  BY DEF TypeOK, Gateway!TxStatus
<1>2. OthersTyped
  <2>1. IsFiniteSet(paid)
    BY FS_EmptySet
  <2>2. QED
    BY <2>1 DEF OthersTyped, Reference, ProcessorPc, AnswerPc,
       Shaparak!CardStatus, Shaparak!Outcomes
<1>3. \A t \in Transactions : TxInv(t)
  BY DEF TxInv
<1>4. \A ref \in References : CardInv(ref)
  BY DEF CardInv
<1>5. \A v \in Verifications : VerifyInv(v)
  BY DEF VerifyInv, Confirmed
<1>6. QED
  BY <1>1, <1>2, <1>3, <1>4, <1>5 DEF Inv

-----------------------------------------------------------------------------
(* Moving a program counter                                                *)

\* An update of the field pc of a handler leaves its other field alone.
LEMMA TxKept ==
  ASSUME NEW S, NEW P, NEW X, NEW f \in [S -> [pc : P, tx : X]], NEW v \in S,
         NEW to \in P
  PROVE  LET g == [f EXCEPT ![v].pc = to] IN
         /\ g \in [S -> [pc : P, tx : X]] /\ g[v].pc = to
         /\ \A x \in S : g[x].tx = f[x].tx
         /\ \A x \in S \ {v} : g[x] = f[x]
<1> DEFINE new == [f[v] EXCEPT !.pc = to]
<1>1. f[v] \in [pc : P, tx : X]
  OBVIOUS
<1>2. new \in [pc : P, tx : X] /\ new.pc = to /\ new.tx = f[v].tx
  BY <1>1
<1> HIDE DEF new
<1>3. [f EXCEPT ![v] = new] \in [S -> [pc : P, tx : X]]
  BY <1>2
<1>4. QED
  BY <1>2, <1>3 DEF new

\* The same, for handlers that keep a reference.
LEMMA RefKept ==
  ASSUME NEW S, NEW P, NEW X, NEW f \in [S -> [pc : P, ref : X]], NEW v \in S,
         NEW to \in P
  PROVE  LET g == [f EXCEPT ![v].pc = to] IN
         /\ g \in [S -> [pc : P, ref : X]] /\ g[v].pc = to
         /\ \A x \in S : g[x].ref = f[x].ref
         /\ \A x \in S \ {v} : g[x] = f[x]
<1> DEFINE new == [f[v] EXCEPT !.pc = to]
<1>1. f[v] \in [pc : P, ref : X]
  OBVIOUS
<1>2. new \in [pc : P, ref : X] /\ new.pc = to /\ new.ref = f[v].ref
  BY <1>1
<1> HIDE DEF new
<1>3. [f EXCEPT ![v] = new] \in [S -> [pc : P, ref : X]]
  BY <1>2
<1>4. QED
  BY <1>2, <1>3 DEF new

\* So for each handler of the gateway ...
LEMMA InitiatorTo ==
  ASSUME Inv, NEW t \in Transactions, NEW to \in InitiatorPc,
         initiator' = [initiator EXCEPT ![t].pc = to]
  PROVE  /\ initiator' \in [Transactions -> [pc : InitiatorPc, ref : Reference]]
         /\ initiator'[t].pc = to
         /\ \A u \in Transactions : initiator'[u].ref = initiator[u].ref
         /\ \A u \in Transactions \ {t} : initiator'[u] = initiator[u]
<1>1. initiator \in [Transactions -> [pc : InitiatorPc, ref : Reference]]
  BY HandlersTyped
<1>2. QED
  BY <1>1, RefKept

LEMMA VerifierTo ==
  ASSUME Inv, NEW v \in Verifications, NEW to \in VerifierPc,
         verifier' = [verifier EXCEPT ![v].pc = to]
  PROVE  /\ verifier' \in [Verifications ->
              [pc : VerifierPc, tx : Transactions \cup {None}]]
         /\ verifier'[v].pc = to
         /\ \A x \in Verifications : verifier'[x].tx = verifier[x].tx
         /\ \A x \in Verifications \ {v} : verifier'[x] = verifier[x]
<1>1. verifier \in [Verifications ->
        [pc : VerifierPc, tx : Transactions \cup {None}]]
  BY HandlersTyped
<1>2. QED
  BY <1>1, TxKept

\* ... for processPayment of the PSP ...
LEMMA ProcessorTo ==
  ASSUME Inv, NEW t \in Transactions, NEW to \in ProcessorPc,
         processor' = [processor EXCEPT ![t].pc = to]
  PROVE  /\ processor' \in [Transactions -> [pc : ProcessorPc, ref : Reference]]
         /\ processor'[t].pc = to
         /\ \A u \in Transactions : processor'[u].ref = processor[u].ref
         /\ \A u \in Transactions \ {t} : processor'[u] = processor[u]
<1>1. processor \in [Transactions -> [pc : ProcessorPc, ref : Reference]]
  BY HandlersTyped
<1>2. QED
  BY <1>1, RefKept

\* ... and for verifyPayment of Shaparak.
LEMMA VerificationTo ==
  ASSUME Inv, NEW v \in Verifications, NEW to \in AnswerPc,
         verification' = [verification EXCEPT ![v].pc = to]
  PROVE  /\ verification' \in [Verifications -> [pc : AnswerPc, ref : Reference]]
         /\ verification'[v].pc = to
         /\ \A x \in Verifications : verification'[x].ref = verification[x].ref
         /\ \A x \in Verifications \ {v} : verification'[x] = verification[x]
<1>1. verification \in [Verifications -> [pc : AnswerPc, ref : Reference]]
  BY HandlersTyped
<1>2. QED
  BY <1>1, RefKept

\* And for callbacks, which keep a reference and an outcome.
LEMMA OutcomeKept ==
  ASSUME NEW S, NEW P, NEW X, NEW Y,
         NEW f \in [S -> [pc : P, ref : X, outcome : Y]], NEW v \in S, NEW to \in P
  PROVE  [f EXCEPT ![v].pc = to] \in [S -> [pc : P, ref : X, outcome : Y]]
<1> DEFINE new == [f[v] EXCEPT !.pc = to]
<1>1. f[v] \in [pc : P, ref : X, outcome : Y]
  OBVIOUS
<1>2. new \in [pc : P, ref : X, outcome : Y]
  BY <1>1
<1> HIDE DEF new
<1>3. [f EXCEPT ![v] = new] \in [S -> [pc : P, ref : X, outcome : Y]]
  BY <1>2
<1>4. QED
  BY <1>3 DEF new

-----------------------------------------------------------------------------
(* What the steps of one service leave of the others                       *)

\* Steps of Shaparak leave the transactions as they are, as long as payments
\* keep their transactions, and stay paid and recorded.
LEMMA TransactionsKept ==
  ASSUME Inv, UNCHANGED <<gateway, processor>>, paid \subseteq paid',
         \A ref \in References :
           /\ transactionOf[ref] # None => transactionOf'[ref] = transactionOf[ref]
           /\ records[ref] > 0 => records'[ref] > 0
  PROVE  TypeOK' /\ \A t \in Transactions : TxInv(t)'
<1>1. TypeOK'
  BY DEF Inv, TypeOK, gateway
<1>2. ASSUME NEW t \in Transactions PROVE TxInv(t)'
  <2>1. /\ TxInv(t) /\ txReference[t] \in Reference /\ initiator[t].ref \in Reference
        /\ processor[t].ref \in Reference /\ t # None
    BY SystemAssumption DEF Inv, TypeOK, OthersTyped, Reference
  <2>2. /\ txReference' = txReference /\ txStatus' = txStatus
        /\ initiator' = initiator /\ verifier' = verifier
        /\ settleReply' = settleReply /\ processor' = processor
    BY DEF gateway
  <2>3. QED
    BY <2>1, <2>2 DEF TxInv, Reference
<1>3. QED
  BY <1>1, <1>2

\* And they leave a verification as it is that Shaparak is not answering.
LEMMA VerificationKept ==
  ASSUME Inv, UNCHANGED gateway, NEW v \in Verifications,
         verification'[v] = verification[v], paid \subseteq paid',
         \A ref \in References : records[ref] > 0 => records'[ref] > 0
  PROVE  VerifyInv(v)'
<1>1. /\ VerifyInv(v) /\ verification[v].ref \in Reference
      /\ verifier[v].tx \in Transactions \cup {None}
  BY DEF Inv, TypeOK, OthersTyped
<1>2. verification[v].pc = "verified" => verification[v].ref \in References
  <2>1. verifier[v].tx # None =>
          verifier[v].tx \in Transactions /\ txReference[verifier[v].tx] # None
    BY <1>1 DEF VerifyInv
  <2>2. QED
    BY <1>1, <2>1 DEF VerifyInv, Reference, Confirmed
<1>3. QED
  BY <1>1, <1>2 DEF VerifyInv, gateway

\* Steps of the gateway and of the PSP leave the payments of Shaparak alone.
LEMMA PaymentsKept ==
  ASSUME Inv, UNCHANGED shaparak
  PROVE  \A ref \in References : CardInv(ref)'
BY DEF Inv, CardInv, shaparak

\* A step of the PSP never invents a reference.
LEMMA PspMoves ==
  ASSUME Inv, OthersTyped', UNCHANGED <<gateway, shaparak>>,
         \A t \in Transactions :
           processor'[t].pc \in {"finding", "saving", "accepted"} =>
             /\ processor[t].pc \in {"finding", "saving", "accepted"}
             /\ processor'[t].ref = processor[t].ref
  PROVE  Inv'
<1>1. TypeOK' /\ \A v \in Verifications : VerifyInv(v)'
  BY DEF Inv, TypeOK, VerifyInv, gateway, shaparak
<1>2. \A t \in Transactions : TxInv(t)'
  BY DEF Inv, TxInv, gateway, shaparak
<1>3. QED
  BY <1>1, <1>2, PaymentsKept DEF Inv

\* A step of initiatePayment concerns its own row only, and only one without a
\* reference.
LEMMA InitiatorMoves ==
  ASSUME Inv, TypeOK', OthersTyped', NEW t \in Transactions,
         UNCHANGED <<verifier, settleReply, shaparak>>,
         \A u \in Transactions \ {t} :
           /\ txStatus'[u] = txStatus[u] /\ txReference'[u] = txReference[u]
           /\ initiator'[u] = initiator[u] /\ processor'[u] = processor[u],
         TxInv(t)', txReference[t] = None
  PROVE  Inv'
<1>1. ASSUME NEW u \in Transactions \ {t} PROVE TxInv(u)'
  BY DEF Inv, TxInv, shaparak
<1>2. ASSUME NEW v \in Verifications PROVE VerifyInv(v)'
  <2>1. VerifyInv(v) /\ verifier[v].tx \in Transactions \cup {None} /\ verifier[v].tx # t
    BY SystemAssumption DEF Inv, TypeOK, VerifyInv
  <2>2. QED
    BY <2>1 DEF VerifyInv, shaparak
<1>3. QED
  BY <1>1, <1>2, PaymentsKept DEF Inv

\* A step of verifyPayment leaves the other verifications and the references
\* alone; what it writes is final, and SUCCESSFUL only with a payment.
LEMMA VerifierMoves ==
  ASSUME Inv, TypeOK', NEW v \in Verifications,
         UNCHANGED <<txReference, initiator, psp, shaparak>>,
         \A x \in Verifications \ {v} :
           verifier'[x] = verifier[x] /\ settleReply'[x] = settleReply[x],
         verifier[v].tx # None => verifier'[v].tx = verifier[v].tx,
         settleReply[v] # "none" => settleReply'[v] # "none",
         \A t \in Transactions :
           \/ txStatus'[t] = txStatus[t]
           \/ txStatus'[t] = "FAILED"
           \/ /\ txStatus'[t] = "SUCCESSFUL"
              /\ txReference[t] # None /\ txReference[t] \in paid
              /\ records[txReference[t]] > 0
              /\ verifier'[v].tx = t /\ settleReply'[v] # "none",
         VerifyInv(v)'
  PROVE  Inv'
<1>1. OthersTyped'
  BY DEF Inv, OthersTyped, psp, shaparak
<1>2. ASSUME NEW t \in Transactions PROVE TxInv(t)'
  <2>1. TxInv(t) /\ t # None
    BY SystemAssumption DEF Inv
  <2>2. \A x \in Verifications :
          verifier[x].tx = t /\ settleReply[x] # "none" =>
            verifier'[x].tx = t /\ settleReply'[x] # "none"
    BY <2>1
  <2>3. /\ txReference' = txReference /\ initiator' = initiator
        /\ processor' = processor /\ transactionOf' = transactionOf
        /\ paid' = paid /\ records' = records
    BY DEF psp, shaparak
  <2>4. QED
    BY <2>1, <2>2, <2>3 DEF TxInv
<1>3. ASSUME NEW x \in Verifications \ {v} PROVE VerifyInv(x)'
  <2>1. VerifyInv(x) /\ verifier[x].tx \in Transactions \cup {None}
    BY DEF Inv, TypeOK
  <2>2. verification' = verification /\ paid' = paid /\ records' = records
    BY DEF shaparak
  <2>3. QED
    BY <2>1, <2>2 DEF VerifyInv, Gateway!FinalTxStatus
<1>4. QED
  BY <1>1, <1>2, <1>3, PaymentsKept DEF Inv

\* A cancellation, a failing call or a crash of the gateway ends calls and at
\* most cancels a row.
LEMMA CallsEnd ==
  ASSUME Inv, TypeOK', UNCHANGED <<txReference, settleReply, psp, shaparak>>,
         \A t \in Transactions :
           /\ txStatus'[t] \in {txStatus[t], "CANCELLED"}
           /\ initiator'[t].pc \in {initiator[t].pc, "ended"}
           /\ initiator'[t].ref = initiator[t].ref,
         \A v \in Verifications :
           /\ verifier'[v].pc \in {verifier[v].pc, "ended"}
           /\ verifier'[v].tx = verifier[v].tx
  PROVE  Inv'
<1>1. OthersTyped'
  BY DEF Inv, OthersTyped, psp, shaparak
<1>2. ASSUME NEW t \in Transactions PROVE TxInv(t)'
  <2>1. TxInv(t)
    BY DEF Inv
  <2>2. /\ processor' = processor /\ transactionOf' = transactionOf
        /\ paid' = paid /\ records' = records
    BY DEF psp, shaparak
  <2>3. QED
    BY <2>1, <2>2 DEF TxInv
<1>3. ASSUME NEW v \in Verifications PROVE VerifyInv(v)'
  <2>1. VerifyInv(v) /\ verifier[v].tx \in Transactions \cup {None}
    BY DEF Inv, TypeOK
  <2>2. verification' = verification /\ paid' = paid /\ records' = records
    BY DEF shaparak
  <2>3. verifier[v].pc = "decided" =>
          txStatus'[verifier[v].tx] \in Gateway!FinalTxStatus
    BY <2>1 DEF VerifyInv, Gateway!FinalTxStatus
  <2>4. QED
    BY <2>1, <2>2, <2>3 DEF VerifyInv
<1>4. QED
  BY <1>1, <1>2, <1>3, PaymentsKept DEF Inv

-----------------------------------------------------------------------------
(* Calls and replies                                                       *)

\* The gateway calls the PSP.
LEMMA CallPspKeepsInv ==
  ASSUME Inv, NEW t \in Transactions, CallPsp(t) PROVE Inv'
<1>1. /\ initiator[t].pc = "idle" /\ initiator' = [initiator EXCEPT ![t].pc = "calling"]
      /\ processor[t].pc = "idle" /\ processor' = [processor EXCEPT ![t].pc = "checking"]
      /\ txStatus' = [txStatus EXCEPT ![t] = "PENDING"]
      /\ UNCHANGED <<txReference, verifier, canceller, settleReply, shaparak,
                     pspReference>>
  BY DEF CallPsp, Gateway!InitiateCreate, Gateway!Initiator, Gateway!UpdateStatus,
     Psp!ProcessStart, Psp!Processor, Psp!pspRows
<1>0. "calling" \in InitiatorPc /\ "checking" \in ProcessorPc
  BY DEF InitiatorPc, ProcessorPc
<1>2. /\ initiator' \in [Transactions -> [pc : InitiatorPc, ref : Reference]]
      /\ initiator'[t].pc = "calling"
      /\ \A u \in Transactions \ {t} : initiator'[u] = initiator[u]
  BY <1>0, <1>1, InitiatorTo
<1>3. /\ processor' \in [Transactions ->
           [pc : ProcessorPc, ref : Reference]]
      /\ processor'[t].pc = "checking"
      /\ \A u \in Transactions \ {t} : processor'[u] = processor[u]
  BY <1>0, <1>1, ProcessorTo
<1>4. TypeOK'
  BY <1>1, <1>2 DEF Inv, TypeOK, Reference, InitiatorPc, Gateway!TxStatus
<1>5. OthersTyped'
  BY <1>1, <1>3 DEF Inv, OthersTyped, shaparak
<1>6. txReference[t] = None
  BY <1>1 DEF Inv, TxInv
<1>7. /\ txStatus'[t] = "PENDING"
      /\ \A u \in Transactions \ {t} : txStatus'[u] = txStatus[u]
  BY <1>1 DEF Inv, TypeOK
<1>8. TxInv(t)'
  BY <1>1, <1>2, <1>3, <1>6, <1>7 DEF TxInv
<1>9. QED
  BY <1>1, <1>2, <1>3, <1>4, <1>5, <1>6, <1>7, <1>8, InitiatorMoves

\* The reply of the PSP has the reference of its payment, or none.
LEMMA PspRepliesKeepsInv ==
  ASSUME Inv, NEW t \in Transactions, PspReplies(t) PROVE Inv'
<1>1. /\ initiator[t].pc = "calling"
      /\ UNCHANGED <<txStatus, txReference, verifier, canceller, settleReply,
                     psp, shaparak>>
      /\ \/ /\ processor[t].pc = "accepted"
            /\ initiator' = [initiator EXCEPT
                 ![t] = [pc |-> "updating", ref |-> processor[t].ref]]
         \/ initiator' = [initiator EXCEPT ![t] = [pc |-> "updating", ref |-> None]]
         \/ initiator' = [initiator EXCEPT ![t].pc = "failing"]
  BY DEF PspReplies, Gateway!InitiateReplied, Gateway!InitiateRejected,
     Gateway!Initiator, Gateway!txRows
<1>2. processor[t].ref \in Reference /\ TxInv(t) /\ None \in Reference
  BY DEF Inv, OthersTyped, Reference
<1>3. /\ initiator' \in [Transactions -> [pc : InitiatorPc, ref : Reference]]
      /\ \A u \in Transactions \ {t} : initiator'[u] = initiator[u]
      /\ \/ /\ processor[t].pc = "accepted"
            /\ initiator'[t].pc = "updating" /\ initiator'[t].ref = processor[t].ref
         \/ initiator'[t].pc = "updating" /\ initiator'[t].ref = None
         \/ initiator'[t].pc = "failing"
  <2>0. /\ initiator \in [Transactions -> [pc : InitiatorPc, ref : Reference]]
        /\ "updating" \in InitiatorPc /\ "failing" \in InitiatorPc
    BY HandlersTyped DEF InitiatorPc
  <2>1. CASE initiator' = [initiator EXCEPT ![t].pc = "failing"]
    BY <2>0, <2>1, InitiatorTo
  <2>2. CASE /\ processor[t].pc = "accepted"
             /\ initiator' = [initiator EXCEPT
                  ![t] = [pc |-> "updating", ref |-> processor[t].ref]]
    BY <1>2, <2>0, <2>2
  <2>3. CASE initiator' = [initiator EXCEPT ![t] = [pc |-> "updating", ref |-> None]]
    BY <1>2, <2>0, <2>3
  <2>4. QED
    BY <1>1, <2>1, <2>2, <2>3
<1>4. TypeOK'
  BY <1>1, <1>3 DEF Inv, TypeOK, Reference, InitiatorPc
<1>5. OthersTyped'
  BY <1>1 DEF Inv, OthersTyped, psp, shaparak
<1>6. txReference[t] = None
  BY <1>1, <1>2 DEF TxInv
<1>7. /\ txReference' = txReference /\ txStatus' = txStatus
      /\ processor' = processor /\ transactionOf' = transactionOf
  BY <1>1 DEF psp, shaparak
<1>8. txStatus[t] # "SUCCESSFUL"
  BY <1>2, <1>6 DEF TxInv
<1>9. TxInv(t)'
  BY <1>2, <1>3, <1>6, <1>7, <1>8 DEF TxInv
<1>10. QED
  BY <1>1, <1>3, <1>4, <1>5, <1>6, <1>7, <1>9, InitiatorMoves

\* Shaparak inserts a payment for the very transaction of the call.
LEMMA CallShaparakKeepsInv ==
  ASSUME Inv, NEW t \in Transactions, NEW ref \in References, CallShaparak(t, ref)
  PROVE  Inv'
<1>1. /\ processor' = [processor EXCEPT ![t] = [pc |-> "finding", ref |-> ref]]
      /\ cardStatus[ref] = "NONE"
      /\ cardStatus' = [cardStatus EXCEPT ![ref] = "PENDING"]
      /\ transactionOf' = [transactionOf EXCEPT ![ref] = t]
      /\ UNCHANGED <<gateway, pspReference, records, paid, callback, verification>>
  BY DEF CallShaparak, Psp!ProcessInitiated, Psp!pspRows,
     Shaparak!InitiateCardPayment, Shaparak!handlers
<1>2. transactionOf[ref] = None /\ ref # None
  BY <1>1, SystemAssumption DEF Inv, CardInv
<1>3. TypeOK'
  BY <1>1 DEF Inv, TypeOK, gateway
<1>4. OthersTyped'
  BY <1>1 DEF Inv, OthersTyped, Reference, ProcessorPc, Shaparak!CardStatus
<1>5. /\ transactionOf'[ref] = t
      /\ \A r \in References \ {ref} : transactionOf'[r] = transactionOf[r]
      /\ processor'[t].pc = "finding" /\ processor'[t].ref = ref
      /\ \A u \in Transactions \ {t} : processor'[u] = processor[u]
  BY <1>1 DEF Inv, OthersTyped
<1>6. ASSUME NEW u \in Transactions PROVE TxInv(u)'
  <2>1. /\ TxInv(u) /\ txReference[u] \in Reference /\ initiator[u].ref \in Reference
        /\ processor[u].ref \in Reference /\ u # None
    BY SystemAssumption DEF Inv, TypeOK, OthersTyped, Reference
  <2>2. /\ txReference' = txReference /\ txStatus' = txStatus
        /\ initiator' = initiator /\ verifier' = verifier
        /\ settleReply' = settleReply /\ paid' = paid /\ records' = records
    BY <1>1 DEF gateway
  <2>3. \A r \in Reference :
          r # None /\ transactionOf[r] = u => transactionOf'[r] = u
    BY <1>2, <1>5, <2>1 DEF Reference
  <2>4. processor'[u].pc \in {"finding", "saving", "accepted"} =>
          processor'[u].ref # None /\ transactionOf'[processor'[u].ref] = u
    <3>1. CASE u = t
      BY <1>2, <1>5, <3>1
    <3>2. CASE u # t
      BY <1>5, <2>1, <2>3, <3>2 DEF TxInv
    <3>3. QED
      BY <3>1, <3>2
  <2>5. QED
    BY <2>1, <2>2, <2>3, <2>4 DEF TxInv
<1>7. ASSUME NEW r \in References PROVE CardInv(r)'
  BY <1>1, <1>5 DEF Inv, CardInv, OthersTyped
<1>8. \A v \in Verifications : VerifyInv(v)'
  BY <1>1, VerificationKept
<1>9. QED
  BY <1>3, <1>4, <1>6, <1>7, <1>8 DEF Inv

\* A refusal of Shaparak leads the PSP into its catch block.
LEMMA ShaparakRefusesKeepsInv ==
  ASSUME Inv, NEW t \in Transactions, ShaparakRefuses(t) PROVE Inv'
<1>1. /\ processor' = [processor EXCEPT ![t].pc = "failing"]
      /\ UNCHANGED <<gateway, shaparak, pspReference>>
  BY DEF ShaparakRefuses, Psp!ProcessRefused, Psp!Processor, Psp!pspRows
<1>2. /\ processor' \in [Transactions ->
           [pc : ProcessorPc, ref : Reference]]
      /\ processor'[t].pc = "failing"
      /\ \A u \in Transactions \ {t} : processor'[u] = processor[u]
  <2>1. "failing" \in ProcessorPc
    BY DEF ProcessorPc
  <2>2. QED
    BY <1>1, <2>1, ProcessorTo
<1>3. OthersTyped'
  BY <1>1, <1>2 DEF Inv, OthersTyped, shaparak
<1>4. QED
  BY <1>1, <1>2, <1>3, PspMoves

\* Shaparak looks the payment of the row up.
LEMMA CallVerifyKeepsInv ==
  ASSUME Inv, NEW v \in Verifications, CallVerify(v) PROVE Inv'
<1> DEFINE tx == verifier[v].tx
           ref == txReference[tx]
<1>1. /\ verifier[v].pc = "asking"
      /\ UNCHANGED <<gateway, psp, cardStatus, transactionOf, records, paid, callback>>
      /\ \/ /\ Shaparak!Matches(ref, tx) /\ cardStatus[ref] = "SUCCESSFUL"
            /\ verification' = [verification EXCEPT ![v] = [pc |-> "paid", ref |-> ref]]
         \/ verification' = [verification EXCEPT ![v] = [pc |-> "refused", ref |-> ref]]
  BY DEF CallVerify, Shaparak!VerifyRead, Shaparak!rows
<1>2. tx \in Transactions /\ ref \in References
  BY <1>1 DEF Inv, TypeOK, VerifyInv
<1>3. cardStatus[ref] = "SUCCESSFUL" => ref \in paid
  BY <1>2 DEF Inv, CardInv
<1> HIDE DEF tx, ref
<1>4. /\ verification' \in [Verifications -> [pc : AnswerPc, ref : Reference]]
      /\ \A x \in Verifications \ {v} : verification'[x] = verification[x]
      /\ verification'[v].ref = ref
      /\ \/ verification'[v].pc = "paid" /\ ref \in paid
         \/ verification'[v].pc = "refused"
  <2>1. ref \in Reference /\ "paid" \in AnswerPc /\ "refused" \in AnswerPc
    BY <1>2 DEF Reference, AnswerPc
  <2>2. verification \in [Verifications -> [pc : AnswerPc, ref : Reference]]
    BY HandlersTyped
  <2>3. CASE /\ cardStatus[ref] = "SUCCESSFUL"
             /\ verification' = [verification EXCEPT ![v] = [pc |-> "paid", ref |-> ref]]
    BY <1>3, <2>1, <2>2, <2>3
  <2>4. CASE verification' = [verification EXCEPT ![v] = [pc |-> "refused", ref |-> ref]]
    BY <2>1, <2>2, <2>4
  <2>5. QED
    BY <1>1, <2>3, <2>4
<1>5. OthersTyped'
  BY <1>1, <1>4 DEF Inv, OthersTyped, psp
<1>6. TypeOK' /\ \A t \in Transactions : TxInv(t)'
  BY <1>1, TransactionsKept DEF psp
<1>7. \A r \in References : CardInv(r)'
  BY <1>1 DEF Inv, CardInv
<1>8. ASSUME NEW x \in Verifications PROVE VerifyInv(x)'
  <2>1. CASE x # v
    BY <1>1, <1>4, <2>1, VerificationKept
  <2>2. CASE x = v
    <3>1. VerifyInv(v)
      BY DEF Inv
    <3>2. /\ verifier' = verifier /\ txReference' = txReference /\ paid' = paid
          /\ settleReply' = settleReply /\ txStatus' = txStatus
      BY <1>1 DEF gateway
    <3>3. tx = verifier[v].tx /\ ref = txReference[tx] /\ tx # None
      BY <1>2, SystemAssumption DEF tx, ref
    <3>4. verification'[v].pc # "verified"
      BY <1>4
    <3>5. QED
      BY <1>1, <1>4, <2>2, <3>1, <3>2, <3>3, <3>4 DEF VerifyInv, Confirmed
  <2>3. QED
    BY <2>1, <2>2
<1>9. QED
  BY <1>5, <1>6, <1>7, <1>8 DEF Inv

\* The answers of Shaparak and of the bank take a verification on.
LEMMA AnswersKeepInv ==
  ASSUME Inv, NEW v \in Verifications, ShaparakAnswers(v) \/ BankReplies(v)
  PROVE  Inv'
<1>1. /\ UNCHANGED <<txStatus, txReference, initiator, canceller, psp, shaparak>>
      /\ verifier[v].pc \in {"asking", "settling"}
      /\ \/ /\ verifier' = [verifier EXCEPT ![v].pc = "settling"]
            /\ verification[v].pc = "verified" /\ settleReply' = settleReply
         \/ /\ verifier' = [verifier EXCEPT ![v].pc = "refusing"]
            /\ settleReply' = settleReply
         \/ /\ verifier' = [verifier EXCEPT ![v].pc = "succeeding"]
            /\ verifier[v].pc = "settling"
            /\ \E said \in {"settled", "notFound"} :
                 settleReply' = [settleReply EXCEPT ![v] = said]
  <2>1. CASE ShaparakAnswers(v)
    BY <2>1 DEF ShaparakAnswers, Gateway!VerifyAnswered, Gateway!VerifyErrored,
       Gateway!Verifier, Gateway!txRows
  <2>2. CASE BankReplies(v)
    BY <2>2 DEF BankReplies, Gateway!VerifySettled, Gateway!VerifyErrored,
       Gateway!Verifier, Gateway!txRows
  <2>3. QED
    BY <2>1, <2>2
<1>2. /\ "settling" \in VerifierPc /\ "refusing" \in VerifierPc
      /\ "succeeding" \in VerifierPc
  BY DEF VerifierPc
<1>3. /\ verifier' \in [Verifications ->
           [pc : VerifierPc, tx : Transactions \cup {None}]]
      /\ \A x \in Verifications : verifier'[x].tx = verifier[x].tx
      /\ \A x \in Verifications \ {v} : verifier'[x] = verifier[x]
      /\ verifier'[v].pc \in {"settling", "refusing", "succeeding"}
      /\ verifier'[v].pc = "settling" => verification[v].pc = "verified"
      /\ verifier'[v].pc = "succeeding" => verifier[v].pc = "settling"
  BY <1>1, <1>2, VerifierTo
<1>4. /\ settleReply' \in [Verifications -> {"none", "settled", "notFound"}]
      /\ \A x \in Verifications \ {v} : settleReply'[x] = settleReply[x]
      /\ settleReply[v] # "none" => settleReply'[v] # "none"
      /\ verifier'[v].pc = "succeeding" => settleReply'[v] # "none"
  <2>1. settleReply \in [Verifications -> {"none", "settled", "notFound"}]
    BY DEF Inv, TypeOK
  <2>2. CASE settleReply' = settleReply /\ verifier'[v].pc # "succeeding"
    BY <2>1, <2>2
  <2>3. CASE \E said \in {"settled", "notFound"} :
               settleReply' = [settleReply EXCEPT ![v] = said]
    BY <2>1, <2>3
  <2>4. QED
    <3>1. "settling" # "succeeding" /\ "refusing" # "succeeding"
      OBVIOUS
    <3>2. CASE verifier' = [verifier EXCEPT ![v].pc = "settling"]
      BY <1>1, <1>2, <2>2, <2>3, <3>1, <3>2, VerifierTo
    <3>3. CASE verifier' = [verifier EXCEPT ![v].pc = "refusing"]
      BY <1>1, <1>2, <2>2, <2>3, <3>1, <3>3, VerifierTo
    <3>4. QED
      BY <1>1, <2>3, <3>2, <3>3
<1>5. TypeOK'
  BY <1>1, <1>3, <1>4 DEF Inv, TypeOK, VerifierPc
<1>6. VerifyInv(v)'
  <2>1. VerifyInv(v) /\ verifier[v].tx # None
    BY <1>1 DEF Inv, VerifyInv
  <2>2. /\ txReference' = txReference /\ verification' = verification
        /\ paid' = paid /\ records' = records
    BY <1>1 DEF shaparak
  <2>3. QED
    BY <1>3, <1>4, <2>1, <2>2 DEF VerifyInv
<1>7. \A t \in Transactions : txStatus'[t] = txStatus[t]
  BY <1>1
<1>8. QED
  BY <1>1, <1>3, <1>4, <1>5, <1>6, <1>7, VerifierMoves
-----------------------------------------------------------------------------
(* Steps of the gateway                                                    *)

\* The last step of initiatePayment writes the reference that the PSP gave.
LEMMA InitiateKeepsInv ==
  ASSUME Inv, NEW t \in Transactions, Gateway!GatewayInitiate(t),
         UNCHANGED <<psp, shaparak>>
  PROVE  Inv'
<1>1. /\ UNCHANGED <<verifier, canceller, settleReply>>
      /\ initiator' = [initiator EXCEPT ![t].pc = "ended"]
      /\ \/ /\ initiator[t].pc = "updating"
            /\ \/ UNCHANGED <<txStatus, txReference>>
               \/ /\ txStatus' = [txStatus EXCEPT ![t] = "PROCESSING"]
                  /\ \/ txReference' = txReference
                     \/ /\ initiator[t].ref # None
                        /\ txReference' = [txReference EXCEPT ![t] = initiator[t].ref]
         \/ /\ initiator[t].pc = "failing"
            /\ txStatus' = [txStatus EXCEPT ![t] = "FAILED"]
            /\ txReference' = txReference
  <2>1. CASE Gateway!InitiateUpdate(t)
    BY <2>1 DEF Gateway!InitiateUpdate, Gateway!Initiator
  <2>2. CASE Gateway!InitiateFail(t)
    BY <2>2 DEF Gateway!InitiateFail, Gateway!Initiator, Gateway!UpdateStatus
  <2>3. QED
    BY <2>1, <2>2 DEF Gateway!GatewayInitiate
<1>2. "ended" \in InitiatorPc
  BY DEF InitiatorPc
<1>3. /\ initiator' \in [Transactions -> [pc : InitiatorPc, ref : Reference]]
      /\ initiator'[t].pc = "ended"
      /\ \A u \in Transactions \ {t} : initiator'[u] = initiator[u]
  BY <1>1, <1>2, InitiatorTo
<1>4. TxInv(t) /\ initiator[t].ref \in Reference /\ t # None
  BY SystemAssumption, HandlersTyped DEF Inv
<1>5. txReference[t] = None /\ txStatus[t] # "SUCCESSFUL"
  BY <1>1, <1>4 DEF TxInv
<1>6. /\ txStatus' \in [Transactions -> Gateway!TxStatus]
      /\ txStatus'[t] # "SUCCESSFUL"
      /\ \A u \in Transactions \ {t} : txStatus'[u] = txStatus[u]
  BY <1>1, <1>5 DEF Inv, TypeOK, Gateway!TxStatus
<1>7. /\ txReference' \in [Transactions -> Reference]
      /\ \A u \in Transactions \ {t} : txReference'[u] = txReference[u]
      /\ txReference'[t] # None =>
           initiator[t].pc = "updating" /\ txReference'[t] = initiator[t].ref
  <2>1. txReference \in [Transactions -> Reference]
    BY DEF Inv, TypeOK, Reference
  <2>2. CASE txReference' = txReference
    BY <1>5, <2>1, <2>2
  <2>3. CASE /\ initiator[t].pc = "updating"
             /\ txReference' = [txReference EXCEPT ![t] = initiator[t].ref]
    BY <1>4, <2>1, <2>3
  <2>4. QED
    BY <1>1, <2>2, <2>3
<1>8. TypeOK'
  BY <1>1, <1>3, <1>6, <1>7 DEF Inv, TypeOK, Reference, InitiatorPc
<1>9. OthersTyped'
  BY DEF Inv, OthersTyped, psp, shaparak
<1>10. processor' = processor /\ transactionOf' = transactionOf
  BY DEF psp, shaparak
<1>11. TxInv(t)'
  BY <1>3, <1>4, <1>6, <1>7, <1>10 DEF TxInv
<1>12. QED
  BY <1>1, <1>3, <1>5, <1>6, <1>7, <1>8, <1>9, <1>10, <1>11, InitiatorMoves

\* verifyPayment takes a row that has its reference.
LEMMA VerifyFindKeepsInv ==
  ASSUME Inv, NEW v \in Verifications, NEW ref \in References,
         Gateway!VerifyFind(v, ref), UNCHANGED <<psp, shaparak>>
  PROVE  Inv'
<1>1. /\ verifier[v].pc = "idle"
      /\ UNCHANGED <<txStatus, txReference, settleReply, initiator, canceller>>
      /\ \/ verifier' = [verifier EXCEPT ![v].pc = "ended"]
         \/ \E t \in Transactions :
              /\ txReference[t] = ref
              /\ verifier' = [verifier EXCEPT ![v] = [pc |-> "asking", tx |-> t]]
  BY DEF Gateway!VerifyFind, Gateway!Verifier, Gateway!txRows
<1>2. VerifyInv(v) /\ verifier[v].tx = None /\ None \notin Transactions \cup References
  BY <1>1, SystemAssumption DEF Inv, VerifyInv
<1>3. /\ verifier' \in [Verifications ->
           [pc : VerifierPc, tx : Transactions \cup {None}]]
      /\ \A x \in Verifications \ {v} : verifier'[x] = verifier[x]
      /\ \/ verifier'[v].pc = "ended" /\ verifier'[v].tx = None
         \/ /\ verifier'[v].pc = "asking" /\ verifier'[v].tx # None
            /\ txReference[verifier'[v].tx] = ref
  <2>1. "ended" \in VerifierPc /\ "asking" \in VerifierPc
    BY DEF VerifierPc
  <2>2. CASE verifier' = [verifier EXCEPT ![v].pc = "ended"]
    BY <1>2, <2>1, <2>2, VerifierTo
  <2>3. ASSUME NEW t \in Transactions, txReference[t] = ref,
               verifier' = [verifier EXCEPT ![v] = [pc |-> "asking", tx |-> t]]
        PROVE  /\ verifier' \in [Verifications ->
                    [pc : VerifierPc, tx : Transactions \cup {None}]]
               /\ \A x \in Verifications \ {v} : verifier'[x] = verifier[x]
               /\ verifier'[v].pc = "asking" /\ verifier'[v].tx = t
    <3>1. verifier \in [Verifications ->
            [pc : VerifierPc, tx : Transactions \cup {None}]]
      BY HandlersTyped
    <3>2. QED
      BY <1>2, <2>1, <2>3, <3>1
  <2>4. QED
    BY <1>1, <1>2, <2>2, <2>3
<1>4. TypeOK'
  BY <1>1, <1>3 DEF Inv, TypeOK, VerifierPc
<1>5. VerifyInv(v)'
  <2>1. /\ verification' = verification /\ paid' = paid /\ records' = records
        /\ txReference' = txReference
    BY <1>1 DEF shaparak
  <2>2. verification[v].pc \notin Confirmed /\ "verified" \in Confirmed
    BY <1>2 DEF VerifyInv, Confirmed
  <2>3. ref # None
    BY <1>2
  <2>4. QED
    BY <1>3, <2>1, <2>2, <2>3 DEF VerifyInv
<1>6. \A t \in Transactions : txStatus'[t] = txStatus[t]
  BY <1>1
<1>7. QED
  BY <1>1, <1>2, <1>3, <1>4, <1>5, <1>6, VerifierMoves

\* verifyPayment writes its result.
LEMMA VerifyWriteKeepsInv ==
  ASSUME Inv, NEW v \in Verifications, Gateway!GatewayVerify(v),
         UNCHANGED <<psp, shaparak>>
  PROVE  Inv'
<1> DEFINE tx == verifier[v].tx
<1>1. /\ UNCHANGED <<txReference, settleReply, initiator, canceller>>
      /\ verifier' = [verifier EXCEPT ![v].pc = "decided"]
      /\ \/ /\ verifier[v].pc = "succeeding"
            /\ txStatus' = [txStatus EXCEPT ![tx] = "SUCCESSFUL"]
         \/ /\ verifier[v].pc = "refusing"
            /\ txStatus' = [txStatus EXCEPT ![tx] = "FAILED"]
  <2>1. CASE Gateway!VerifySucceed(v)
    BY <2>1 DEF Gateway!VerifySucceed, Gateway!Verifier, Gateway!UpdateStatus
  <2>2. CASE Gateway!VerifyRefuse(v)
    BY <2>2 DEF Gateway!VerifyRefuse, Gateway!Verifier, Gateway!UpdateStatus
  <2>3. QED
    BY <2>1, <2>2 DEF Gateway!GatewayVerify
<1>2. VerifyInv(v) /\ tx \in Transactions /\ txReference[tx] # None /\ tx # None
  BY <1>1, SystemAssumption DEF Inv, TypeOK, VerifyInv
<1>3. "decided" \in VerifierPc
  BY DEF VerifierPc
<1>4. /\ verifier' \in [Verifications ->
           [pc : VerifierPc, tx : Transactions \cup {None}]]
      /\ verifier'[v].pc = "decided" /\ verifier'[v].tx = tx
      /\ \A x \in Verifications \ {v} : verifier'[x] = verifier[x]
  BY <1>1, <1>3, VerifierTo
<1>5. verifier[v].pc = "succeeding" =>
        /\ txReference[tx] \in paid /\ records[txReference[tx]] > 0
        /\ settleReply[v] # "none"
  BY <1>2 DEF VerifyInv, Confirmed
<1> HIDE DEF tx
<1>6. /\ txStatus' \in [Transactions -> Gateway!TxStatus]
      /\ txStatus'[tx] \in {"SUCCESSFUL", "FAILED"}
      /\ txStatus'[tx] = "SUCCESSFUL" => verifier[v].pc = "succeeding"
      /\ \A t \in Transactions \ {tx} : txStatus'[t] = txStatus[t]
  BY <1>1, <1>2 DEF Inv, TypeOK, Gateway!TxStatus, tx
<1>7. TypeOK'
  BY <1>1, <1>4, <1>6 DEF Inv, TypeOK, VerifierPc
<1>8. \A t \in Transactions :
        \/ txStatus'[t] = txStatus[t]
        \/ txStatus'[t] = "FAILED"
        \/ /\ txStatus'[t] = "SUCCESSFUL"
           /\ txReference[t] # None /\ txReference[t] \in paid
           /\ records[txReference[t]] > 0
           /\ verifier'[v].tx = t /\ settleReply'[v] # "none"
  <2>1. ASSUME NEW t \in Transactions \ {tx} PROVE txStatus'[t] = txStatus[t]
    BY <1>6
  <2>2. \/ txStatus'[tx] = "FAILED"
        \/ /\ txStatus'[tx] = "SUCCESSFUL"
           /\ txReference[tx] # None /\ txReference[tx] \in paid
           /\ records[txReference[tx]] > 0
           /\ verifier'[v].tx = tx /\ settleReply'[v] # "none"
    BY <1>1, <1>2, <1>4, <1>5, <1>6
  <2>3. QED
    BY <2>1, <2>2
<1>9. VerifyInv(v)'
  <2>1. /\ verification' = verification /\ paid' = paid /\ records' = records
        /\ txReference' = txReference /\ tx = verifier[v].tx
    BY <1>1 DEF shaparak, tx
  <2>2. txStatus'[tx] \in Gateway!FinalTxStatus
    BY <1>6 DEF Gateway!FinalTxStatus
  <2>3. QED
    BY <1>2, <1>4, <2>1, <2>2 DEF VerifyInv
<1>10. verifier'[v].tx = verifier[v].tx /\ settleReply' = settleReply
  BY <1>1, <1>4 DEF tx
<1>11. QED
  BY <1>1, <1>4, <1>7, <1>8, <1>9, <1>10, VerifierMoves

\* A cancellation writes over whatever the row says by now.
LEMMA CancelKeepsInv ==
  ASSUME Inv, NEW k \in Cancellations,
         (\E t \in Transactions : Gateway!CancelRead(k, t)) \/ Gateway!CancelWrite(k),
         UNCHANGED <<psp, shaparak>>
  PROVE  Inv'
<1> DEFINE CancelPc == {"idle", "checked", "ended"}
           Type == [Cancellations -> [pc : CancelPc, tx : Transactions \cup {None}]]
<1>1. /\ UNCHANGED <<txReference, initiator, verifier, settleReply>>
      /\ \/ canceller' = [canceller EXCEPT ![k].pc = "ended"]
         \/ \E t \in Transactions :
              canceller' = [canceller EXCEPT ![k] = [pc |-> "checked", tx |-> t]]
      /\ \/ txStatus' = txStatus
         \/ txStatus' = [txStatus EXCEPT ![canceller[k].tx] = "CANCELLED"]
  BY DEF Gateway!CancelRead, Gateway!CancelWrite, Gateway!Canceller,
     Gateway!UpdateStatus, Gateway!txRows
<1>2. canceller' \in Type
  <2>1. canceller \in Type /\ "ended" \in CancelPc /\ "checked" \in CancelPc
    BY DEF Inv, TypeOK
  <2> HIDE DEF CancelPc
  <2>2. CASE canceller' = [canceller EXCEPT ![k].pc = "ended"]
    BY <2>1, <2>2, TxKept
  <2>3. CASE \E t \in Transactions :
               canceller' = [canceller EXCEPT ![k] = [pc |-> "checked", tx |-> t]]
    BY <2>1, <2>3
  <2>4. QED
    BY <1>1, <2>2, <2>3
<1>3. /\ txStatus' \in [Transactions -> Gateway!TxStatus]
      /\ \A t \in Transactions : txStatus'[t] \in {txStatus[t], "CANCELLED"}
  BY <1>1 DEF Inv, TypeOK, Gateway!TxStatus
<1>4. TypeOK'
  BY <1>1, <1>2, <1>3 DEF Inv, TypeOK
<1>5. QED
  BY <1>1, <1>3, <1>4, CallsEnd

\* A failing database call or a crash of the gateway.
LEMMA GatewayFaultKeepsInv ==
  ASSUME Inv, Gateway!GatewayError \/ Gateway!GatewayCrash,
         UNCHANGED <<psp, shaparak>>
  PROVE  Inv'
<1> DEFINE CancelPc == {"idle", "checked", "ended"}
           Type == [Cancellations -> [pc : CancelPc, tx : Transactions \cup {None}]]
<1>0. /\ initiator \in [Transactions -> [pc : InitiatorPc, ref : Reference]]
      /\ verifier \in [Verifications ->
           [pc : VerifierPc, tx : Transactions \cup {None}]]
      /\ canceller \in Type
      /\ "ended" \in InitiatorPc /\ "ended" \in VerifierPc /\ "ended" \in CancelPc
  BY HandlersTyped DEF Inv, TypeOK, InitiatorPc, VerifierPc
<1> HIDE DEF CancelPc
<1>1. UNCHANGED <<txStatus, txReference, settleReply>>
  BY DEF Gateway!GatewayError, Gateway!GatewayCrash, Gateway!txRows
<1>2. /\ initiator' \in [Transactions -> [pc : InitiatorPc, ref : Reference]]
      /\ \A t \in Transactions :
           /\ initiator'[t].pc \in {initiator[t].pc, "ended"}
           /\ initiator'[t].ref = initiator[t].ref
  <2>1. CASE initiator' = initiator
    BY <1>0, <2>1
  <2>2. CASE \E t \in Transactions : initiator' = [initiator EXCEPT ![t].pc = "ended"]
    BY <1>0, <2>2, InitiatorTo
  <2>3. CASE Gateway!GatewayCrash
    <3>1. initiator' = [t \in Transactions |->
            IF initiator[t].pc \in {"idle", "decided"} THEN initiator[t]
            ELSE [initiator[t] EXCEPT !.pc = "ended"]]
      BY <2>3 DEF Gateway!GatewayCrash
    <3>2. QED
      BY <1>0, <3>1
  <2>4. QED
    BY <2>1, <2>2, <2>3 DEF Gateway!GatewayError
<1>3. /\ verifier' \in [Verifications ->
           [pc : VerifierPc, tx : Transactions \cup {None}]]
      /\ \A v \in Verifications :
           /\ verifier'[v].pc \in {verifier[v].pc, "ended"}
           /\ verifier'[v].tx = verifier[v].tx
  <2>1. CASE verifier' = verifier
    BY <1>0, <2>1
  <2>2. CASE \E v \in Verifications : verifier' = [verifier EXCEPT ![v].pc = "ended"]
    BY <1>0, <2>2, VerifierTo
  <2>3. CASE Gateway!GatewayCrash
    <3>1. verifier' = [v \in Verifications |->
            IF verifier[v].pc \in {"idle", "decided"} THEN verifier[v]
            ELSE [verifier[v] EXCEPT !.pc = "ended"]]
      BY <2>3 DEF Gateway!GatewayCrash
    <3>2. QED
      BY <1>0, <3>1
  <2>4. QED
    BY <2>1, <2>2, <2>3 DEF Gateway!GatewayError
<1>4. canceller' \in Type
  <2>1. CASE canceller' = canceller
    BY <1>0, <2>1
  <2>2. CASE \E k \in Cancellations : canceller' = [canceller EXCEPT ![k].pc = "ended"]
    <3>1. PICK k \in Cancellations : canceller' = [canceller EXCEPT ![k].pc = "ended"]
      BY <2>2
    <3>2. canceller \in Type /\ "ended" \in CancelPc
      BY <1>0
    <3>3. QED
      BY <3>1, <3>2, TxKept
  <2>3. CASE Gateway!GatewayCrash
    <3>1. canceller' = [k \in Cancellations |->
            IF canceller[k].pc \in {"idle", "decided"} THEN canceller[k]
            ELSE [canceller[k] EXCEPT !.pc = "ended"]]
      BY <2>3 DEF Gateway!GatewayCrash
    <3>2. QED
      BY <1>0, <3>1
  <2>4. QED
    BY <2>1, <2>2, <2>3 DEF Gateway!GatewayError
<1>5. TypeOK'
  BY <1>1, <1>2, <1>3, <1>4 DEF Inv, TypeOK, Reference, InitiatorPc, VerifierPc,
     CancelPc
<1>6. QED
  BY <1>1, <1>2, <1>3, <1>5, CallsEnd

\* What the gateway does between its calls keeps the invariant.
LEMMA GatewayStepKeepsInv ==
  ASSUME Inv, Gateway!GatewayStep, UNCHANGED <<psp, shaparak>>
  PROVE  Inv'
BY InitiateKeepsInv, VerifyFindKeepsInv, VerifyWriteKeepsInv, CancelKeepsInv,
   GatewayFaultKeepsInv DEF Gateway!GatewayStep

-----------------------------------------------------------------------------
(* Steps of the PSP                                                        *)

\* What the PSP does between its calls keeps the invariant.
LEMMA PspStepKeepsInv ==
  ASSUME Inv, Psp!PspStep, UNCHANGED <<gateway, shaparak>>
  PROVE  Inv'
<1> DEFINE Given == {"finding", "saving", "accepted"}
           Kept == \A t \in Transactions : processor'[t].pc \in Given =>
                     processor[t].pc \in Given /\ processor'[t].ref = processor[t].ref
           Moved == /\ processor' \in [Transactions -> [pc : ProcessorPc, ref : Reference]]
                    /\ pspReference' \in [Known -> Reference]
                    /\ Kept
<1>0. /\ processor \in [Transactions -> [pc : ProcessorPc, ref : Reference]]
      /\ pspReference \in [Known -> Reference]
  BY HandlersTyped DEF Inv, OthersTyped
<1>1. ASSUME NEW t \in Transactions, Psp!PspProcess(t) PROVE Moved
  <2>1. \/ pspReference' = pspReference
        \/ pspReference' = [pspReference EXCEPT ![t] = processor[t].ref]
    BY <1>1 DEF Psp!PspProcess, Psp!ProcessReject, Psp!ProcessAttempt,
       Psp!ProcessFind, Psp!ProcessSave, Psp!ProcessFail, Psp!ProcessMarkFind,
       Psp!ProcessMark, Psp!SaveRow, Psp!pspRows
  <2>2. pspReference' \in [Known -> Reference]
    BY <1>0, <2>1
  <2>3. \/ \E to \in ProcessorPc :
             /\ processor' = [processor EXCEPT ![t].pc = to]
             /\ to \in Given => processor[t].pc \in Given
        \/ /\ t \in Known
           /\ processor' = [processor EXCEPT
                ![t] = [pc |-> "markingSave", ref |-> pspReference[t]]]
    BY <1>1 DEF Psp!PspProcess, Psp!ProcessReject, Psp!ProcessAttempt,
       Psp!ProcessFind, Psp!ProcessSave, Psp!ProcessFail, Psp!ProcessMarkFind,
       Psp!ProcessMark, Psp!Processor, ProcessorPc
  <2>4. CASE \E to \in ProcessorPc :
               /\ processor' = [processor EXCEPT ![t].pc = to]
               /\ to \in Given => processor[t].pc \in Given
    <3>1. PICK to \in ProcessorPc :
            /\ processor' = [processor EXCEPT ![t].pc = to]
            /\ to \in Given => processor[t].pc \in Given
      BY <2>4
    <3> HIDE DEF Given
    <3>2. QED
      BY <2>2, <3>1, ProcessorTo
  <2>5. CASE /\ t \in Known
             /\ processor' = [processor EXCEPT
                  ![t] = [pc |-> "markingSave", ref |-> pspReference[t]]]
    <3>1. "markingSave" \in ProcessorPc /\ pspReference[t] \in Reference
      BY <1>0, <2>5 DEF ProcessorPc
    <3>2. processor' \in [Transactions -> [pc : ProcessorPc, ref : Reference]]
      BY <1>0, <2>5, <3>1
    <3>3. /\ processor'[t].pc = "markingSave"
          /\ \A u \in Transactions \ {t} : processor'[u] = processor[u]
      BY <1>0, <2>5
    <3>4. QED
      BY <2>2, <3>2, <3>3
  <2>6. QED
    BY <2>3, <2>4, <2>5
<1>2. ASSUME Psp!PspError PROVE Moved
  <2>1. /\ pspReference' = pspReference
        /\ \/ processor' = processor
           \/ \E t \in Transactions, to \in {"failing", "errored"} :
                processor' = [processor EXCEPT ![t].pc = to]
    BY <1>2 DEF Psp!PspError, Psp!pspRows
  <2>2. CASE processor' = processor
    BY <1>0, <2>1, <2>2
  <2>3. CASE \E t \in Transactions, to \in {"failing", "errored"} :
               processor' = [processor EXCEPT ![t].pc = to]
    <3>1. PICK t \in Transactions, to \in {"failing", "errored"} :
            processor' = [processor EXCEPT ![t].pc = to]
      BY <2>3
    <3>2. to \in ProcessorPc /\ to \notin Given
      BY DEF ProcessorPc
    <3> HIDE DEF Given
    <3>3. QED
      BY <1>0, <2>1, <3>1, <3>2, ProcessorTo
  <2>4. QED
    BY <2>1, <2>2, <2>3
<1>3. ASSUME Psp!PspCrash PROVE Moved
  <2>1. /\ pspReference' = pspReference
        /\ processor' = [t \in Transactions |->
             IF processor[t].pc \in {"idle", "accepted", "rejected", "errored"}
             THEN processor[t] ELSE [processor[t] EXCEPT !.pc = "lost"]]
    BY <1>3 DEF Psp!PspCrash, Psp!pspRows
  <2>2. "lost" \in ProcessorPc
    BY DEF ProcessorPc
  <2>3. processor' \in [Transactions -> [pc : ProcessorPc, ref : Reference]]
    BY <1>0, <2>1, <2>2
  <2>4. Kept
    BY <1>0, <2>1
  <2>5. QED
    BY <1>0, <2>1, <2>3, <2>4
<1>4. Moved
  BY <1>1, <1>2, <1>3 DEF Psp!PspStep
<1>5. OthersTyped'
  BY <1>4 DEF Inv, OthersTyped, shaparak
<1>6. QED
  BY <1>4, <1>5, PspMoves

-----------------------------------------------------------------------------
(* Steps of Shaparak                                                       *)

\* Steps that write neither the status nor the verification of a payment.
LEMMA ShaparakQuiet ==
  ASSUME Inv, UNCHANGED <<gateway, psp, cardStatus, transactionOf, records,
                          verification, paid>>,
         callback' \in [Callbacks ->
           [pc : {"idle", "read", "saved", "done", "refused", "failed", "lost"},
            ref : Reference, outcome : Shaparak!Outcomes]]
  PROVE  Inv'
<1>1. OthersTyped'
  BY DEF Inv, OthersTyped, psp
<1>2. TypeOK' /\ \A t \in Transactions : TxInv(t)'
  BY TransactionsKept DEF psp
<1>3. \A ref \in References : CardInv(ref)'
  BY DEF Inv, CardInv
<1>4. \A v \in Verifications : VerifyInv(v)'
  BY VerificationKept
<1>5. QED
  BY <1>1, <1>2, <1>3, <1>4 DEF Inv

\* The callback that reports the result saves it over any status, except that
\* no status is ever NONE again; what was paid stays paid.
LEMMA CallbackKeepsInv ==
  ASSUME Inv, NEW c \in Callbacks,
         \/ \E ref \in References, t \in Transactions,
               outcome \in Shaparak!Outcomes :
              Shaparak!CallbackRead(c, ref, t, outcome)
         \/ Shaparak!CardCallback(c),
         UNCHANGED <<gateway, psp>>
  PROVE  Inv'
<1> DEFINE CallbackPc == {"idle", "read", "saved", "done", "refused", "failed", "lost"}
           Type == [Callbacks -> [pc : CallbackPc, ref : Reference,
                                  outcome : Shaparak!Outcomes]]
           ref == callback[c].ref
           outcome == callback[c].outcome
<1>0. /\ callback \in Type
      /\ {"refused", "saved", "done", "read"} \subseteq CallbackPc
      /\ References \subseteq Reference
  BY DEF Inv, OthersTyped, Reference
<1> HIDE DEF CallbackPc
<1>1. ref \in Reference /\ outcome \in Shaparak!Outcomes
  BY <1>0
<1>2. ASSUME NEW r \in References, NEW t \in Transactions,
             NEW o \in Shaparak!Outcomes, Shaparak!CallbackRead(c, r, t, o)
      PROVE  Inv'
  <2>1. /\ UNCHANGED <<cardStatus, transactionOf, records, paid, verification>>
        /\ \/ callback' = [callback EXCEPT ![c].pc = "refused"]
           \/ callback' = [callback EXCEPT
                ![c] = [pc |-> "read", ref |-> r, outcome |-> o]]
    BY <1>2 DEF Shaparak!CallbackRead, Shaparak!Callback, Shaparak!rows
  <2>2. callback' \in Type
    <3>1. CASE callback' = [callback EXCEPT ![c].pc = "refused"]
      BY <1>0, <3>1, OutcomeKept
    <3>2. CASE callback' = [callback EXCEPT
                 ![c] = [pc |-> "read", ref |-> r, outcome |-> o]]
      BY <1>0, <3>2
    <3>3. QED
      BY <2>1, <3>1, <3>2
  <2>3. QED
    BY <2>1, <2>2, ShaparakQuiet DEF CallbackPc
<1>3. CASE Shaparak!CallbackSave(c)
  <2>1. /\ callback' = [callback EXCEPT ![c].pc = "saved"]
        /\ cardStatus' = [cardStatus EXCEPT ![ref] = outcome]
        /\ paid' = IF outcome = "SUCCESSFUL" THEN paid \cup {ref} ELSE paid
        /\ UNCHANGED <<transactionOf, records, verification>>
    BY <1>3 DEF Shaparak!CallbackSave, Shaparak!Callback
  <2>2. callback' \in Type
    BY <1>0, <2>1, OutcomeKept
  <2> HIDE DEF ref, outcome
  <2>3. cardStatus' \in [References -> Shaparak!CardStatus]
    BY <1>1, <2>1 DEF Inv, OthersTyped, Shaparak!CardStatus, Shaparak!Outcomes
  <2>4. IsFiniteSet(paid') /\ paid \subseteq paid'
    BY <2>1, FS_AddElement DEF Inv, OthersTyped
  <2>5. OthersTyped'
    BY <2>1, <2>2, <2>3, <2>4 DEF Inv, OthersTyped, psp, CallbackPc
  <2>6. TypeOK' /\ \A t \in Transactions : TxInv(t)'
    BY <2>1, <2>4, TransactionsKept DEF psp
  <2>7. ASSUME NEW r \in References PROVE CardInv(r)'
    <3>1. CardInv(r) /\ cardStatus \in [References -> Shaparak!CardStatus]
      BY DEF Inv, OthersTyped
    <3>2. CASE r = ref
      BY <1>1, <2>1, <3>1, <3>2 DEF CardInv, Shaparak!Outcomes
    <3>3. CASE r # ref
      BY <2>1, <2>4, <3>1, <3>3 DEF CardInv
    <3>4. QED
      BY <3>2, <3>3
  <2>8. \A v \in Verifications : VerifyInv(v)'
    BY <2>1, <2>4, VerificationKept
  <2>9. QED
    BY <2>5, <2>6, <2>7, <2>8 DEF Inv
<1>4. CASE Shaparak!CallbackRecord(c)
  <2>1. /\ callback' = [callback EXCEPT ![c].pc = "done"]
        /\ records' = [records EXCEPT ![ref] = @ + 1]
        /\ UNCHANGED <<cardStatus, transactionOf, paid, verification>>
    BY <1>4 DEF Shaparak!CallbackRecord, Shaparak!Callback
  <2>2. callback' \in Type
    BY <1>0, <2>1, OutcomeKept
  <2> HIDE DEF ref, outcome
  <2>3. /\ records' \in [References -> Nat]
        /\ \A r \in References : records[r] > 0 => records'[r] > 0
    <3>1. /\ records \in [References -> Nat]
          /\ records' = [records EXCEPT ![ref] = @ + 1]
      BY <2>1 DEF Inv, OthersTyped
    <3>2. records' \in [References -> Nat]
      <4>1. CASE ref \in References
        BY <3>1, <4>1
      <4>2. CASE ref \notin References
        BY <3>1, <4>2
      <4>3. QED
        BY <4>1, <4>2
    <3>3. ASSUME NEW r \in References PROVE records[r] > 0 => records'[r] > 0
      <4>1. records[r] \in Nat /\ records'[r] \in {records[r], records[r] + 1}
        BY <3>1
      <4>2. QED
        BY <4>1
    <3>4. QED
      BY <3>2, <3>3
  <2>4. OthersTyped'
    BY <2>1, <2>2, <2>3 DEF Inv, OthersTyped, psp, CallbackPc
  <2>5. TypeOK' /\ \A t \in Transactions : TxInv(t)'
    BY <2>1, <2>3, TransactionsKept DEF psp
  <2>6. \A r \in References : CardInv(r)'
    BY <2>1 DEF Inv, CardInv
  <2>7. \A v \in Verifications : VerifyInv(v)'
    BY <2>1, <2>3, VerificationKept
  <2>8. QED
    BY <2>4, <2>5, <2>6, <2>7 DEF Inv
<1>5. QED
  BY <1>2, <1>3, <1>4 DEF Shaparak!CardCallback

\* verifyPayment of Shaparak confirms with a record.
LEMMA CardVerifyKeepsInv ==
  ASSUME Inv, NEW v \in Verifications, Shaparak!CardVerify(v),
         UNCHANGED <<gateway, psp>>
  PROVE  Inv'
<1> DEFINE ref == verification[v].ref
<1>1. /\ UNCHANGED <<cardStatus, transactionOf, paid, callback>>
      /\ verification[v].pc \in {"paid", "recording"}
      /\ \/ /\ verification' = [verification EXCEPT ![v].pc = "recording"]
            /\ records' = records
         \/ /\ verification' = [verification EXCEPT ![v].pc = "verified"]
            /\ records' = records /\ records[ref] # 0
         \/ /\ verification' = [verification EXCEPT ![v].pc = "verified"]
            /\ records' = [records EXCEPT ![ref] = @ + 1]
  <2>1. CASE Shaparak!VerifyLookUp(v)
    BY <2>1 DEF Shaparak!VerifyLookUp, Shaparak!Verification, Shaparak!rows
  <2>2. CASE Shaparak!VerifyRecord(v)
    BY <2>2 DEF Shaparak!VerifyRecord, Shaparak!Verification
  <2>3. QED
    BY <2>1, <2>2 DEF Shaparak!CardVerify
<1>2. VerifyInv(v) /\ verification[v].pc \in Confirmed
  BY <1>1 DEF Inv, Confirmed
<1>3. /\ verifier[v].tx \in Transactions /\ ref = txReference[verifier[v].tx]
      /\ ref \in References /\ ref \in paid
  <2>1. verifier[v].tx \in Transactions /\ ref = txReference[verifier[v].tx]
    BY <1>2, HandlersTyped DEF VerifyInv
  <2>2. txReference[verifier[v].tx] # None
    BY <1>2, <2>1, SystemAssumption DEF VerifyInv
  <2>3. QED
    BY <1>2, <2>1, <2>2 DEF Inv, TypeOK, VerifyInv
<1>4. "recording" \in AnswerPc /\ "verified" \in AnswerPc
  BY DEF AnswerPc
<1>5. /\ verification' \in [Verifications -> [pc : AnswerPc, ref : Reference]]
      /\ verification'[v].ref = ref
      /\ verification'[v].pc \in {"recording", "verified"}
      /\ \A x \in Verifications \ {v} : verification'[x] = verification[x]
  BY <1>1, <1>4, VerificationTo
<1> HIDE DEF ref
<1>6. /\ records' \in [References -> Nat]
      /\ \A r \in References : records[r] > 0 => records'[r] > 0
  BY <1>1 DEF Inv, OthersTyped
<1>7. verification'[v].pc = "verified" => records'[ref] > 0
  <2>1. records \in [References -> Nat] /\ records[ref] \in Nat
    BY <1>3 DEF Inv, OthersTyped
  <2>2. CASE verification' = [verification EXCEPT ![v].pc = "recording"]
    BY <1>4, <2>2, VerificationTo
  <2>3. CASE records' = records /\ records[ref] # 0
    BY <2>1, <2>3
  <2>4. CASE records' = [records EXCEPT ![ref] = @ + 1]
    BY <1>3, <2>1, <2>4
  <2>5. QED
    BY <1>1, <2>2, <2>3, <2>4
<1>8. OthersTyped'
  BY <1>1, <1>5, <1>6 DEF Inv, OthersTyped, psp
<1>9. TypeOK' /\ \A t \in Transactions : TxInv(t)'
  BY <1>1, <1>6, TransactionsKept DEF psp
<1>10. \A r \in References : CardInv(r)'
  BY <1>1 DEF Inv, CardInv
<1>11. VerifyInv(v)'
  <2>1. /\ verifier' = verifier /\ txReference' = txReference /\ paid' = paid
        /\ settleReply' = settleReply /\ txStatus' = txStatus
    BY <1>1 DEF gateway
  <2>2. verifier[v].pc \notin {"settling", "succeeding"}
    BY <1>1, <1>2 DEF VerifyInv
  <2>3. verifier[v].tx # None
    BY <1>2 DEF VerifyInv
  <2>4. QED
    BY <1>2, <1>3, <1>5, <1>7, <2>1, <2>2, <2>3 DEF VerifyInv
<1>12. \A x \in Verifications \ {v} : VerifyInv(x)'
  BY <1>1, <1>5, <1>6, VerificationKept
<1>13. QED
  BY <1>8, <1>9, <1>10, <1>11, <1>12 DEF Inv

\* A refund marks a payment, but gives nothing back that was paid.
LEMMA RefundKeepsInv ==
  ASSUME Inv, RefundersTyped, NEW f \in Refunds,
         \/ \E ref \in References, t \in Transactions,
               amount \in Shaparak!RequestedAmounts :
              Shaparak!RefundRead(f, ref, t, amount)
         \/ Shaparak!CardRefund(f),
         UNCHANGED <<gateway, psp>>
  PROVE  Inv'
<1>1. /\ UNCHANGED <<transactionOf, records, verification, paid, callback>>
      /\ \/ cardStatus' = cardStatus
         \/ cardStatus' = [cardStatus EXCEPT ![refunder[f].ref] = "REFUNDED"]
  <2>1. CASE \E ref \in References, t \in Transactions,
               amount \in Shaparak!RequestedAmounts :
               Shaparak!RefundRead(f, ref, t, amount)
    BY <2>1 DEF Shaparak!RefundRead, Shaparak!Refunder, Shaparak!rows
  <2>2. CASE Shaparak!RefundSave(f)
    <3>1. CASE UNCHANGED <<cardStatus, transactionOf>>
      BY <2>2, <3>1 DEF Shaparak!RefundSave, Shaparak!Refunder
    <3>2. CASE Shaparak!InsertRefund(refunder[f].ref, refunder[f].amount)
      <4>1. refunder[f].pc = "checked" /\ UNCHANGED <<records, paid, callback, verification>>
        BY <2>2 DEF Shaparak!RefundSave, Shaparak!Refunder
      <4>2. refunder[f].ref \in References
        BY <4>1 DEF RefundersTyped, Reference
      <4>3. /\ cardStatus' = [r \in References |-> cardStatus[r]]
            /\ transactionOf' = [r \in References |-> transactionOf[r]]
        BY <3>2, <4>2, SystemAssumption DEF Shaparak!InsertRefund
      <4>4. UNCHANGED <<cardStatus, transactionOf>>
        BY <4>3 DEF Inv, OthersTyped
      <4>5. QED
        BY <4>1, <4>4
    <3>3. QED
      BY <2>2, <3>1, <3>2 DEF Shaparak!RefundSave
  <2>3. CASE Shaparak!RefundMark(f)
    BY <2>3 DEF Shaparak!RefundMark, Shaparak!Refunder
  <2>4. QED
    BY <2>1, <2>2, <2>3 DEF Shaparak!CardRefund
<1>2. /\ cardStatus' \in [References -> Shaparak!CardStatus]
      /\ \A r \in References : cardStatus'[r] \in {cardStatus[r], "REFUNDED"}
  BY <1>1 DEF Inv, OthersTyped, Shaparak!CardStatus
<1>3. OthersTyped'
  BY <1>1, <1>2 DEF Inv, OthersTyped, psp
<1>4. TypeOK' /\ \A t \in Transactions : TxInv(t)'
  BY <1>1, TransactionsKept DEF psp
<1>5. \A r \in References : CardInv(r)'
  BY <1>1, <1>2 DEF Inv, CardInv
<1>6. \A v \in Verifications : VerifyInv(v)'
  BY <1>1, VerificationKept
<1>7. QED
  BY <1>3, <1>4, <1>5, <1>6 DEF Inv

\* A failing database call or a crash of Shaparak.
LEMMA CardFaultKeepsInv ==
  ASSUME Inv, Shaparak!CardError \/ Shaparak!CardCrash, UNCHANGED <<gateway, psp>>
  PROVE  Inv'
<1> DEFINE CallbackPc == {"idle", "read", "saved", "done", "refused", "failed", "lost"}
           Type == [Callbacks -> [pc : CallbackPc, ref : Reference,
                                  outcome : Shaparak!Outcomes]]
<1>0. /\ callback \in Type /\ "failed" \in CallbackPc /\ "lost" \in CallbackPc
      /\ verification \in [Verifications -> [pc : AnswerPc, ref : Reference]]
      /\ "failed" \in AnswerPc /\ "lost" \in AnswerPc
  BY HandlersTyped DEF Inv, OthersTyped, AnswerPc
<1> HIDE DEF CallbackPc
<1>1. UNCHANGED <<cardStatus, transactionOf, records, paid>>
  BY DEF Shaparak!CardError, Shaparak!CardCrash, Shaparak!rows
<1>2. callback' \in Type
  <2>1. CASE callback' = callback
    BY <1>0, <2>1
  <2>2. CASE \E c \in Callbacks : callback' = [callback EXCEPT ![c].pc = "failed"]
    <3>1. PICK c \in Callbacks : callback' = [callback EXCEPT ![c].pc = "failed"]
      BY <2>2
    <3>2. QED
      BY <1>0, <3>1, OutcomeKept
  <2>3. CASE Shaparak!CardCrash
    <3>1. callback' = [c \in Callbacks |->
            IF Shaparak!Running(callback[c]) THEN [callback[c] EXCEPT !.pc = "lost"]
            ELSE callback[c]]
      BY <2>3 DEF Shaparak!CardCrash
    <3>2. QED
      BY <1>0, <3>1
  <2>4. QED
    BY <2>1, <2>2, <2>3 DEF Shaparak!CardError, Shaparak!Callback,
       Shaparak!Verification, Shaparak!Refunder
<1>3. /\ verification' \in [Verifications -> [pc : AnswerPc, ref : Reference]]
      /\ \A v \in Verifications :
           \/ verification'[v] = verification[v]
           \/ /\ verification[v].pc # "verified"
              /\ verification'[v].pc \in {"failed", "lost"}
  <2>1. CASE verification' = verification
    BY <1>0, <2>1
  <2>2. CASE \E v \in Verifications :
               /\ verification[v].pc # "verified"
               /\ verification' = [verification EXCEPT ![v].pc = "failed"]
    BY <1>0, <2>2, VerificationTo
  <2>3. CASE Shaparak!CardCrash
    <3>1. verification' = [v \in Verifications |->
            IF Shaparak!Running(verification[v])
            THEN [verification[v] EXCEPT !.pc = "lost"] ELSE verification[v]]
      BY <2>3 DEF Shaparak!CardCrash
    <3>2. QED
      BY <1>0, <3>1 DEF Shaparak!Running, Shaparak!Finished
  <2>4. QED
    BY <2>1, <2>2, <2>3 DEF Shaparak!CardError, Shaparak!Callback,
       Shaparak!Verification, Shaparak!Refunder
<1>4. OthersTyped'
  BY <1>1, <1>2, <1>3 DEF Inv, OthersTyped, psp, CallbackPc
<1>5. TypeOK' /\ \A t \in Transactions : TxInv(t)'
  BY <1>1, TransactionsKept DEF psp
<1>6. \A r \in References : CardInv(r)'
  BY <1>1 DEF Inv, CardInv
<1>7. ASSUME NEW v \in Verifications PROVE VerifyInv(v)'
  <2>1. CASE verification'[v] = verification[v]
    BY <1>1, <2>1, VerificationKept
  <2>2. CASE /\ verification[v].pc # "verified"
             /\ verification'[v].pc \in {"failed", "lost"}
    <3>1. VerifyInv(v)
      BY DEF Inv
    <3>2. /\ verifier' = verifier /\ txReference' = txReference
          /\ settleReply' = settleReply /\ txStatus' = txStatus
      BY DEF gateway
    <3>3. QED
      BY <2>2, <3>1, <3>2 DEF VerifyInv, Confirmed
  <2>3. QED
    BY <1>3, <2>1, <2>2
<1>8. QED
  BY <1>4, <1>5, <1>6, <1>7 DEF Inv

\* What Shaparak does between the calls keeps the invariant.
LEMMA CardStepKeepsInv ==
  ASSUME Inv, RefundersTyped, Shaparak!CardStep, UNCHANGED <<gateway, psp>>
  PROVE  Inv'
BY CallbackKeepsInv, CardVerifyKeepsInv, RefundKeepsInv, CardFaultKeepsInv
   DEF Shaparak!CardStep
-----------------------------------------------------------------------------
(* The theorems                                                            *)

\* Refunds in progress stay typed.
LEMMA RefundersStayTyped == RefundersTyped /\ [Next]_vars => RefundersTyped'
<1> SUFFICES ASSUME RefundersTyped, [Next]_vars PROVE RefundersTyped'
  OBVIOUS
<1> USE DEF RefundersTyped, RefunderPc
<1>1. CASE UNCHANGED refunder
  BY <1>1
<1>2. ASSUME NEW f \in Refunds, NEW to \in RefunderPc \ {"checked"},
             refunder' = [refunder EXCEPT ![f].pc = to]
      PROVE  RefundersTyped'
  BY <1>2
<1>3. ASSUME NEW f \in Refunds, NEW ref \in References, NEW t \in Transactions,
             NEW amount \in Shaparak!RequestedAmounts,
             Shaparak!RefundRead(f, ref, t, amount)
      PROVE  RefundersTyped'
  <2>1. CASE refunder' = [refunder EXCEPT ![f].pc = "refused"]
    BY <1>2, <2>1
  <2>2. CASE /\ amount # "invalid"
             /\ refunder' = [refunder EXCEPT
                  ![f] = [pc |-> "checked", ref |-> ref, amount |-> amount]]
    BY <2>2, SystemAssumption DEF Reference, Shaparak!RequestedAmounts
  <2>3. QED
    BY <1>3, <2>1, <2>2 DEF Shaparak!RefundRead, Shaparak!Refunder
<1>4. CASE \E f \in Refunds : Shaparak!CardRefund(f)
  BY <1>2, <1>4 DEF Shaparak!CardRefund, Shaparak!RefundSave,
     Shaparak!RefundMark, Shaparak!Refunder
<1>5. CASE Shaparak!CardError
  BY <1>1, <1>2, <1>5 DEF Shaparak!CardError, Shaparak!Callback,
     Shaparak!Verification, Shaparak!Refunder
<1>6. CASE Shaparak!CardCrash
  BY <1>6 DEF Shaparak!CardCrash
<1>7. CASE Shaparak!CardStep
  BY <1>1, <1>3, <1>4, <1>5, <1>6, <1>7 DEF Shaparak!CardStep,
     Shaparak!CallbackRead, Shaparak!CardCallback, Shaparak!CallbackSave,
     Shaparak!CallbackRecord, Shaparak!Callback, Shaparak!CardVerify,
     Shaparak!VerifyLookUp, Shaparak!VerifyRecord, Shaparak!Verification
<1>8. CASE UNCHANGED shaparak \/ UNCHANGED vars
  BY <1>1, <1>8 DEF shaparak, vars
<1>9. QED
  BY <1>1, <1>7, <1>8 DEF Next, CallPsp, ShaparakRefuses, PspReplies,
     CallShaparak, CallVerify, ShaparakAnswers, BankReplies, shaparak,
     Shaparak!InitiateCardPayment, Shaparak!VerifyRead, Shaparak!handlers

\* Every step keeps the invariant.
LEMMA StepKeepsInv == Inv /\ RefundersTyped /\ [Next]_vars => Inv'
<1> SUFFICES ASSUME Inv, RefundersTyped, [Next]_vars PROVE Inv'
  OBVIOUS
<1>1. CASE \E t \in Transactions : CallPsp(t) \/ ShaparakRefuses(t) \/ PspReplies(t)
  BY <1>1, CallPspKeepsInv, ShaparakRefusesKeepsInv, PspRepliesKeepsInv
<1>2. CASE \E t \in Transactions, ref \in References : CallShaparak(t, ref)
  BY <1>2, CallShaparakKeepsInv
<1>3. CASE \E v \in Verifications :
             CallVerify(v) \/ ShaparakAnswers(v) \/ BankReplies(v)
  BY <1>3, CallVerifyKeepsInv, AnswersKeepInv
<1>4. CASE Gateway!GatewayStep /\ UNCHANGED <<psp, shaparak>>
  BY <1>4, GatewayStepKeepsInv
<1>5. CASE Psp!PspStep /\ UNCHANGED <<gateway, shaparak>>
  BY <1>5, PspStepKeepsInv
<1>6. CASE Shaparak!CardStep /\ UNCHANGED <<gateway, psp>>
  BY <1>6, CardStepKeepsInv
<1>7. CASE UNCHANGED vars
  <2>1. UNCHANGED <<gateway, psp, shaparak>>
    BY <1>7 DEF vars
  <2>2. QED
    BY <2>1, CallsEnd DEF Inv, TypeOK, gateway
<1>8. QED
  BY <1>1, <1>2, <1>3, <1>4, <1>5, <1>6, <1>7 DEF Next

\* The invariant holds in every reachable state.
THEOREM Invariant == Spec => []Inv
<1>1. Init => RefundersTyped
  BY DEF Init, Shaparak!CardInit, RefundersTyped, RefunderPc, Reference,
     Shaparak!RefundAmounts
<1>2. QED
  BY <1>1, InvInit, StepKeepsInv, RefundersStayTyped, PTL DEF Spec

\* Rows and handlers of the gateway always have their types.
THEOREM TypesAreRight == Spec => []TypeOK
<1>1. Inv => TypeOK
  BY DEF Inv
<1>2. QED
  BY <1>1, Invariant, PTL

\* What the references say of payments and of transactions agrees, whatever
\* fails and in whatever order calls, replies and callbacks happen.
LEMMA InvReferencesAgree == Inv => ReferencesAgree
  BY DEF Inv, TxInv, ReferencesAgree

\* The reference of a row always names the payment that Shaparak keeps for
\* this transaction.
THEOREM ReferencesAlwaysAgree == Spec => []ReferencesAgree
  BY Invariant, InvReferencesAgree, PTL

\* Two successful transactions have different references, so that there are
\* no more of them than paid payments.
LEMMA InvSuccessfulWasPaid == Inv => SuccessfulWasPaid
<1> SUFFICES ASSUME Inv PROVE SuccessfulWasPaid
  OBVIOUS
<1> DEFINE S == {t \in Transactions : txStatus[t] = "SUCCESSFUL"}
           f == [t \in S |-> txReference[t]]
<1>1. \A t \in Transactions : txStatus[t] = "SUCCESSFUL" =>
        /\ txReference[t] \in paid /\ transactionOf[txReference[t]] = t
        /\ records[txReference[t]] > 0
        /\ \E v \in Verifications : verifier[v].tx = t /\ settleReply[v] # "none"
  BY DEF Inv, TxInv
<1>2. f \in Injection(S, paid)
  <2>1. f \in [S -> paid]
    BY <1>1
  <2>2. \A a, b \in S : f[a] = f[b] => a = b
    BY <1>1
  <2>3. QED
    BY <2>1, <2>2 DEF Injection, IsInjective
<1>3. IsFiniteSet(paid)
  BY DEF Inv, OthersTyped
<1> HIDE DEF f
<1>4. Cardinality(S) <= Cardinality(paid)
  BY <1>2, <1>3, FS_Injection
<1>5. Gateway!Summary.successfulTransactions = Cardinality(S)
  <2>1. {t \in Transactions : txStatus[t] \in {"SUCCESSFUL"}} = S
    OBVIOUS
  <2>2. Gateway!Summary.successfulTransactions
          = Cardinality({t \in Transactions : txStatus[t] \in {"SUCCESSFUL"}})
    BY ZenonT(60) DEF Gateway!Summary, Gateway!Cardinality, Cardinality
  <2> HIDE DEF S
  <2>3. QED
    BY <2>1, <2>2
<1>6. QED
  BY <1>1, <1>4, <1>5 DEF SuccessfulWasPaid

\* A transaction that the gateway reports as SUCCESSFUL was paid at Shaparak
\* under its own reference, recorded there and answered by the source bank.
THEOREM SuccessMeansPaid == Spec => []SuccessfulWasPaid
  BY Invariant, InvSuccessfulWasPaid, PTL

\* No handler takes a transaction back that a verification has decided.
LEMMA InvDecidedIsFinal == Inv => DecidedIsFinal
  BY DEF Inv, VerifyInv, DecidedIsFinal, Gateway!Decided

\* A decided transaction stays in a final status.
THEOREM DecisionsAreFinal == Spec => []DecidedIsFinal
  BY Invariant, InvDecidedIsFinal, PTL
=============================================================================

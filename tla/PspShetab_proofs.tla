-------------------------- MODULE PspShetab_proofs --------------------------
(***************************************************************************)
(* Proofs about the two services that call a network themselves, each on   *)
(* its own: the psp (PspPayments), for any numbers of transactions and     *)
(* calls, any set of transactions that have a row and any bound on the     *)
(* faults; and shetab (InterbankTransfers), for any numbers of transfers,  *)
(* of verifications and of faults, with and without a routing service.     *)
(***************************************************************************)
EXTENDS PspPayments, InterbankTransfers, TLAPS

-----------------------------------------------------------------------------
(***************************************************************************)
(* The psp.  Its inductive invariant: a handler that is about to save a    *)
(* copy does so whatever the row says by then, so what its save will mean  *)
(* has to be known of the handler already.                                 *)
(***************************************************************************)

\* processPayment saves rows that exist; from its catch block on, the attempt
\* has failed.
ProcessorInv ==
  \A t \in Transactions :
    /\ processor[t].pc \in {"saving", "markingSave"} => t \in Known
    /\ processor[t].pc \in {"marking", "markingSave", "rejected"}
         => attempt[t] = "FAILED"

\* verifyPayment works on a row that exists, and saves SUCCESSFUL only after
\* the hub has replied.
PspVerifierInv ==
  \A v \in PspVerifications :
    /\ pspVerifier[v].pc \in {"asking", "recording", "updating", "failing",
                              "succeedingSave", "failingSave"}
         => pspVerifier[v].tx \in Known
    /\ pspVerifier[v].pc \in {"updating", "succeedingSave"}
         => pspVerifier[v].tx \in recorded

\* cancelTransaction works on a row that exists.
PspCancellerInv ==
  \A k \in PspCancellations :
    pspCanceller[k].pc \in {"checked", "saving"} => pspCanceller[k].tx \in Known

PspInv ==
  /\ PspTypeOK
  /\ ProcessorInv
  /\ PspVerifierInv
  /\ PspCancellerInv
  /\ SuccessfulIsRecorded

\* The types of the handlers.
ProcessorType ==
  [pc : {"idle", "checking", "initiating", "finding", "saving", "failing",
         "marking", "markingSave", "accepted", "rejected", "errored", "lost"},
   ref : References \cup {None}]
VerifierType ==
  [pc : {"idle", "asking", "recording", "updating", "failing",
         "succeedingSave", "failingSave", "ended", "lost"},
   tx : Transactions \cup {None}, copy : References \cup {None}]
CancellerType ==
  [pc : {"idle", "checked", "saving", "ended", "lost"},
   tx : Transactions \cup {None}, copy : References \cup {None}]

USE DEF PspInv, PspTypeOK, ProcessorInv, PspVerifierInv, PspCancellerInv,
        SuccessfulIsRecorded, pspRows

-----------------------------------------------------------------------------
(* Each handler keeps the invariant.                                       *)

\* The initial states have the invariant.
LEMMA PspInvInit == PspInit => PspInv
  BY PspAssumption DEF PspInit, PspStatus

\* So have the states after a step of processPayment, its callers and callees.
LEMMA ProcessKeepsInv ==
  ASSUME PspInv, NEW t \in Transactions,
         \/ ProcessStart(t) \/ ProcessRefused(t) \/ PspProcess(t)
         \/ \E ref \in References : ProcessInitiated(t, ref)
  PROVE  PspInv'
<1>1. CASE ProcessStart(t)
  BY <1>1 DEF ProcessStart, Processor
<1>2. CASE ProcessRefused(t)
  BY <1>2 DEF ProcessRefused, Processor
<1>3. CASE \E ref \in References : ProcessInitiated(t, ref)
  BY <1>3 DEF ProcessInitiated
<1>4. CASE ProcessReject(t)
  BY <1>4 DEF ProcessReject, Processor
<1>5. CASE ProcessAttempt(t)
  BY <1>5 DEF ProcessAttempt, Processor
<1>6. CASE ProcessFind(t)
  BY <1>6 DEF ProcessFind, Processor
<1>7. CASE ProcessSave(t)
  BY <1>7 DEF ProcessSave, Processor, SaveRow, PspStatus
<1>8. CASE ProcessFail(t)
  BY <1>8 DEF ProcessFail, Processor
<1>9. CASE ProcessMarkFind(t)
  <2>1. CASE t \notin Known /\ Processor(t, "marking", "errored")
    BY <1>9, <2>1 DEF ProcessMarkFind, Processor
  <2>2. CASE t \in Known /\ processor[t].pc = "marking"
    <3>1. /\ pspReference[t] \in References \cup {None}
          /\ processor' = [processor EXCEPT
               ![t] = [pc |-> "markingSave", ref |-> pspReference[t]]]
          /\ UNCHANGED <<pspVerifier, pspCanceller, faults, pspRows>>
      BY <1>9, <2>2 DEF ProcessMarkFind, Processor
    <3>2. PspTypeOK'
      BY <3>1
    <3>3. ProcessorInv'
      BY <2>2, <3>1
    <3>4. QED
      BY <3>1, <3>2, <3>3
  <2>3. QED
    BY <1>9, <2>1, <2>2 DEF ProcessMarkFind
<1>10. CASE ProcessMark(t)
  BY <1>10 DEF ProcessMark, Processor, SaveRow, PspStatus
<1>11. QED
  BY <1>1, <1>2, <1>3, <1>4, <1>5, <1>6, <1>7, <1>8, <1>9, <1>10
  DEF PspProcess

\* A step of verifyPayment keeps the invariant.
LEMMA PspVerifyKeepsInv ==
  ASSUME PspInv, NEW v \in PspVerifications,
         \/ \E t \in Transactions : PspVerifyFind(v, t)
         \/ PspVerify(v)
  PROVE  PspInv'
<1>1. CASE \E t \in Transactions : PspVerifyFind(v, t)
  BY <1>1 DEF PspVerifyFind
<1>2. CASE \E verified \in BOOLEAN : PspVerifyAnswered(v, verified)
  BY <1>2 DEF PspVerifyAnswered, PspVerifier
<1>3. CASE PspVerifyRecorded(v)
  <2>1. pspVerifier[v].tx \in Transactions
    BY <1>3, PspAssumption DEF PspVerifyRecorded, PspVerifier
  <2>2. PspTypeOK'
    BY <1>3, <2>1 DEF PspVerifyRecorded, PspVerifier
  <2>3. ProcessorInv' /\ PspCancellerInv' /\ SuccessfulIsRecorded'
    BY <1>3 DEF PspVerifyRecorded, PspVerifier
  <2>4. PspVerifierInv'
    BY <1>3 DEF PspVerifyRecorded, PspVerifier
  <2>5. QED
    BY <2>2, <2>3, <2>4
<1>4. CASE PspVerifyErrored(v)
  BY <1>4 DEF PspVerifyErrored, PspVerifier
<1>5. CASE PspVerifyCopy(v)
  <2>1. PICK to \in {"succeedingSave", "failingSave"},
             ref \in References \cup {None} :
          /\ pspVerifier' = [pspVerifier EXCEPT ![v] =
               [pc |-> to, tx |-> pspVerifier[v].tx, copy |-> ref]]
          /\ to = "succeedingSave" => pspVerifier[v].pc = "updating"
    <3>1. pspVerifier[v].tx \in Known
      BY <1>5 DEF PspVerifyCopy
    <3>2. pspReference[pspVerifier[v].tx] \in References \cup {None}
      BY <3>1
    <3>3. QED
      BY <1>5, <3>2 DEF PspVerifyCopy
  <2>2. /\ UNCHANGED <<pspRows, processor, pspCanceller, faults>>
        /\ pspVerifier[v].pc \in {"updating", "failing"}
    BY <1>5 DEF PspVerifyCopy
  <2>3. PspTypeOK'
    BY <2>1, <2>2
  <2>4. PspVerifierInv'
    BY <2>1, <2>2
  <2>5. QED
    BY <2>2, <2>3, <2>4
<1>6. CASE PspVerifySave(v)
  <2>1. PICK newStatus \in {"SUCCESSFUL", "FAILED"} :
          /\ pspStatus' = [pspStatus EXCEPT ![pspVerifier[v].tx] = newStatus]
          /\ newStatus = "SUCCESSFUL" => pspVerifier[v].tx \in recorded
    BY <1>6 DEF PspVerifySave, PspVerifier, SaveRow
  <2>2. /\ pspVerifier' = [pspVerifier EXCEPT ![v].pc = "ended"]
        /\ pspReference' = [pspReference EXCEPT
             ![pspVerifier[v].tx] = pspVerifier[v].copy]
        /\ UNCHANGED <<attempt, recorded, processor, pspCanceller, faults>>
    BY <1>6 DEF PspVerifySave, PspVerifier, SaveRow
  <2>3. PspTypeOK'
    <3>1. pspStatus' \in [Known -> PspStatus]
      BY <2>1 DEF PspStatus
    <3>2. pspReference' \in [Known -> References \cup {None}]
      BY <2>2
    <3>3. QED
      BY <2>2, <3>1, <3>2
  <2>4. PspVerifierInv' /\ ProcessorInv' /\ PspCancellerInv'
    BY <2>2
  <2>5. SuccessfulIsRecorded'
    BY <2>1, <2>2
  <2>6. QED
    BY <2>3, <2>4, <2>5
<1>7. QED
  BY <1>1, <1>2, <1>3, <1>4, <1>5, <1>6 DEF PspVerify

\* A step of cancelTransaction keeps the invariant.
LEMMA PspCancelKeepsInv ==
  ASSUME PspInv, NEW k \in PspCancellations,
         \/ \E t \in Transactions : PspCancelRead(k, t)
         \/ PspCancel(k)
  PROVE  PspInv'
<1>1. CASE \E t \in Transactions : PspCancelRead(k, t)
  BY <1>1 DEF PspCancelRead
<1>2. CASE PspCancelCopy(k)
  BY <1>2 DEF PspCancelCopy
<1>3. CASE PspCancelSave(k)
  BY <1>3 DEF PspCancelSave, PspCanceller, SaveRow, PspStatus
<1>4. QED
  BY <1>1, <1>2, <1>3 DEF PspCancel

\* Failing database calls and restarts keep the invariant: they move handlers
\* to where nothing more is claimed of them.
LEMMA PspFaultKeepsInv ==
  ASSUME PspInv, PspError \/ PspCrash
  PROVE  PspInv'
<1>1. CASE PspError
  <2>1. UNCHANGED pspRows /\ faults' \in Nat
    BY <1>1 DEF PspError, PspFault
  <2>2. CASE \E t \in Transactions, to \in {"failing", "errored"} :
               /\ processor' = [processor EXCEPT ![t].pc = to]
               /\ UNCHANGED <<pspVerifier, pspCanceller>>
    BY <2>1, <2>2
  <2>3. CASE \E v \in PspVerifications, t \in Known :
               /\ pspVerifier' = [pspVerifier EXCEPT
                    ![v] = [pc |-> "failing", tx |-> t, copy |-> None]]
               /\ UNCHANGED <<processor, pspCanceller>>
    BY <2>1, <2>3, PspAssumption
  <2>4. CASE \E v \in PspVerifications :
               /\ pspVerifier[v].pc \in {"updating", "succeedingSave"}
               /\ pspVerifier' = [pspVerifier EXCEPT ![v].pc = "failing"]
               /\ UNCHANGED <<processor, pspCanceller>>
    <3>1. PICK v \in PspVerifications :
            /\ pspVerifier[v].tx \in Known
            /\ pspVerifier' = [pspVerifier EXCEPT ![v].pc = "failing"]
            /\ UNCHANGED <<processor, pspCanceller>>
      BY <2>4
    <3>2. pspVerifier' \in [PspVerifications -> VerifierType]
      BY <3>1 DEF VerifierType
    <3>3. PspTypeOK'
      BY <2>1, <3>1, <3>2 DEF VerifierType
    <3>4. PspVerifierInv'
      BY <2>1, <3>1
    <3>5. QED
      BY <2>1, <3>1, <3>3, <3>4
  <2>5. CASE \E v \in PspVerifications :
               /\ pspVerifier' = [pspVerifier EXCEPT ![v].pc = "ended"]
               /\ UNCHANGED <<processor, pspCanceller>>
    BY <2>1, <2>5
  <2>6. CASE \E k \in PspCancellations :
               /\ pspCanceller' = [pspCanceller EXCEPT ![k].pc = "ended"]
               /\ UNCHANGED <<processor, pspVerifier>>
    BY <2>1, <2>6
  <2>7. QED
    BY <1>1, <2>2, <2>3, <2>4, <2>5, <2>6 DEF PspError
<1>2. CASE PspCrash
  <2>1. UNCHANGED pspRows /\ faults' \in Nat
    BY <1>2 DEF PspCrash, PspFault
  <2>2. /\ processor' \in [Transactions -> ProcessorType]
        /\ \A t \in Transactions :
             processor'[t] = processor[t] \/ processor'[t].pc = "lost"
    <3>1. \A t \in Transactions :
            /\ processor[t] \in ProcessorType
            /\ [processor[t] EXCEPT !.pc = "lost"] \in ProcessorType
      BY DEF ProcessorType
    <3>2. processor' = [t \in Transactions |->
            IF processor[t].pc \in {"idle", "accepted", "rejected", "errored"}
            THEN processor[t] ELSE [processor[t] EXCEPT !.pc = "lost"]]
      BY <1>2 DEF PspCrash
    <3>3. \A t \in Transactions : [processor[t] EXCEPT !.pc = "lost"].pc = "lost"
      BY <3>1 DEF ProcessorType
    <3>4. QED
      BY <3>1, <3>2, <3>3
  <2>3. /\ pspVerifier' \in [PspVerifications -> VerifierType]
        /\ \A v \in PspVerifications :
             pspVerifier'[v] = pspVerifier[v] \/ pspVerifier'[v].pc = "lost"
    <3>1. ASSUME NEW v \in PspVerifications
          PROVE  /\ pspVerifier[v] \in VerifierType
                 /\ [pspVerifier[v] EXCEPT !.pc = "lost"] \in VerifierType
      <4>1. pspVerifier[v] \in VerifierType
        BY DEF VerifierType
      <4>2. QED
        BY <4>1 DEF VerifierType
    <3>2. pspVerifier' = [v \in PspVerifications |->
            IF pspVerifier[v].pc \in {"idle", "ended"}
            THEN pspVerifier[v] ELSE [pspVerifier[v] EXCEPT !.pc = "lost"]]
      BY <1>2 DEF PspCrash
    <3>3. \A v \in PspVerifications :
            [pspVerifier[v] EXCEPT !.pc = "lost"].pc = "lost"
      BY <3>1 DEF VerifierType
    <3>4. QED
      BY <3>1, <3>2, <3>3
  <2>4. /\ pspCanceller' \in [PspCancellations -> CancellerType]
        /\ \A k \in PspCancellations :
             pspCanceller'[k] = pspCanceller[k] \/ pspCanceller'[k].pc = "lost"
    <3>1. \A k \in PspCancellations :
            /\ pspCanceller[k] \in CancellerType
            /\ [pspCanceller[k] EXCEPT !.pc = "lost"] \in CancellerType
      BY DEF CancellerType
    <3>2. pspCanceller' = [k \in PspCancellations |->
            IF pspCanceller[k].pc \in {"idle", "ended"}
            THEN pspCanceller[k] ELSE [pspCanceller[k] EXCEPT !.pc = "lost"]]
      BY <1>2 DEF PspCrash
    <3>3. \A k \in PspCancellations :
            [pspCanceller[k] EXCEPT !.pc = "lost"].pc = "lost"
      BY <3>1 DEF CancellerType
    <3>4. QED
      BY <3>1, <3>2, <3>3
  <2>5. PspTypeOK'
    BY <2>1, <2>2, <2>3, <2>4 DEF ProcessorType, VerifierType, CancellerType
  <2>6. QED
    BY <2>1, <2>2, <2>3, <2>4, <2>5
<1>3. QED
  BY <1>1, <1>2

-----------------------------------------------------------------------------
(* The theorems.                                                           *)

\* The invariant holds in every reachable state.
THEOREM PspInvariant == PspSpec => []PspInv
<1> USE DEF pspVars
<1>1. PspInv /\ [PspNext]_pspVars => PspInv'
  <2>1. PspInv /\ UNCHANGED pspVars => PspInv'
    OBVIOUS
  <2>2. PspInv /\ PspNext => PspInv'
    BY ProcessKeepsInv, PspVerifyKeepsInv, PspCancelKeepsInv, PspFaultKeepsInv
    DEF PspNext, PspStep
  <2>3. QED
    BY <2>1, <2>2
<1>2. QED
  BY PspInvInit, <1>1, PTL DEF PspSpec

\* Rows, handlers and their copies keep their types.
THEOREM PspTypeCorrect == PspSpec => []PspTypeOK
  BY PspInvariant, PTL

\* updateTransaction never makes a transaction SUCCESSFUL that the hub has
\* not recorded, however stale the copies that it saves.
THEOREM SuccessfulRecorded == PspSpec => []SuccessfulIsRecorded
  BY PspInvariant, PTL

\* The normal reply that reports a failure leaves no attempt in progress.
THEOREM RejectedFailed == PspSpec => []RejectedHasFailedAttempt
<1>1. PspInv => RejectedHasFailedAttempt
  BY DEF RejectedHasFailedAttempt
<1>2. QED
  BY PspInvariant, <1>1, PTL

\* Attempts follow the replies, for any set of transactions with a row.
THEOREM FollowedAttempts == PspSpec => []AttemptsFollowReplies
  BY PspTypeCorrect, RejectedFailed, PTL DEF AttemptsFollowReplies

-----------------------------------------------------------------------------
(***************************************************************************)
(* Shetab.  Its inductive invariant: only a transfer that was accepted is  *)
(* ever updated by a verification, and what a verification is about to     *)
(* write is what the bank has decided, or that it has not.                 *)
(***************************************************************************)

Faulty == throws + dbErrors > 0

TransferInv(t) ==
  /\ pc[t] \in {"idle", "inserting", "routing", "marking", "refusing", "failing",
                "accepted", "failed", "errored", "lost"}
  /\ pc[t] \in {"idle", "inserting"} => row[t].status = "none"
  /\ pc[t] \in {"idle", "inserting", "routing", "refusing", "failed"} =>
       bank[t] = "unknown"
  /\ pc[t] \in {"routing", "refusing", "marking", "failing"} =>
       row[t].status = "PENDING"
  /\ pc[t] \in {"marking", "accepted"} => bank[t] # "unknown"
  /\ pc[t] = "failed" => row[t].status = "FAILED"
  /\ pc[t] \in {"errored", "lost"} =>
       row[t].status \in {"none", "PENDING", "FAILED"}
  /\ pc[t] = "failing" \/ (pc[t] \in {"errored", "lost"} /\ row[t].status = "FAILED")
       => bank[t] = "unknown" \/ Faulty
  /\ pc[t] = "accepted" =>
       /\ row[t].status \in {"PROCESSING", "COMPLETED", "FAILED"}
       /\ row[t].status \in Final => bank[t] = row[t].status
  /\ row[t].completedAt <=> row[t].status = "COMPLETED"

VerificationInv(v) ==
  /\ pc[v] \in {"idle", "checking", "updating", "answered", "errored", "lost"}
  /\ pc[v] # "idle" =>
       subject[v] \in Transfers /\ pc[subject[v]] \in {"accepted", "failed"}
  /\ pc[v] \in {"checking", "updating"} => pc[subject[v]] = "accepted"
  /\ pc[v] = "updating" => result[v] \in {"PROCESSING", "COMPLETED", "FAILED"}
  /\ pc[v] \in {"updating", "answered"} /\ pc[subject[v]] = "accepted"
       /\ result[v] \in Final => bank[subject[v]] = result[v]

\* Since a fresh verification began, nothing else than the bank's decision is
\* on its way into the row.
FreshInv(v) ==
  fresh[v] =>
    /\ pc[v] # "idle" /\ bank[subject[v]] \in Final
    /\ \A u \in Verifications :
         subject[u] = subject[v] /\ pc[u] = "updating" =>
           result[u] = bank[subject[v]]
    /\ pc[v] = "answered" => row[subject[v]].status = bank[subject[v]]

InterbankInv ==
  /\ TypeOK
  /\ \A t \in Transfers : TransferInv(t)
  /\ \A v \in Verifications : VerificationInv(v) /\ FreshInv(v)

\* The initial states have the invariant.
LEMMA InterbankInvInit == Init => InterbankInv
<1> SUFFICES ASSUME Init PROVE InterbankInv
  OBVIOUS
<1> USE InterbankAssumption DEF Init
<1>1. row \in [Transfers -> Row]
  <2>1. NoRow \in Row
    BY DEF NoRow, Row
  <2>2. QED
    BY <2>1
<1>2. TypeOK
  BY <1>1 DEF TypeOK, Ends, Requests
<1>3. \A t \in Transfers : TransferInv(t)
  BY DEF TransferInv, NoRow, Requests, Final
<1>4. \A v \in Verifications : VerificationInv(v) /\ FreshInv(v)
  BY DEF VerificationInv, FreshInv, Requests
<1>5. QED
  BY <1>2, <1>3, <1>4 DEF InterbankInv

-----------------------------------------------------------------------------
(* What the rows are after an update                                       *)

\* An update of the status changes nothing else.
LEMMA StatusSet ==
  ASSUME row \in [Transfers -> Row], NEW t \in Transfers, NEW s \in Status,
         SetStatus(t, s)
  PROVE  /\ row' \in [Transfers -> Row]
         /\ row'[t].status = s /\ row'[t].completedAt = row[t].completedAt
         /\ \A u \in Transfers \ {t} : row'[u] = row[u]
<1>1. row[t] \in Row
  OBVIOUS
<1> DEFINE new == [row[t] EXCEPT !.status = s]
<1>2. new \in Row /\ new.status = s /\ new.completedAt = row[t].completedAt
  BY <1>1 DEF Row
<1>3. row' = [row EXCEPT ![t] = new]
  BY DEF SetStatus
<1> HIDE DEF new
<1>4. QED
  BY <1>2, <1>3

\* Steps of a transfer leave the verifications alone.
LEMMA Unconcerned ==
  ASSUME InterbankInv, NEW t \in Transfers, pc[t] \notin {"accepted", "failed"},
         NEW s, pc' = [pc EXCEPT ![t] = s],
         \A u \in Transfers \ {t} : row'[u] = row[u] /\ bank'[u] = bank[u],
         UNCHANGED <<subject, result, fresh>>
  PROVE  \A v \in Verifications : VerificationInv(v)' /\ FreshInv(v)'
<1>1. \A v \in Verifications : pc'[v] = pc[v]
  BY InterbankAssumption DEF InterbankInv, TypeOK, Requests
<1>2. \A v \in Verifications :
        pc[v] # "idle" => subject[v] \in Transfers \ {t}
  BY DEF InterbankInv, VerificationInv
<1>3. \A v \in Verifications :
        pc[v] # "idle" =>
          /\ pc'[subject[v]] = pc[subject[v]]
          /\ row'[subject[v]] = row[subject[v]]
          /\ bank'[subject[v]] = bank[subject[v]]
  BY <1>2 DEF InterbankInv, TypeOK, Requests
<1>4. \A v \in Verifications : VerificationInv(v)'
  BY <1>1, <1>2, <1>3 DEF InterbankInv, VerificationInv
<1>5. \A v \in Verifications : FreshInv(v)'
  BY <1>1, <1>2, <1>3 DEF InterbankInv, FreshInv
<1>6. QED
  BY <1>4, <1>5

\* Nor do they concern the other transfers.
LEMMA Others ==
  ASSUME InterbankInv, NEW r \in Requests, NEW s, pc' = [pc EXCEPT ![r] = s],
         NEW t \in Transfers, t # r, row'[t] = row[t], bank'[t] = bank[t],
         Faulty => Faulty'
  PROVE  TransferInv(t)'
<1>1. pc'[t] = pc[t]
  BY DEF InterbankInv, TypeOK, Requests
<1>2. QED
  BY <1>1 DEF InterbankInv, TransferInv

\* So a step of a transfer is judged by its own row.
LEMMA TransferStep ==
  ASSUME InterbankInv, NEW t \in Transfers, pc[t] \notin {"accepted", "failed"},
         NEW s, pc' = [pc EXCEPT ![t] = s], TypeOK', TransferInv(t)',
         \A u \in Transfers \ {t} : row'[u] = row[u] /\ bank'[u] = bank[u],
         UNCHANGED <<subject, result, fresh>>, Faulty => Faulty'
  PROVE  InterbankInv'
<1>1. \A u \in Transfers : TransferInv(u)'
  BY Others DEF Requests
<1>2. \A v \in Verifications : VerificationInv(v)' /\ FreshInv(v)'
  BY Unconcerned
<1>3. QED
  BY <1>1, <1>2 DEF InterbankInv

\* A verification may end with an error at any time.
LEMMA VerificationStep ==
  ASSUME InterbankInv, NEW v \in Verifications, pc[v] # "idle",
         pc' = [pc EXCEPT ![v] = "errored"], TypeOK',
         UNCHANGED <<row, bank, subject, result, fresh>>, Faulty => Faulty'
  PROVE  InterbankInv'
<1>1. \A t \in Transfers : TransferInv(t)'
  <2> SUFFICES ASSUME NEW t \in Transfers PROVE TransferInv(t)'
    OBVIOUS
  <2>1. t # v /\ v \in Requests
    BY InterbankAssumption DEF Requests
  <2>2. QED
    BY <2>1, Others
<1>2. /\ pc'[v] = "errored"
      /\ \A r \in Requests \ {v} : pc'[r] = pc[r]
      /\ \A t \in Transfers : pc'[t] = pc[t]
  BY InterbankAssumption DEF InterbankInv, TypeOK, Requests
<1>3. \A u \in Verifications : VerificationInv(u)'
  BY <1>2 DEF InterbankInv, VerificationInv, Requests
<1>4. \A u \in Verifications : FreshInv(u)'
  BY <1>2 DEF InterbankInv, FreshInv, Requests
<1>5. QED
  BY <1>1, <1>3, <1>4 DEF InterbankInv

-----------------------------------------------------------------------------
(* Steps                                                                   *)

\* The steps of initiateTransfer keep the invariant.
LEMMA InitiateKeepsInv ==
  ASSUME InterbankInv, NEW t \in Transfers, Initiate(t)
  PROVE  InterbankInv'
<1> t \in Requests
  BY DEF Requests
<1> TypeOK /\ TransferInv(t)
  BY DEF InterbankInv
<1>1. CASE CheckBanks(t)
  <2>1. TypeOK'
    BY <1>1 DEF CheckBanks, Goes, Stays, TypeOK, Ends, faultVars
  <2>2. TransferInv(t)'
    BY <1>1 DEF CheckBanks, Goes, Stays, TransferInv, TypeOK, Final
  <2>3. QED
    BY <1>1, <2>1, <2>2, TransferStep
       DEF CheckBanks, Goes, Stays, faultVars, Faulty
<1>2. CASE Insert(t)
  <2>1. CASE Unset \in {Source[t], Destination[t]}
    <3>1. TypeOK'
      BY <1>2, <2>1 DEF Insert, Goes, Stays, TypeOK, Ends, faultVars
    <3>2. TransferInv(t)'
      BY <1>2, <2>1 DEF Insert, Goes, Stays, TransferInv, TypeOK, Final
    <3>3. QED
      BY <1>2, <2>1, <3>1, <3>2, TransferStep
         DEF Insert, Goes, Stays, faultVars, Faulty
  <2>2. CASE Unset \notin {Source[t], Destination[t]}
    <3> DEFINE new == [NoRow EXCEPT !.status = "PENDING"]
    <3>1. new \in Row /\ new.status = "PENDING" /\ new.completedAt = FALSE
      BY DEF NoRow, Row, Status
    <3>2. row' = [row EXCEPT ![t] = new] /\ pc' = [pc EXCEPT ![t] = "routing"]
      BY <1>2, <2>2 DEF Insert, Goes
    <3> HIDE DEF new
    <3>3. TypeOK'
      BY <1>2, <3>1, <3>2 DEF Insert, Goes, Stays, TypeOK, Ends, faultVars
    <3>4. TransferInv(t)'
      BY <1>2, <3>1, <3>2 DEF Insert, Goes, Stays, TransferInv, TypeOK, Final
    <3>5. QED
      BY <1>2, <3>2, <3>3, <3>4, TransferStep
         DEF Insert, Goes, Stays, faultVars, Faulty, TypeOK
  <2>3. QED
    BY <2>1, <2>2
<1>3. CASE Route(t)
  <2>1. TypeOK'
    BY <1>3 DEF Route, Goes, Stays, TypeOK, Ends, faultVars
  <2>2. TransferInv(t)'
    BY <1>3 DEF Route, Goes, Stays, TransferInv, TypeOK, Final
  <2>3. QED
    BY <1>3, <2>1, <2>2, TransferStep
       DEF Route, Goes, Stays, faultVars, Faulty, TypeOK
<1>4. CASE RouteThrows(t)
  <2>1. TypeOK' /\ (Faulty => Faulty') /\ (BankAnswers => Faulty')
    BY <1>4, InterbankAssumption
       DEF RouteThrows, Throws, Goes, TypeOK, Ends, Faulty
  <2>2. TransferInv(t)'
    BY <1>4, <2>1 DEF RouteThrows, Goes, TransferInv, TypeOK, Final
  <2>3. QED
    BY <1>4, <2>1, <2>2, TransferStep DEF RouteThrows, Goes, TypeOK
<1>5. ASSUME NEW from \in {"marking", "refusing", "failing"},
             NEW to \in {"accepted", "failed", "errored"},
             NEW status \in {"PROCESSING", "FAILED"},
             Goes(t, from, to), SetStatus(t, status), bank' = bank, Stays,
             from = "marking" => to = "accepted" /\ status = "PROCESSING",
             from = "refusing" => to = "failed" /\ status = "FAILED",
             from = "failing" => to = "errored" /\ status = "FAILED"
      PROVE  InterbankInv'
  <2>1. /\ row' \in [Transfers -> Row]
        /\ row'[t].status = status /\ row'[t].completedAt = row[t].completedAt
        /\ \A u \in Transfers \ {t} : row'[u] = row[u]
    BY <1>5, StatusSet DEF TypeOK, Status
  <2>2. TypeOK'
    BY <1>5, <2>1 DEF Goes, Stays, TypeOK, Ends, faultVars
  <2>3. TransferInv(t)'
    BY <1>5, <2>1 DEF Goes, Stays, TransferInv, TypeOK, Final, faultVars, Faulty
  <2>4. QED
    BY <1>5, <2>1, <2>2, <2>3, TransferStep DEF Goes, Stays, faultVars, Faulty
<1>6. CASE MarkProcessing(t)
  BY <1>5, <1>6 DEF MarkProcessing
<1>7. CASE MarkRefused(t)
  BY <1>5, <1>7 DEF MarkRefused
<1>8. CASE MarkFailed(t)
  BY <1>5, <1>8 DEF MarkFailed
<1>9. QED
  BY <1>1, <1>2, <1>3, <1>4, <1>6, <1>7, <1>8 DEF Initiate

\* The bank's decision is no surprise to a fresh verification.
LEMMA DecisionKeepsInv ==
  ASSUME InterbankInv, NEW t \in Transfers, BankDecides(t)
  PROVE  InterbankInv'
<1> TypeOK /\ TransferInv(t)
  BY DEF InterbankInv
<1>1. PICK decision \in Final : bank' = [bank EXCEPT ![t] = decision]
  BY DEF BankDecides
<1>2. /\ bank[t] = "accepted" /\ bank'[t] = decision
      /\ \A u \in Transfers \ {t} : bank'[u] = bank[u]
      /\ UNCHANGED <<row, pc, subject, result, fresh, throws, dbErrors, crashes>>
  BY <1>1 DEF BankDecides, TypeOK, requestVars, faultVars
<1>3. TypeOK'
  BY <1>1, <1>2 DEF TypeOK
<1>4. \A u \in Transfers : TransferInv(u)'
  BY <1>2 DEF InterbankInv, TransferInv, Faulty, Final
<1>5. \A v \in Verifications : VerificationInv(v)'
  BY <1>2 DEF InterbankInv, VerificationInv, Final
<1>6. \A v \in Verifications : FreshInv(v)'
  <2> SUFFICES ASSUME NEW v \in Verifications, fresh[v] PROVE FreshInv(v)'
    BY <1>2 DEF FreshInv
  <2>1. FreshInv(v) /\ VerificationInv(v)
    BY DEF InterbankInv
  <2>2. subject[v] \in Transfers \ {t}
    BY <1>2, <2>1 DEF FreshInv, VerificationInv, Final
  <2>3. QED
    BY <1>2, <2>1, <2>2 DEF FreshInv
<1>7. QED
  BY <1>3, <1>4, <1>5, <1>6 DEF InterbankInv

\* A verification reads a row that it may trust.
LEMMA ReadKeepsInv ==
  ASSUME InterbankInv, NEW v \in Verifications, NEW t \in Transfers, ReadTransfer(v, t)
  PROVE  InterbankInv'
<1> v \in Requests /\ t \in Requests /\ v # t
  BY InterbankAssumption DEF Requests
<1> TypeOK /\ TransferInv(t) /\ VerificationInv(v) /\ FreshInv(v)
  BY DEF InterbankInv
<1> DEFINE to == IF row[t].status \in Final THEN "answered" ELSE "checking"
<1>1. /\ pc[v] = "idle" /\ pc[t] \in {"accepted", "failed"}
      /\ pc' = [pc EXCEPT ![v] = to]
      /\ UNCHANGED <<row, bank, throws, dbErrors, crashes>>
      /\ subject'[v] = t /\ result'[v] = row[t].status
      /\ fresh'[v] = (bank[t] \in Final /\ UnderWay(t) = {})
      /\ \A u \in Verifications \ {v} :
           subject'[u] = subject[u] /\ result'[u] = result[u] /\ fresh'[u] = fresh[u]
  BY DEF ReadTransfer, Goes, Referenced, faultVars, TypeOK
<1>2. row[t] \in Row
  BY DEF TypeOK
<1>3. TypeOK'
  <2>1. row[t].status \in Status
    BY <1>1 DEF TransferInv, Status, Final
  <2>2. pc' \in [Requests -> {"idle", "inserting", "routing", "marking",
                 "refusing", "failing", "checking", "updating"} \cup Ends]
    BY <1>1 DEF TypeOK, Ends
  <2>3. /\ subject' \in [Verifications -> Transfers \cup {Nothing}]
        /\ result' \in [Verifications -> Status \cup {"none"}]
        /\ fresh' \in [Verifications -> BOOLEAN]
    BY <2>1 DEF ReadTransfer, TypeOK
  <2>4. QED
    BY <1>1, <2>2, <2>3 DEF TypeOK
<1>4. \A u \in Transfers : TransferInv(u)'
  BY <1>1, Others, InterbankAssumption DEF Faulty
<1>5. /\ pc'[v] = to
      /\ \A r \in Requests \ {v} : pc'[r] = pc[r]
      /\ \A u \in Transfers : pc'[u] = pc[u]
  BY <1>1, InterbankAssumption DEF TypeOK, Requests
<1>6. \A u \in Verifications : VerificationInv(u)'
  <2>1. VerificationInv(v)'
    BY <1>1, <1>5 DEF VerificationInv, TransferInv, Final
  <2>2. \A u \in Verifications \ {v} : VerificationInv(u)'
    BY <1>1, <1>5 DEF InterbankInv, VerificationInv, Requests
  <2>3. QED
    BY <2>1, <2>2
<1>7. \A u \in Verifications : FreshInv(u)'
  <2>1. to # "updating" /\ to # "idle"
    OBVIOUS
  <2>2. FreshInv(v)'
    <3> SUFFICES ASSUME fresh'[v] PROVE FreshInv(v)'
      BY DEF FreshInv
    <3>1. bank[t] \in Final /\ UnderWay(t) = {}
      BY <1>1
    <3>2. \A u \in Verifications : ~(subject'[u] = t /\ pc'[u] = "updating")
      BY <1>1, <1>5, <2>1, <3>1 DEF UnderWay, Ends, Requests
    <3>3. pc'[v] = "answered" => row[t].status = bank[t]
      BY <1>1, <1>5, <3>1 DEF TransferInv, Final
    <3>4. QED
      BY <1>1, <1>5, <2>1, <3>1, <3>2, <3>3 DEF FreshInv
  <2>3. ASSUME NEW u \in Verifications \ {v} PROVE FreshInv(u)'
    BY <1>1, <1>5, <2>1, <2>3 DEF InterbankInv, FreshInv, Requests
  <2>4. QED
    BY <2>2, <2>3
<1>8. QED
  BY <1>3, <1>4, <1>6, <1>7 DEF InterbankInv

\* What the bank answers is what it has decided, or that it has not.
LEMMA CheckKeepsInv ==
  ASSUME InterbankInv, NEW v \in Verifications, CheckStatus(v)
  PROVE  InterbankInv'
<1> v \in Requests
  BY DEF Requests
<1> TypeOK /\ VerificationInv(v)
  BY DEF InterbankInv
<1> DEFINE t == subject[v]
<1>1. t \in Transfers /\ TransferInv(t) /\ pc[t] = "accepted"
  BY DEF CheckStatus, Goes, VerificationInv, InterbankInv
<1>2. /\ pc[v] = "checking" /\ pc' = [pc EXCEPT ![v] = "updating"]
      /\ result' = [result EXCEPT ![v] = StatusOf(t)]
      /\ UNCHANGED <<row, bank, subject, fresh, throws, dbErrors, crashes>>
  BY DEF CheckStatus, Goes, faultVars
<1>3. /\ StatusOf(t) \in {"PROCESSING", "COMPLETED", "FAILED"}
      /\ StatusOf(t) \in Final => bank[t] = StatusOf(t)
      /\ bank[t] \in Final => bank[t] = StatusOf(t)
  BY <1>1 DEF StatusOf, TransferInv, TypeOK, Final
<1>4. TypeOK'
  BY <1>2, <1>3 DEF TypeOK, Ends, Status
<1>5. \A u \in Transfers : TransferInv(u)'
  BY <1>2, Others, InterbankAssumption DEF Faulty
<1>6. /\ pc'[v] = "updating" /\ result'[v] = StatusOf(t)
      /\ \A u \in Transfers : pc'[u] = pc[u]
      /\ \A u \in Verifications \ {v} : pc'[u] = pc[u] /\ result'[u] = result[u]
  BY <1>2, InterbankAssumption DEF TypeOK, Requests
<1>7. \A u \in Verifications : VerificationInv(u)'
  <2>1. VerificationInv(v)'
    BY <1>1, <1>2, <1>3, <1>6 DEF VerificationInv
  <2>2. \A u \in Verifications \ {v} : VerificationInv(u)'
    BY <1>2, <1>6 DEF InterbankInv, VerificationInv
  <2>3. QED
    BY <2>1, <2>2
<1>8. \A u \in Verifications : FreshInv(u)'
  <2> HIDE DEF t
  <2>1. t = subject[v]
    BY DEF t
  <2>2. QED
    BY <1>2, <1>3, <1>6, <2>1 DEF InterbankInv, FreshInv
<1>9. QED
  BY <1>4, <1>5, <1>7, <1>8 DEF InterbankInv

\* An update writes the bank's decision, or that there was none, into the row of
\* a transfer that it accepted.
LEMMA UpdateKeepsInv ==
  ASSUME InterbankInv, NEW v \in Verifications, UpdateStatus(v)
  PROVE  InterbankInv'
<1> v \in Requests
  BY DEF Requests
<1> TypeOK /\ VerificationInv(v)
  BY DEF InterbankInv
<1> DEFINE new == [status |-> result[v], completedAt |-> result[v] = "COMPLETED"]
<1>0. PICK t \in Transfers : t = subject[v]
  BY DEF UpdateStatus, Goes, VerificationInv
<1>1. TransferInv(t) /\ pc[t] = "accepted"
  BY <1>0 DEF UpdateStatus, Goes, VerificationInv, InterbankInv
<1>2. /\ pc[v] = "updating" /\ pc' = [pc EXCEPT ![v] = "answered"]
      /\ row' = [row EXCEPT ![t] = new]
      /\ UNCHANGED <<bank, subject, result, fresh, throws, dbErrors, crashes>>
  BY <1>0 DEF UpdateStatus, Goes, Stays, faultVars
<1>3. /\ result[v] \in {"PROCESSING", "COMPLETED", "FAILED"}
      /\ result[v] \in Final => bank[t] = result[v]
  BY <1>0, <1>1, <1>2 DEF VerificationInv
<1>4. new \in Row /\ new.status = result[v]
      /\ (new.completedAt <=> result[v] = "COMPLETED")
  BY <1>3 DEF Row, Status
<1>5. \A u \in Verifications :
        subject[u] = t /\ fresh[u] => result[v] = bank[t]
  BY <1>0, <1>2 DEF InterbankInv, FreshInv
<1> HIDE DEF new
<1>6. TypeOK'
  BY <1>1, <1>2, <1>4 DEF TypeOK, Ends
<1>7. /\ pc'[v] = "answered" /\ pc'[t] = pc[t] /\ row'[t] = new
      /\ \A u \in Transfers : pc'[u] = pc[u]
      /\ \A u \in Verifications \ {v} : pc'[u] = pc[u]
      /\ \A u \in Transfers \ {t} : row'[u] = row[u]
  BY <1>1, <1>2, InterbankAssumption DEF TypeOK, Requests
<1>8. \A u \in Transfers : TransferInv(u)'
  <2>1. TransferInv(t)'
    BY <1>1, <1>2, <1>3, <1>4, <1>7 DEF TransferInv, Final, Faulty
  <2>2. \A u \in Transfers \ {t} : TransferInv(u)'
    BY <1>2, <1>7 DEF InterbankInv, TransferInv, Faulty
  <2>3. QED
    BY <2>1, <2>2
<1>9. \A u \in Verifications : VerificationInv(u)'
  <2>1. VerificationInv(v)'
    BY <1>0, <1>1, <1>2, <1>3, <1>7 DEF VerificationInv
  <2>2. \A u \in Verifications \ {v} : VerificationInv(u)'
    BY <1>2, <1>7 DEF InterbankInv, VerificationInv
  <2>3. QED
    BY <2>1, <2>2
<1>10. \A u \in Verifications : FreshInv(u)'
  <2> SUFFICES ASSUME NEW u \in Verifications, fresh[u] PROVE FreshInv(u)'
    BY <1>2 DEF FreshInv
  <2>1. FreshInv(u) /\ VerificationInv(u)
    BY DEF InterbankInv
  <2>2. \A w \in Verifications :
          subject'[w] = subject'[u] /\ pc'[w] = "updating" =>
            result'[w] = bank'[subject'[u]]
    BY <1>2, <1>7, <2>1 DEF FreshInv
  <2>3. pc'[u] = "answered" => row'[subject[u]].status = bank[subject[u]]
    <3>1. CASE subject[u] = t
      BY <1>4, <1>5, <1>7, <3>1
    <3>2. CASE subject[u] # t
      <4>1. u # v
        BY <1>0, <3>2
      <4>2. pc[u] # "idle" /\ subject[u] \in Transfers
        BY <2>1 DEF FreshInv, VerificationInv
      <4>3. QED
        BY <1>7, <2>1, <3>2, <4>1, <4>2 DEF FreshInv
    <3>3. QED
      BY <3>1, <3>2
  <2>4. pc'[u] # "idle"
    BY <1>7, <2>1 DEF FreshInv
  <2>5. QED
    BY <1>2, <2>1, <2>2, <2>3, <2>4 DEF FreshInv
<1>11. QED
  BY <1>6, <1>8, <1>9, <1>10 DEF InterbankInv

\* Failing queries and crashes cut handlers short.
LEMMA ErrorKeepsInv ==
  ASSUME InterbankInv, NEW r \in Requests, DbError(r)
  PROVE  InterbankInv'
<1> TypeOK
  BY DEF InterbankInv
<1>1. /\ pc' = [pc EXCEPT ![r] = AfterError(r)]
      /\ pc[r] \in {"inserting", "marking", "refusing", "failing", "updating"}
      /\ UNCHANGED <<row, bank, subject, result, fresh, throws, crashes>>
  BY DEF DbError
<1>2. TypeOK' /\ Faulty'
  BY InterbankAssumption DEF DbError, AfterError, TypeOK, Ends, Faulty
<1>3. CASE r \in Transfers
  <2>1. TransferInv(r)'
    BY <1>1, <1>2, <1>3 DEF AfterError, InterbankInv, TransferInv, TypeOK
  <2>2. QED
    BY <1>1, <1>2, <1>3, <2>1, TransferStep
<1>4. CASE r \in Verifications
  <2>1. AfterError(r) = "errored" /\ pc[r] # "idle"
    BY <1>1, <1>4 DEF AfterError, InterbankInv, VerificationInv
  <2>2. QED
    BY <1>1, <1>2, <1>4, <2>1, VerificationStep
<1>5. QED
  BY <1>3, <1>4 DEF Requests

\* A crash ends the requests under way.
LEMMA CrashKeepsInv ==
  ASSUME InterbankInv, Crash
  PROVE  InterbankInv'
<1> TypeOK
  BY DEF InterbankInv
<1>1. /\ \A r \in Requests :
           pc'[r] = IF pc[r] \in Ends \cup {"idle"} THEN pc[r] ELSE "lost"
      /\ UNCHANGED <<row, bank, subject, result, fresh, throws, dbErrors>>
  BY DEF Crash
<1>2. TypeOK'
  BY InterbankAssumption DEF Crash, TypeOK, Ends
<1>3. \A t \in Transfers : TransferInv(t)'
  BY <1>1 DEF InterbankInv, TransferInv, Requests, Ends, Faulty
<1>4. \A v \in Verifications : VerificationInv(v)'
  <2> SUFFICES ASSUME NEW v \in Verifications PROVE VerificationInv(v)'
    OBVIOUS
  <2>1. VerificationInv(v) /\ v \in Requests
    BY DEF InterbankInv, Requests
  <2>2. pc[v] # "idle" =>
          /\ subject[v] \in Transfers
          /\ pc'[subject[v]] = pc[subject[v]]
    BY <1>1, <2>1 DEF VerificationInv, Requests, Ends
  <2>3. QED
    BY <1>1, <2>1, <2>2 DEF VerificationInv, Ends
<1>5. \A v \in Verifications : FreshInv(v)'
  BY <1>1 DEF InterbankInv, FreshInv, Requests, Ends
<1>6. QED
  BY <1>2, <1>3, <1>4, <1>5 DEF InterbankInv

\* Every step keeps the invariant.
LEMMA StepKeepsInv == InterbankInv /\ [Next]_vars => InterbankInv'
<1> SUFFICES ASSUME InterbankInv, [Next]_vars PROVE InterbankInv'
  OBVIOUS
<1>1. CASE \E t \in Transfers : Initiate(t) \/ BankDecides(t)
  BY <1>1, InitiateKeepsInv, DecisionKeepsInv
<1>2. CASE \E v \in Verifications, t \in Transfers : ReadTransfer(v, t)
  BY <1>2, ReadKeepsInv
<1>3. ASSUME NEW v \in Verifications, CheckThrows(v) PROVE InterbankInv'
  <2>1. /\ TypeOK /\ pc' = [pc EXCEPT ![v] = "errored"]
        /\ UNCHANGED <<row, bank, subject, result, fresh, dbErrors, crashes>>
    BY <1>3, InterbankAssumption DEF CheckThrows, Throws, Goes, InterbankInv, TypeOK
  <2>2. throws' \in 0 .. MaxThrows
    BY <1>3, InterbankAssumption DEF CheckThrows, Throws, InterbankInv, TypeOK
  <2>3. TypeOK'
    BY <2>1, <2>2 DEF TypeOK, Ends
  <2>4. Faulty => Faulty'
    <3>1. throws \in Nat /\ dbErrors \in Nat /\ dbErrors' = dbErrors
      BY <2>1, InterbankAssumption DEF TypeOK
    <3>2. throws' = throws \/ throws' = throws + 1
      BY <1>3 DEF CheckThrows, Throws
    <3>3. CASE throws' = throws
      BY <3>1, <3>3 DEF Faulty
    <3>4. CASE throws' = throws + 1
      BY <3>1, <3>4 DEF Faulty
    <3>5. QED
      BY <3>2, <3>3, <3>4
  <2>5. QED
    BY <1>3, <2>3, <2>4, VerificationStep DEF CheckThrows, Goes
<1>4. CASE \E v \in Verifications : Verify(v)
  BY <1>3, <1>4, CheckKeepsInv, UpdateKeepsInv DEF Verify
<1>5. CASE \E r \in Requests : DbError(r)
  BY <1>5, ErrorKeepsInv
<1>6. CASE Crash
  BY <1>6, CrashKeepsInv
<1>7. CASE UNCHANGED vars
  BY <1>7 DEF vars, requestVars, faultVars, InterbankInv, TypeOK, TransferInv,
     VerificationInv, FreshInv, Faulty
<1>8. QED
  BY <1>1, <1>2, <1>4, <1>5, <1>6, <1>7 DEF Next

\* The invariant holds in every reachable state.
THEOREM InterbankInvariant == Spec => []InterbankInv
  BY InterbankInvInit, StepKeepsInv, PTL DEF Spec

-----------------------------------------------------------------------------
(* Theorems                                                                *)

\* Rows and answers follow the bank, for any number of overlapping
\* verifications and of faults.
THEOREM ReportsAreRight == Spec => []ReportsFollowBank
<1>1. InterbankInv => RowsFollowBank
  <2> SUFFICES ASSUME InterbankInv, NEW t \in Transfers
               PROVE  /\ row[t].status = "COMPLETED" => bank[t] = "COMPLETED"
                      /\ row[t].status = "FAILED" =>
                           \/ bank[t] \in {"unknown", "FAILED"}
                           \/ pc[t] # "accepted" /\ throws + dbErrors > 0
    BY DEF RowsFollowBank
  <2>1. TransferInv(t)
    BY DEF InterbankInv
  <2>2. QED
    BY <2>1 DEF TransferInv, Faulty, Final
<1>2. InterbankInv => AnswersFollowBank
  <2> SUFFICES ASSUME InterbankInv, NEW v \in Verifications, pc[v] = "answered",
                      pc[subject[v]] = "accepted"
               PROVE  /\ result[v] \in Final => bank[subject[v]] = result[v]
                      /\ bank[subject[v]] # "unknown"
    BY DEF AnswersFollowBank
  <2>1. VerificationInv(v)
    BY DEF InterbankInv
  <2>2. subject[v] \in Transfers
    BY <2>1 DEF VerificationInv
  <2>3. TransferInv(subject[v])
    BY <2>2 DEF InterbankInv
  <2>4. QED
    BY <2>1, <2>3 DEF VerificationInv, TransferInv
<1>3. InterbankInv => CompletionStamped
  BY DEF InterbankInv, TransferInv, CompletionStamped
<1>4. InterbankInv => ReportsFollowBank
  BY <1>1, <1>2, <1>3 DEF ReportsFollowBank, InterbankInv
<1>5. QED
  BY <1>4, InterbankInvariant, PTL

\* A fresh verification settles the row for good, whatever comes later.
THEOREM FreshVerificationsSettle == Spec => []FreshVerificationSettles
<1>1. InterbankInv => FreshVerificationSettles
  BY DEF InterbankInv, FreshInv, FreshVerificationSettles
<1>2. QED
  BY <1>1, InterbankInvariant, PTL

\* An accepted transfer stays accepted, and the bank's decision stays what it is.
LEMMA DecidedStays ==
  ASSUME InterbankInv, [Next]_vars, NEW t \in Transfers
  PROVE  /\ pc[t] = "accepted" => pc'[t] = "accepted"
         /\ pc'[t] = "accepted" => pc[t] \in {"marking", "accepted"}
         /\ bank[t] \in Final => bank'[t] = bank[t]
<1> TypeOK /\ t \in Requests /\ t \notin Verifications
  BY InterbankAssumption DEF InterbankInv, Requests
<1>1. CASE \E u \in Transfers : Initiate(u)
  <2>1. PICK u \in Transfers : Initiate(u)
    BY <1>1
  <2>2. \E s \in Ends \cup {"inserting", "routing", "marking", "refusing", "failing"} :
          /\ pc' = [pc EXCEPT ![u] = s]
          /\ s = "accepted" => pc[u] = "marking"
    BY <2>1 DEF Initiate, CheckBanks, Insert, Route, RouteThrows, MarkProcessing,
       MarkRefused, MarkFailed, Goes, Ends
  <2>3. pc[u] # "accepted"
    BY <2>1 DEF Initiate, CheckBanks, Insert, Route, RouteThrows, MarkProcessing,
       MarkRefused, MarkFailed, Goes
  <2>4. /\ bank' = bank \/ bank' = [bank EXCEPT ![u] = "accepted"]
        /\ bank' # bank => pc[u] = "routing"
    BY <2>1 DEF Initiate, CheckBanks, Insert, Route, RouteThrows, MarkProcessing,
       MarkRefused, MarkFailed, Goes
  <2>5. pc[u] = "routing" => bank[u] = "unknown"
    BY DEF InterbankInv, TransferInv
  <2>6. bank[t] \in Final => bank'[t] = bank[t]
    BY <2>4, <2>5 DEF TypeOK, Final
  <2>7. QED
    BY <2>2, <2>3, <2>6 DEF TypeOK
<1>2. CASE \E u \in Transfers : BankDecides(u)
  BY <1>2 DEF BankDecides, requestVars, TypeOK, Final
<1>3. CASE \E v \in Verifications, u \in Transfers : ReadTransfer(v, u)
  BY <1>3 DEF ReadTransfer, Goes, TypeOK
<1>4. CASE \E v \in Verifications : Verify(v)
  BY <1>4 DEF Verify, CheckStatus, CheckThrows, UpdateStatus, Goes, TypeOK
<1>5. CASE \E r \in Requests : DbError(r)
  BY <1>5 DEF DbError, AfterError, TypeOK
<1>6. CASE Crash
  BY <1>6 DEF Crash, Ends
<1>7. CASE UNCHANGED vars
  BY <1>7 DEF vars, requestVars
<1>8. QED
  BY <1>1, <1>2, <1>3, <1>4, <1>5, <1>6, <1>7 DEF Next

\* No step turns a completed transfer into a failed one or the reverse.
THEOREM DecisionsHold == Spec => DecisionNeverFlips
<1> DEFINE Holds ==
      \A t \in Transfers :
        /\ row[t].status = "COMPLETED" => row'[t].status # "FAILED"
        /\ row[t].status = "FAILED" => row'[t].status # "COMPLETED"
<1>1. InterbankInv /\ InterbankInv' /\ [Next]_vars => [Holds]_vars
  <2> SUFFICES ASSUME InterbankInv, InterbankInv', [Next]_vars, NEW t \in Transfers
               PROVE  /\ row[t].status = "COMPLETED" => row'[t].status # "FAILED"
                      /\ row[t].status = "FAILED" => row'[t].status # "COMPLETED"
    OBVIOUS
  <2>1. TransferInv(t) /\ TransferInv(t)'
    BY DEF InterbankInv
  <2>2. /\ row[t].status = "COMPLETED" => pc[t] = "accepted"
        /\ row'[t].status = "COMPLETED" => pc'[t] = "accepted"
    BY <2>1 DEF TransferInv
  <2>3. QED
    BY <2>1, <2>2, DecidedStays DEF TransferInv, Final
<1>2. QED
  BY <1>1, InterbankInvariant, PTL DEF Spec, DecisionNeverFlips
=============================================================================

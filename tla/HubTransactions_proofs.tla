----------------------- MODULE HubTransactions_proofs -----------------------
(***************************************************************************)
(* Proofs about the clearing hub, for every set of requests and            *)
(* verifications and every bound on retries, errors and crashes.           *)
(*                                                                         *)
(* None of the safety properties is inductive: they relate the row to what *)
(* the handlers in progress will still do to it.  IInv adds those links.   *)
(***************************************************************************)
EXTENDS HubTransactions, TLAPS

\* The row, the ledger entries and the processing appear in this order, and
\* each of them only through recordTransaction.
BookInv ==
  \A r \in Requests :
    /\ recorder[r] \in {"saved", "done"} => Row(r)
    /\ recorder[r] \in {"idle", "checked", "refused"} => ~Row(r)
    /\ ledger[r] # "none" <=> recorder[r] = "done"
    /\ processor[r].pc # "none" => recorder[r] = "done"
    /\ status[r] \in {"PROCESSING", "AUTHORIZED"} => recorder[r] = "done"

\* What the running attempt adds to the attempts that retry_count counts; the
\* copy of the processor is up to date whenever it will be saved.
AttemptInv ==
  \A r \in Requests :
    /\ attempts[r] <= retryCount[r] + 1
    /\ attempts[r] <= MaxRetryAttempts
    /\ processor[r].pc = "none" => attempts[r] = 0
    /\ processor[r].pc \in Parties \cup {"authorizing", "failing"} =>
         attempts[r] > 0
    /\ processor[r].pc \in {"none", "finding", "marking", "waiting"} =>
         attempts[r] <= retryCount[r] /\ retryCount[r] < MaxRetryAttempts
    /\ processor[r].pc \in Parties \cup {"marking", "authorizing", "failing"} =>
         /\ processor[r].retryCount = retryCount[r]
         /\ retryCount[r] < MaxRetryAttempts

\* Who has accepted is known from where the processor stands, and an
\* AUTHORIZED row has no processor any more.
AcceptInv ==
  \A r \in Requests :
    /\ processor[r].pc = "source" => accepted[r] = {}
    /\ processor[r].pc = "destination" => accepted[r] = {"source"}
    /\ processor[r].pc = "shaparak" => accepted[r] = {"source", "destination"}
    /\ processor[r].pc = "authorizing" => accepted[r] = Parties
    /\ status[r] = "AUTHORIZED" =>
         accepted[r] = Parties /\ processor[r].pc = "ended"

\* A verification works on a row that exists, and reaches the ledger only
\* with all three confirmations.
VerifyInv ==
  \A v \in Verifications :
    /\ verifier[v].pc = "idle" =>
         verifier[v].row = {} /\ verifier[v].confirmed = {}
    /\ \A r \in verifier[v].row : Row(r) /\ verifier[v].row = {r}
    /\ verifier[v].pc = "settling" => AllConfirmed(v)

IInv ==
  /\ TypeOK
  /\ OneTransactionPerReference
  /\ BookInv
  /\ AttemptInv
  /\ AcceptInv
  /\ VerifyInv
  /\ SettledIsConfirmed
-----------------------------------------------------------------------------
(* Type correctness.                                                       *)

VerifierType ==
  [pc : VerifierStates, row : SUBSET Requests, confirmed : SUBSET Parties]

\* A verification that moves on keeps its type.
LEMMA VerifierMove ==
  ASSUME TypeOK, NEW v \in Verifications, NEW from,
         NEW to \in VerifierStates, Verifier(v, from, to)
  PROVE  verifier' \in [Verifications -> VerifierType]
  BY DEF TypeOK, Verifier, VerifierType

\* Every step keeps the types.
LEMMA TypeStep == TypeOK /\ [Next]_vars => TypeOK'
<1> SUFFICES ASSUME TypeOK, [Next]_vars PROVE TypeOK'
  OBVIOUS
<1> USE DEF TypeOK, vars, database, history, faults, Status, Parties, RecorderStates, ProcessorStates, VerifierStates
<1>1. ASSUME NEW r \in Requests, RecordCheck(r)
      PROVE  TypeOK'
  BY <1>1 DEF RecordCheck, Recorder
<1>2. ASSUME NEW r \in Requests, RecordSave(r)
      PROVE  TypeOK'
  <2>1. CASE UNCHANGED status
    BY <1>2, <2>1 DEF RecordSave, Recorder
  <2>2. CASE status' = [status EXCEPT ![r] = "PENDING"]
    BY <1>2, <2>2 DEF RecordSave, Recorder
  <2>3. QED
    BY <1>2, <2>1, <2>2 DEF RecordSave
<1>3. ASSUME NEW r \in Requests, RecordPost(r)
      PROVE  TypeOK'
  BY <1>3 DEF RecordPost, Recorder
<1>4. ASSUME NEW r \in Requests, RecordError(r)
      PROVE  TypeOK'
  BY <1>4 DEF RecordError, Recorder, DbFails
<1>5. ASSUME NEW r \in Requests, ProcessFind(r)
      PROVE  TypeOK'
  BY <1>5 DEF ProcessFind, Row
<1>6. ASSUME NEW r \in Requests, ProcessMark(r)
      PROVE  TypeOK'
  BY <1>6 DEF ProcessMark, Processor, SaveEntity
<1>7. ASSUME NEW r \in Requests, NEW p \in Parties, ProcessAccepted(r, p)
      PROVE  TypeOK'
  BY <1>7 DEF ProcessAccepted, Processor, Following
<1>8. ASSUME NEW r \in Requests, NEW p \in Parties, ProcessRefused(r, p)
      PROVE  TypeOK'
  BY <1>8 DEF ProcessRefused, Processor
<1>9. ASSUME NEW r \in Requests, ProcessAuthorize(r)
      PROVE  TypeOK'
  BY <1>9 DEF ProcessAuthorize, Processor, SaveEntity
<1>10. ASSUME NEW r \in Requests, ProcessFail(r)
      PROVE  TypeOK'
  BY <1>10 DEF ProcessFail, SaveEntity
<1>11. ASSUME NEW r \in Requests, ProcessRetry(r)
      PROVE  TypeOK'
  BY <1>11 DEF ProcessRetry, Processor
<1>12. ASSUME NEW r \in Requests, ProcessError(r)
      PROVE  TypeOK'
  BY <1>12 DEF ProcessError, Processor, DbFails
<1>13. ASSUME NEW v \in Verifications, NEW ref \in References, VerifyRead(v, ref)
      PROVE  TypeOK'
  <2>1. CASE Verifier(v, "idle", "ended")
    <3>1. verifier' \in [Verifications -> VerifierType]
      BY <2>1, VerifierMove
    <3>2. QED
      BY <1>13, <2>1, <3>1 DEF VerifyRead, Verifier, VerifierType
  <2>2. ASSUME NEW r \in Requests,
               verifier' = [verifier EXCEPT ![v] =
                 [pc |-> "source", row |-> {r}, confirmed |-> {}]],
               UNCHANGED <<recorder, processor, history>>
        PROVE  TypeOK'
    <3>1. verifier' \in [Verifications -> VerifierType]
      BY <2>2 DEF VerifierType
    <3>2. QED
      BY <1>13, <2>2, <3>1 DEF VerifyRead, VerifierType
  <2>3. QED
    BY <1>13, <2>1, <2>2 DEF VerifyRead, Rows
<1>14. ASSUME NEW v \in Verifications, NEW p \in Parties, NEW verified \in BOOLEAN, VerifyReply(v, p, verified)
      PROVE  TypeOK'
  <2>1. PICK pc \in VerifierStates, confirmed \in SUBSET Parties :
          verifier' = [verifier EXCEPT ![v].pc = pc, ![v].confirmed = confirmed]
    BY <1>14 DEF VerifyReply, Following
  <2>2. verifier \in [Verifications -> VerifierType]
    BY DEF VerifierType
  <2>3. verifier[v] \in VerifierType
    BY <2>2
  <2>4. [verifier[v] EXCEPT !.pc = pc, !.confirmed = confirmed] \in VerifierType
    BY <2>3 DEF VerifierType
  <2>5. verifier' \in [Verifications -> VerifierType]
    BY <2>1, <2>2, <2>4
  <2>6. QED
    BY <1>14, <2>5 DEF VerifyReply, VerifierType
<1>15. ASSUME NEW v \in Verifications, NEW p \in Parties, VerifyRefused(v, p)
      PROVE  TypeOK'
  <2>1. verifier' \in [Verifications -> VerifierType]
    BY <1>15, VerifierMove DEF VerifyRefused
  <2>2. QED
    BY <1>15, <2>1 DEF VerifyRefused, Verifier, VerifierType
<1>16. ASSUME NEW v \in Verifications, VerifySettle(v)
      PROVE  TypeOK'
  <2>1. verifier' \in [Verifications -> VerifierType]
    BY <1>16, VerifierMove DEF VerifySettle, VerifierType
  <2>2. ledger' \in [Requests -> {"none", "posted", "settled"}]
    BY <1>16 DEF VerifySettle
  <2>3. QED
    BY <1>16, <2>1, <2>2 DEF VerifySettle, Verifier, VerifierType
<1>17. ASSUME NEW v \in Verifications, VerifySave(v)
      PROVE  TypeOK'
  <2>1. verifier' \in [Verifications -> VerifierType]
    BY <1>17, VerifierMove DEF VerifySave, VerifierType
  <2>2. status' \in [Requests -> Status]
    BY <1>17 DEF VerifySave, SaveCopy
  <2>3. QED
    BY <1>17, <2>1, <2>2 DEF VerifySave, SaveCopy, Verifier, VerifierType
<1>18. ASSUME NEW v \in Verifications, VerifyRescue(v)
      PROVE  TypeOK'
  <2>1. verifier' \in [Verifications -> VerifierType]
    BY <1>18, VerifierMove DEF VerifyRescue, VerifierType
  <2>2. status' \in [Requests -> Status]
    BY <1>18 DEF VerifyRescue, SaveCopy
  <2>3. QED
    BY <1>18, <2>1, <2>2 DEF VerifyRescue, SaveCopy, Verifier, VerifierType
<1>19. ASSUME NEW v \in Verifications, VerifyError(v)
      PROVE  TypeOK'
  <2>1. PICK from \in VerifierStates, to \in {"ended", "rescuing"} :
          Verifier(v, from, to)
    BY <1>19 DEF VerifyError
  <2>2. verifier' \in [Verifications -> VerifierType]
    BY <2>1, VerifierMove
  <2>3. QED
    BY <1>19, <2>1, <2>2 DEF VerifyError, DbFails, Verifier, VerifierType
<1>20. CASE Crash
  <2>1. recorder' \in [Requests -> RecorderStates]
    BY <1>20 DEF Crash
  <2>2. processor' \in [Requests -> [pc : ProcessorStates, retryCount : Nat]]
    BY <1>20 DEF Crash
  <2>3. verifier' \in [Verifications -> VerifierType]
    <3>1. verifier' = [v \in Verifications |->
            IF VerifierRunning(v) THEN [verifier[v] EXCEPT !.pc = "lost"]
            ELSE verifier[v]]
      BY <1>20 DEF Crash
    <3>2. ASSUME NEW v \in Verifications
          PROVE  [verifier[v] EXCEPT !.pc = "lost"] \in VerifierType
      <4>1. verifier[v] \in VerifierType
        BY DEF VerifierType
      <4>2. QED
        BY <4>1 DEF VerifierType
    <3>3. ASSUME NEW v \in Verifications
          PROVE  verifier[v] \in VerifierType
      BY DEF VerifierType
    <3>4. QED
      BY ONLY <3>1, <3>2, <3>3
  <2>4. QED
    BY <1>20, <2>1, <2>2, <2>3 DEF Crash, VerifierType
<1>21. CASE UNCHANGED vars
  BY <1>21
<1>22. QED
  BY <1>1, <1>2, <1>3, <1>4, <1>5, <1>6, <1>7, <1>8, <1>9, <1>10, <1>11, <1>12, <1>13, <1>14, <1>15, <1>16, <1>17, <1>18, <1>19, <1>20, <1>21
  DEF Next, Record, Process, Reply, Verify, VerifyAnswer
\* The order of row, ledger entries and processing.
LEMMA BookStep == TypeOK /\ BookInv /\ VerifyInv /\ [Next]_vars => BookInv'
<1> SUFFICES ASSUME TypeOK /\ BookInv /\ VerifyInv, [Next]_vars PROVE BookInv'
  OBVIOUS
<1> USE DEF TypeOK, database, history, faults, BookInv, VerifyInv, Row, Rows, Parties
<1>1. ASSUME NEW r \in Requests, RecordCheck(r)
      PROVE  BookInv'
  BY <1>1 DEF RecordCheck, Recorder
<1>2. ASSUME NEW r \in Requests, RecordSave(r)
      PROVE  BookInv'
  BY <1>2 DEF RecordSave, Recorder
<1>3. ASSUME NEW r \in Requests, RecordPost(r)
      PROVE  BookInv'
  BY <1>3 DEF RecordPost, Recorder
<1>4. ASSUME NEW r \in Requests, RecordError(r)
      PROVE  BookInv'
  BY <1>4 DEF RecordError, Recorder, DbFails
<1>5. ASSUME NEW r \in Requests, ProcessFind(r)
      PROVE  BookInv'
  BY <1>5 DEF ProcessFind
<1>6. ASSUME NEW r \in Requests, ProcessMark(r)
      PROVE  BookInv'
  BY <1>6 DEF ProcessMark, Processor, SaveEntity
<1>7. ASSUME NEW r \in Requests, NEW p \in Parties, ProcessAccepted(r, p)
      PROVE  BookInv'
  BY <1>7 DEF ProcessAccepted, Processor, Following
<1>8. ASSUME NEW r \in Requests, NEW p \in Parties, ProcessRefused(r, p)
      PROVE  BookInv'
  BY <1>8 DEF ProcessRefused, Processor
<1>9. ASSUME NEW r \in Requests, ProcessAuthorize(r)
      PROVE  BookInv'
  BY <1>9 DEF ProcessAuthorize, Processor, SaveEntity
<1>10. ASSUME NEW r \in Requests, ProcessFail(r)
      PROVE  BookInv'
  BY <1>10 DEF ProcessFail, SaveEntity
<1>11. ASSUME NEW r \in Requests, ProcessRetry(r)
      PROVE  BookInv'
  BY <1>11 DEF ProcessRetry, Processor
<1>12. ASSUME NEW r \in Requests, ProcessError(r)
      PROVE  BookInv'
  BY <1>12 DEF ProcessError, Processor, DbFails
<1>13. ASSUME NEW v \in Verifications, NEW ref \in References, VerifyRead(v, ref)
      PROVE  BookInv'
  BY <1>13 DEF VerifyRead, Verifier
<1>14. ASSUME NEW v \in Verifications, NEW p \in Parties, NEW verified \in BOOLEAN, VerifyReply(v, p, verified)
      PROVE  BookInv'
  BY <1>14 DEF VerifyReply, Following
<1>15. ASSUME NEW v \in Verifications, NEW p \in Parties, VerifyRefused(v, p)
      PROVE  BookInv'
  BY <1>15 DEF VerifyRefused, Verifier
<1>16. ASSUME NEW v \in Verifications, VerifySettle(v)
      PROVE  BookInv'
  BY <1>16 DEF VerifySettle, Verifier
<1>17. ASSUME NEW v \in Verifications, VerifySave(v)
      PROVE  BookInv'
  BY <1>17 DEF VerifySave, Verifier, SaveCopy
<1>18. ASSUME NEW v \in Verifications, VerifyRescue(v)
      PROVE  BookInv'
  BY <1>18 DEF VerifyRescue, Verifier, SaveCopy
<1>19. ASSUME NEW v \in Verifications, VerifyError(v)
      PROVE  BookInv'
  BY <1>19 DEF VerifyError, Verifier, DbFails
<1>20. CASE Crash
  BY <1>20 DEF Crash, RecorderRunning, ProcessorRunning, VerifierRunning
<1>21. CASE UNCHANGED vars
  BY <1>21 DEF vars
<1>22. QED
  BY <1>1, <1>2, <1>3, <1>4, <1>5, <1>6, <1>7, <1>8, <1>9, <1>10, <1>11, <1>12, <1>13, <1>14, <1>15, <1>16, <1>17, <1>18, <1>19, <1>20, <1>21
  DEF Next, Record, Process, Reply, Verify, VerifyAnswer

\* Every attempt is counted, and there are no more than allowed.
LEMMA AttemptStep == TypeOK /\ BookInv /\ AttemptInv /\ [Next]_vars => AttemptInv'
<1> SUFFICES ASSUME TypeOK /\ BookInv /\ AttemptInv, [Next]_vars PROVE AttemptInv'
  OBVIOUS
<1> USE DEF TypeOK, database, history, faults, BookInv, AttemptInv, Parties
<1>1. ASSUME NEW r \in Requests, RecordCheck(r)
      PROVE  AttemptInv'
  BY <1>1 DEF RecordCheck, Recorder
<1>2. ASSUME NEW r \in Requests, RecordSave(r)
      PROVE  AttemptInv'
  BY <1>2 DEF RecordSave, Recorder
<1>3. ASSUME NEW r \in Requests, RecordPost(r)
      PROVE  AttemptInv'
  BY <1>3 DEF RecordPost, Recorder
<1>4. ASSUME NEW r \in Requests, RecordError(r)
      PROVE  AttemptInv'
  BY <1>4 DEF RecordError, Recorder, DbFails
<1>5. ASSUME NEW r \in Requests, ProcessFind(r)
      PROVE  AttemptInv'
  BY <1>5 DEF ProcessFind
<1>6. ASSUME NEW r \in Requests, ProcessMark(r)
      PROVE  AttemptInv'
  <2>1. /\ processor[r].retryCount = retryCount[r]
        /\ attempts[r] <= retryCount[r] /\ retryCount[r] < MaxRetryAttempts
    BY <1>6 DEF ProcessMark, Processor
  <2>2. retryCount' = retryCount /\ attempts'[r] = attempts[r] + 1
    BY <1>6, <2>1 DEF ProcessMark, SaveEntity
  <2>3. attempts'[r] <= retryCount[r] + 1 /\ attempts'[r] <= MaxRetryAttempts
    BY <2>1, <2>2, HubAssumption
  <2>4. processor' = [processor EXCEPT ![r].pc = "source"]
    BY <1>6 DEF ProcessMark, Processor
  <2>5. \A q \in Requests : q # r => attempts'[q] = attempts[q]
    BY <1>6 DEF ProcessMark
  <2>6. QED
    BY <2>1, <2>2, <2>3, <2>4, <2>5
<1>7. ASSUME NEW r \in Requests, NEW p \in Parties, ProcessAccepted(r, p)
      PROVE  AttemptInv'
  BY <1>7 DEF ProcessAccepted, Processor, Following
<1>8. ASSUME NEW r \in Requests, NEW p \in Parties, ProcessRefused(r, p)
      PROVE  AttemptInv'
  BY <1>8 DEF ProcessRefused, Processor
<1>9. ASSUME NEW r \in Requests, ProcessAuthorize(r)
      PROVE  AttemptInv'
  BY <1>9 DEF ProcessAuthorize, Processor, SaveEntity
<1>10. ASSUME NEW r \in Requests, ProcessFail(r)
      PROVE  AttemptInv'
  BY <1>10 DEF ProcessFail, SaveEntity
<1>11. ASSUME NEW r \in Requests, ProcessRetry(r)
      PROVE  AttemptInv'
  BY <1>11 DEF ProcessRetry, Processor
<1>12. ASSUME NEW r \in Requests, ProcessError(r)
      PROVE  AttemptInv'
  <2>1. CASE Processor(r, "authorizing", "failing")
    BY <1>12, <2>1 DEF ProcessError, Processor, DbFails
  <2>2. ASSUME processor' = [processor EXCEPT ![r].pc = "ended"]
        PROVE  AttemptInv'
    BY <1>12, <2>2 DEF ProcessError, DbFails
  <2>3. QED
    BY <1>12, <2>1, <2>2 DEF ProcessError, Processor
<1>13. ASSUME NEW v \in Verifications, NEW ref \in References, VerifyRead(v, ref)
      PROVE  AttemptInv'
  BY <1>13 DEF VerifyRead, Verifier
<1>14. ASSUME NEW v \in Verifications, NEW p \in Parties, NEW verified \in BOOLEAN, VerifyReply(v, p, verified)
      PROVE  AttemptInv'
  BY <1>14 DEF VerifyReply, Following
<1>15. ASSUME NEW v \in Verifications, NEW p \in Parties, VerifyRefused(v, p)
      PROVE  AttemptInv'
  BY <1>15 DEF VerifyRefused, Verifier
<1>16. ASSUME NEW v \in Verifications, VerifySettle(v)
      PROVE  AttemptInv'
  BY <1>16 DEF VerifySettle, Verifier
<1>17. ASSUME NEW v \in Verifications, VerifySave(v)
      PROVE  AttemptInv'
  BY <1>17 DEF VerifySave, Verifier, SaveCopy
<1>18. ASSUME NEW v \in Verifications, VerifyRescue(v)
      PROVE  AttemptInv'
  BY <1>18 DEF VerifyRescue, Verifier, SaveCopy
<1>19. ASSUME NEW v \in Verifications, VerifyError(v)
      PROVE  AttemptInv'
  BY <1>19 DEF VerifyError, Verifier, DbFails
<1>20. CASE Crash
  BY <1>20 DEF Crash, RecorderRunning, ProcessorRunning, VerifierRunning
<1>21. CASE UNCHANGED vars
  BY <1>21 DEF vars
<1>22. QED
  BY <1>1, <1>2, <1>3, <1>4, <1>5, <1>6, <1>7, <1>8, <1>9, <1>10, <1>11, <1>12, <1>13, <1>14, <1>15, <1>16, <1>17, <1>18, <1>19, <1>20, <1>21
  DEF Next, Record, Process, Reply, Verify, VerifyAnswer

\* Who has accepted.
LEMMA AcceptStep == TypeOK /\ BookInv /\ AcceptInv /\ [Next]_vars => AcceptInv'
<1> SUFFICES ASSUME TypeOK /\ BookInv /\ AcceptInv, [Next]_vars PROVE AcceptInv'
  OBVIOUS
<1> USE DEF TypeOK, database, history, faults, BookInv, AcceptInv, Parties
<1>1. ASSUME NEW r \in Requests, RecordCheck(r)
      PROVE  AcceptInv'
  BY <1>1 DEF RecordCheck, Recorder
<1>2. ASSUME NEW r \in Requests, RecordSave(r)
      PROVE  AcceptInv'
  BY <1>2 DEF RecordSave, Recorder
<1>3. ASSUME NEW r \in Requests, RecordPost(r)
      PROVE  AcceptInv'
  BY <1>3 DEF RecordPost, Recorder
<1>4. ASSUME NEW r \in Requests, RecordError(r)
      PROVE  AcceptInv'
  BY <1>4 DEF RecordError, Recorder, DbFails
<1>5. ASSUME NEW r \in Requests, ProcessFind(r)
      PROVE  AcceptInv'
  BY <1>5 DEF ProcessFind
<1>6. ASSUME NEW r \in Requests, ProcessMark(r)
      PROVE  AcceptInv'
  BY <1>6 DEF ProcessMark, Processor, SaveEntity
<1>7. ASSUME NEW r \in Requests, NEW p \in Parties, ProcessAccepted(r, p)
      PROVE  AcceptInv'
  BY <1>7 DEF ProcessAccepted, Processor, Following
<1>8. ASSUME NEW r \in Requests, NEW p \in Parties, ProcessRefused(r, p)
      PROVE  AcceptInv'
  BY <1>8 DEF ProcessRefused, Processor
<1>9. ASSUME NEW r \in Requests, ProcessAuthorize(r)
      PROVE  AcceptInv'
  BY <1>9 DEF ProcessAuthorize, Processor, SaveEntity
<1>10. ASSUME NEW r \in Requests, ProcessFail(r)
      PROVE  AcceptInv'
  BY <1>10 DEF ProcessFail, SaveEntity
<1>11. ASSUME NEW r \in Requests, ProcessRetry(r)
      PROVE  AcceptInv'
  BY <1>11 DEF ProcessRetry, Processor
<1>12. ASSUME NEW r \in Requests, ProcessError(r)
      PROVE  AcceptInv'
  BY <1>12 DEF ProcessError, Processor, DbFails
<1>13. ASSUME NEW v \in Verifications, NEW ref \in References, VerifyRead(v, ref)
      PROVE  AcceptInv'
  BY <1>13 DEF VerifyRead, Verifier
<1>14. ASSUME NEW v \in Verifications, NEW p \in Parties, NEW verified \in BOOLEAN, VerifyReply(v, p, verified)
      PROVE  AcceptInv'
  BY <1>14 DEF VerifyReply, Following
<1>15. ASSUME NEW v \in Verifications, NEW p \in Parties, VerifyRefused(v, p)
      PROVE  AcceptInv'
  BY <1>15 DEF VerifyRefused, Verifier
<1>16. ASSUME NEW v \in Verifications, VerifySettle(v)
      PROVE  AcceptInv'
  BY <1>16 DEF VerifySettle, Verifier
<1>17. ASSUME NEW v \in Verifications, VerifySave(v)
      PROVE  AcceptInv'
  BY <1>17 DEF VerifySave, Verifier, SaveCopy
<1>18. ASSUME NEW v \in Verifications, VerifyRescue(v)
      PROVE  AcceptInv'
  BY <1>18 DEF VerifyRescue, Verifier, SaveCopy
<1>19. ASSUME NEW v \in Verifications, VerifyError(v)
      PROVE  AcceptInv'
  BY <1>19 DEF VerifyError, Verifier, DbFails
<1>20. CASE Crash
  BY <1>20 DEF Crash, RecorderRunning, ProcessorRunning, VerifierRunning
<1>21. CASE UNCHANGED vars
  BY <1>21 DEF vars
<1>22. QED
  BY <1>1, <1>2, <1>3, <1>4, <1>5, <1>6, <1>7, <1>8, <1>9, <1>10, <1>11, <1>12, <1>13, <1>14, <1>15, <1>16, <1>17, <1>18, <1>19, <1>20, <1>21
  DEF Next, Record, Process, Reply, Verify, VerifyAnswer

\* The row and the confirmations of a verification.
LEMMA VerifyStep == TypeOK /\ VerifyInv /\ [Next]_vars => VerifyInv'
<1> SUFFICES ASSUME TypeOK /\ VerifyInv, [Next]_vars PROVE VerifyInv'
  OBVIOUS
<1> USE DEF TypeOK, database, history, faults, VerifyInv, AllConfirmed, Row, Rows, Parties
<1>1. ASSUME NEW r \in Requests, RecordCheck(r)
      PROVE  VerifyInv'
  BY <1>1 DEF RecordCheck, Recorder
<1>2. ASSUME NEW r \in Requests, RecordSave(r)
      PROVE  VerifyInv'
  BY <1>2 DEF RecordSave, Recorder
<1>3. ASSUME NEW r \in Requests, RecordPost(r)
      PROVE  VerifyInv'
  BY <1>3 DEF RecordPost, Recorder
<1>4. ASSUME NEW r \in Requests, RecordError(r)
      PROVE  VerifyInv'
  BY <1>4 DEF RecordError, Recorder, DbFails
<1>5. ASSUME NEW r \in Requests, ProcessFind(r)
      PROVE  VerifyInv'
  BY <1>5 DEF ProcessFind
<1>6. ASSUME NEW r \in Requests, ProcessMark(r)
      PROVE  VerifyInv'
  BY <1>6 DEF ProcessMark, Processor, SaveEntity
<1>7. ASSUME NEW r \in Requests, NEW p \in Parties, ProcessAccepted(r, p)
      PROVE  VerifyInv'
  BY <1>7 DEF ProcessAccepted, Processor, Following
<1>8. ASSUME NEW r \in Requests, NEW p \in Parties, ProcessRefused(r, p)
      PROVE  VerifyInv'
  BY <1>8 DEF ProcessRefused, Processor
<1>9. ASSUME NEW r \in Requests, ProcessAuthorize(r)
      PROVE  VerifyInv'
  BY <1>9 DEF ProcessAuthorize, Processor, SaveEntity
<1>10. ASSUME NEW r \in Requests, ProcessFail(r)
      PROVE  VerifyInv'
  BY <1>10 DEF ProcessFail, SaveEntity
<1>11. ASSUME NEW r \in Requests, ProcessRetry(r)
      PROVE  VerifyInv'
  BY <1>11 DEF ProcessRetry, Processor
<1>12. ASSUME NEW r \in Requests, ProcessError(r)
      PROVE  VerifyInv'
  BY <1>12 DEF ProcessError, Processor, DbFails
<1>13. ASSUME NEW v \in Verifications, NEW ref \in References, VerifyRead(v, ref)
      PROVE  VerifyInv'
  <2>1. CASE Verifier(v, "idle", "ended")
    BY <1>13, <2>1 DEF VerifyRead, Verifier
  <2>2. ASSUME NEW r \in Rows(ref),
               verifier' = [verifier EXCEPT ![v] =
                 [pc |-> "source", row |-> {r}, confirmed |-> {}]]
        PROVE  VerifyInv'
    BY <1>13, <2>2 DEF VerifyRead
  <2>3. QED
    BY <1>13, <2>1, <2>2 DEF VerifyRead
<1>14. ASSUME NEW v \in Verifications, NEW p \in Parties, NEW verified \in BOOLEAN, VerifyReply(v, p, verified)
      PROVE  VerifyInv'
  BY <1>14 DEF VerifyReply, Following
<1>15. ASSUME NEW v \in Verifications, NEW p \in Parties, VerifyRefused(v, p)
      PROVE  VerifyInv'
  BY <1>15 DEF VerifyRefused, Verifier
<1>16. ASSUME NEW v \in Verifications, VerifySettle(v)
      PROVE  VerifyInv'
  BY <1>16 DEF VerifySettle, Verifier
<1>17. ASSUME NEW v \in Verifications, VerifySave(v)
      PROVE  VerifyInv'
  BY <1>17 DEF VerifySave, Verifier, SaveCopy
<1>18. ASSUME NEW v \in Verifications, VerifyRescue(v)
      PROVE  VerifyInv'
  BY <1>18 DEF VerifyRescue, Verifier, SaveCopy
<1>19. ASSUME NEW v \in Verifications, VerifyError(v)
      PROVE  VerifyInv'
  <2>1. PICK to \in {"ended", "rescuing"} :
          verifier' = [verifier EXCEPT ![v].pc = to]
    BY <1>19 DEF VerifyError, Verifier, VerifierStates
  <2>2. QED
    BY <1>19, <2>1 DEF VerifyError, DbFails
<1>20. CASE Crash
  BY <1>20 DEF Crash, RecorderRunning, ProcessorRunning, VerifierRunning
<1>21. CASE UNCHANGED vars
  BY <1>21 DEF vars
<1>22. QED
  BY <1>1, <1>2, <1>3, <1>4, <1>5, <1>6, <1>7, <1>8, <1>9, <1>10, <1>11, <1>12, <1>13, <1>14, <1>15, <1>16, <1>17, <1>18, <1>19, <1>20, <1>21
  DEF Next, Record, Process, Reply, Verify, VerifyAnswer

\* A verification that has all confirmations keeps them, and its row.
LEMMA ConfirmedStays == 
  ASSUME TypeOK, VerifyInv, [Next]_vars, NEW w \in Verifications, AllConfirmed(w)
  PROVE  AllConfirmed(w)' /\ verifier'[w].row = verifier[w].row
<1> USE DEF TypeOK, VerifyInv, AllConfirmed, Parties
<1>1. ASSUME NEW r \in Requests, RecordCheck(r)
      PROVE  AllConfirmed(w)' /\ verifier'[w].row = verifier[w].row
  BY <1>1 DEF RecordCheck, Recorder
<1>2. ASSUME NEW r \in Requests, RecordSave(r)
      PROVE  AllConfirmed(w)' /\ verifier'[w].row = verifier[w].row
  BY <1>2 DEF RecordSave, Recorder
<1>3. ASSUME NEW r \in Requests, RecordPost(r)
      PROVE  AllConfirmed(w)' /\ verifier'[w].row = verifier[w].row
  BY <1>3 DEF RecordPost, Recorder
<1>4. ASSUME NEW r \in Requests, RecordError(r)
      PROVE  AllConfirmed(w)' /\ verifier'[w].row = verifier[w].row
  BY <1>4 DEF RecordError, Recorder, DbFails
<1>5. ASSUME NEW r \in Requests, ProcessFind(r)
      PROVE  AllConfirmed(w)' /\ verifier'[w].row = verifier[w].row
  BY <1>5 DEF ProcessFind
<1>6. ASSUME NEW r \in Requests, ProcessMark(r)
      PROVE  AllConfirmed(w)' /\ verifier'[w].row = verifier[w].row
  BY <1>6 DEF ProcessMark, Processor, SaveEntity
<1>7. ASSUME NEW r \in Requests, NEW p \in Parties, ProcessAccepted(r, p)
      PROVE  AllConfirmed(w)' /\ verifier'[w].row = verifier[w].row
  BY <1>7 DEF ProcessAccepted, Processor, Following
<1>8. ASSUME NEW r \in Requests, NEW p \in Parties, ProcessRefused(r, p)
      PROVE  AllConfirmed(w)' /\ verifier'[w].row = verifier[w].row
  BY <1>8 DEF ProcessRefused, Processor
<1>9. ASSUME NEW r \in Requests, ProcessAuthorize(r)
      PROVE  AllConfirmed(w)' /\ verifier'[w].row = verifier[w].row
  BY <1>9 DEF ProcessAuthorize, Processor, SaveEntity
<1>10. ASSUME NEW r \in Requests, ProcessFail(r)
      PROVE  AllConfirmed(w)' /\ verifier'[w].row = verifier[w].row
  BY <1>10 DEF ProcessFail, SaveEntity
<1>11. ASSUME NEW r \in Requests, ProcessRetry(r)
      PROVE  AllConfirmed(w)' /\ verifier'[w].row = verifier[w].row
  BY <1>11 DEF ProcessRetry, Processor
<1>12. ASSUME NEW r \in Requests, ProcessError(r)
      PROVE  AllConfirmed(w)' /\ verifier'[w].row = verifier[w].row
  BY <1>12 DEF ProcessError, Processor, DbFails
<1>13. ASSUME NEW v \in Verifications, NEW ref \in References, VerifyRead(v, ref)
      PROVE  AllConfirmed(w)' /\ verifier'[w].row = verifier[w].row
  <2>1. verifier[v].pc = "idle" /\ verifier[v].confirmed = {}
    BY <1>13 DEF VerifyRead, Verifier
  <2>2. w # v
    BY <2>1
  <2>3. QED
    BY <1>13, <2>2 DEF VerifyRead, Verifier
<1>14. ASSUME NEW v \in Verifications, NEW p \in Parties, NEW verified \in BOOLEAN, VerifyReply(v, p, verified)
      PROVE  AllConfirmed(w)' /\ verifier'[w].row = verifier[w].row
  BY <1>14 DEF VerifyReply, Following
<1>15. ASSUME NEW v \in Verifications, NEW p \in Parties, VerifyRefused(v, p)
      PROVE  AllConfirmed(w)' /\ verifier'[w].row = verifier[w].row
  BY <1>15 DEF VerifyRefused, Verifier
<1>16. ASSUME NEW v \in Verifications, VerifySettle(v)
      PROVE  AllConfirmed(w)' /\ verifier'[w].row = verifier[w].row
  BY <1>16 DEF VerifySettle, Verifier
<1>17. ASSUME NEW v \in Verifications, VerifySave(v)
      PROVE  AllConfirmed(w)' /\ verifier'[w].row = verifier[w].row
  BY <1>17 DEF VerifySave, Verifier, SaveCopy
<1>18. ASSUME NEW v \in Verifications, VerifyRescue(v)
      PROVE  AllConfirmed(w)' /\ verifier'[w].row = verifier[w].row
  BY <1>18 DEF VerifyRescue, Verifier, SaveCopy
<1>19. ASSUME NEW v \in Verifications, VerifyError(v)
      PROVE  AllConfirmed(w)' /\ verifier'[w].row = verifier[w].row
  <2>1. PICK to \in {"ended", "rescuing"} :
          verifier' = [verifier EXCEPT ![v].pc = to]
    BY <1>19 DEF VerifyError, Verifier
  <2>2. QED
    BY <2>1
<1>20. CASE Crash
  BY <1>20 DEF Crash, RecorderRunning, ProcessorRunning, VerifierRunning
<1>21. CASE UNCHANGED vars
  BY <1>21 DEF vars
<1>22. QED
  BY <1>1, <1>2, <1>3, <1>4, <1>5, <1>6, <1>7, <1>8, <1>9, <1>10, <1>11, <1>12, <1>13, <1>14, <1>15, <1>16, <1>17, <1>18, <1>19, <1>20, <1>21
  DEF Next, Record, Process, Reply, Verify, VerifyAnswer

\* Whoever settles the row or its ledger entries has all confirmations.
LEMMA SettledStep ==
  TypeOK /\ BookInv /\ VerifyInv /\ SettledIsConfirmed /\ [Next]_vars
    => SettledIsConfirmed'
<1> SUFFICES ASSUME TypeOK, BookInv, VerifyInv, SettledIsConfirmed, [Next]_vars,
                    NEW r \in Requests,
                    status'[r] = "SETTLED" \/ ledger'[r] = "settled"
             PROVE  \E v \in Verifications :
                      r \in verifier'[v].row /\ AllConfirmed(v)'
  BY DEF SettledIsConfirmed
<1>1. ASSUME NEW v \in Verifications, r \in verifier[v].row, AllConfirmed(v)
      PROVE  r \in verifier'[v].row /\ AllConfirmed(v)'
  BY <1>1, ConfirmedStays
<1>2. CASE status[r] = "SETTLED" \/ ledger[r] = "settled"
  BY <1>1, <1>2 DEF SettledIsConfirmed
<1>3. CASE status[r] # "SETTLED" /\ ledger[r] # "settled"
  <2>1. ASSUME NEW v \in Verifications, VerifySettle(v)
        PROVE  r \in verifier[v].row /\ AllConfirmed(v)
    BY <1>3, <2>1 DEF VerifySettle, Verifier, VerifyInv, TypeOK
  <2>2. ASSUME NEW v \in Verifications, VerifySave(v)
        PROVE  r \in verifier[v].row /\ AllConfirmed(v)
    BY <1>3, <2>2 DEF VerifySave, SaveCopy, TypeOK
  <2>3. CASE \E v \in Verifications : VerifySettle(v) \/ VerifySave(v)
    BY <1>1, <2>1, <2>2, <2>3
  <2>4. CASE ~ \E v \in Verifications : VerifySettle(v) \/ VerifySave(v)
    <3>1. ASSUME NEW q \in Requests, Record(q) \/ RecordError(q) PROVE FALSE
      BY <1>3, <3>1 DEF Record, RecordCheck, RecordSave, RecordPost, RecordError,
         Recorder, DbFails, database, TypeOK
    <3>2. ASSUME NEW q \in Requests, Process(q) \/ ProcessError(q) PROVE FALSE
      BY <1>3, <3>2 DEF Process, Reply, ProcessFind, ProcessMark, ProcessAuthorize,
         ProcessFail, ProcessRetry, ProcessAccepted, ProcessRefused, ProcessError,
         SaveEntity, DbFails, database, TypeOK
    <3>3. ASSUME NEW v \in Verifications, NEW ref \in References, VerifyRead(v, ref)
          PROVE  FALSE
      BY <1>3, <3>3 DEF VerifyRead, database
    <3>4. ASSUME NEW v \in Verifications, Verify(v) \/ VerifyError(v) PROVE FALSE
      BY <1>3, <2>4, <3>4 DEF Verify, VerifyAnswer, VerifyReply, VerifyRefused,
         VerifyRescue, VerifyError, SaveCopy, DbFails, database, TypeOK
    <3>5. CASE Crash \/ UNCHANGED vars
      BY <1>3, <3>5 DEF Crash, vars, database
    <3>6. QED
      BY <3>1, <3>2, <3>3, <3>4, <3>5 DEF Next
  <2>5. QED
    BY <2>3, <2>4
<1>4. QED
  BY <1>2, <1>3

\* The unique index.
LEMMA UniqueStep == TypeOK /\ VerifyInv /\ BookInv /\ OneTransactionPerReference /\ [Next]_vars => OneTransactionPerReference'
<1> SUFFICES ASSUME TypeOK /\ VerifyInv /\ BookInv /\ OneTransactionPerReference, [Next]_vars PROVE OneTransactionPerReference'
  OBVIOUS
<1> USE DEF TypeOK, database, history, faults, BookInv, VerifyInv, OneTransactionPerReference, Row, Rows
<1>1. ASSUME NEW r \in Requests, RecordCheck(r)
      PROVE  OneTransactionPerReference'
  BY <1>1 DEF RecordCheck, Recorder
<1>2. ASSUME NEW r \in Requests, RecordSave(r)
      PROVE  OneTransactionPerReference'
  BY <1>2 DEF RecordSave, Recorder
<1>3. ASSUME NEW r \in Requests, RecordPost(r)
      PROVE  OneTransactionPerReference'
  BY <1>3 DEF RecordPost, Recorder
<1>4. ASSUME NEW r \in Requests, RecordError(r)
      PROVE  OneTransactionPerReference'
  BY <1>4 DEF RecordError, Recorder, DbFails
<1>5. ASSUME NEW r \in Requests, ProcessFind(r)
      PROVE  OneTransactionPerReference'
  BY <1>5 DEF ProcessFind
<1>6. ASSUME NEW r \in Requests, ProcessMark(r)
      PROVE  OneTransactionPerReference'
  BY <1>6 DEF ProcessMark, Processor, SaveEntity
<1>7. ASSUME NEW r \in Requests, NEW p \in Parties, ProcessAccepted(r, p)
      PROVE  OneTransactionPerReference'
  BY <1>7 DEF ProcessAccepted, Processor, Following
<1>8. ASSUME NEW r \in Requests, NEW p \in Parties, ProcessRefused(r, p)
      PROVE  OneTransactionPerReference'
  BY <1>8 DEF ProcessRefused, Processor
<1>9. ASSUME NEW r \in Requests, ProcessAuthorize(r)
      PROVE  OneTransactionPerReference'
  BY <1>9 DEF ProcessAuthorize, Processor, SaveEntity
<1>10. ASSUME NEW r \in Requests, ProcessFail(r)
      PROVE  OneTransactionPerReference'
  BY <1>10 DEF ProcessFail, SaveEntity
<1>11. ASSUME NEW r \in Requests, ProcessRetry(r)
      PROVE  OneTransactionPerReference'
  BY <1>11 DEF ProcessRetry, Processor
<1>12. ASSUME NEW r \in Requests, ProcessError(r)
      PROVE  OneTransactionPerReference'
  BY <1>12 DEF ProcessError, Processor, DbFails
<1>13. ASSUME NEW v \in Verifications, NEW ref \in References, VerifyRead(v, ref)
      PROVE  OneTransactionPerReference'
  BY <1>13 DEF VerifyRead, Verifier
<1>14. ASSUME NEW v \in Verifications, NEW p \in Parties, NEW verified \in BOOLEAN, VerifyReply(v, p, verified)
      PROVE  OneTransactionPerReference'
  BY <1>14 DEF VerifyReply, Following
<1>15. ASSUME NEW v \in Verifications, NEW p \in Parties, VerifyRefused(v, p)
      PROVE  OneTransactionPerReference'
  BY <1>15 DEF VerifyRefused, Verifier
<1>16. ASSUME NEW v \in Verifications, VerifySettle(v)
      PROVE  OneTransactionPerReference'
  BY <1>16 DEF VerifySettle, Verifier
<1>17. ASSUME NEW v \in Verifications, VerifySave(v)
      PROVE  OneTransactionPerReference'
  BY <1>17 DEF VerifySave, Verifier, SaveCopy
<1>18. ASSUME NEW v \in Verifications, VerifyRescue(v)
      PROVE  OneTransactionPerReference'
  BY <1>18 DEF VerifyRescue, Verifier, SaveCopy
<1>19. ASSUME NEW v \in Verifications, VerifyError(v)
      PROVE  OneTransactionPerReference'
  BY <1>19 DEF VerifyError, Verifier, DbFails
<1>20. CASE Crash
  BY <1>20 DEF Crash, RecorderRunning, ProcessorRunning, VerifierRunning
<1>21. CASE UNCHANGED vars
  BY <1>21 DEF vars
<1>22. QED
  BY <1>1, <1>2, <1>3, <1>4, <1>5, <1>6, <1>7, <1>8, <1>9, <1>10, <1>11, <1>12, <1>13, <1>14, <1>15, <1>16, <1>17, <1>18, <1>19, <1>20, <1>21
  DEF Next, Record, Process, Reply, Verify, VerifyAnswer

-----------------------------------------------------------------------------
(* Theorems                                                                *)

LEMMA InvInit == Init => IInv
  BY HubAssumption DEF Init, IInv, TypeOK, OneTransactionPerReference, BookInv,
     AttemptInv, AcceptInv, VerifyInv, SettledIsConfirmed, AllConfirmed, Row,
     Status, Parties, RecorderStates, ProcessorStates, VerifierStates

LEMMA InvStep == IInv /\ [Next]_vars => IInv'
  BY TypeStep, UniqueStep, BookStep, AttemptStep, AcceptStep, VerifyStep,
     SettledStep DEF IInv

\* The inductive invariant holds in every state of the hub.
THEOREM Invariance == Spec => []IInv
  BY InvInit, InvStep, PTL DEF Spec

\* Every column, program counter and copy keeps its type, whatever the order
\* of the handlers.
THEOREM TypeCorrect == Spec => []TypeOK
<1>1. IInv => TypeOK
  BY DEF IInv
<1>2. QED
  BY <1>1, Invariance, PTL

\* Racing recordTransaction calls never record a reference number twice.
THEOREM RecordedOnce == Spec => []OneTransactionPerReference
<1>1. IInv => OneTransactionPerReference
  BY DEF IInv
<1>2. QED
  BY <1>1, Invariance, PTL

\* Ledger entries are in the database before any party is asked.
THEOREM LedgerFirst == Spec => []ProcessingHasLedger
<1>1. IInv => ProcessingHasLedger
  BY DEF IInv, ProcessingHasLedger, BookInv, AttemptInv
<1>2. QED
  BY <1>1, Invariance, PTL

\* The source bank is asked at most MaxRetryAttempts times, whatever faults
\* and verifications interfere.
THEOREM BoundedAttempts == Spec => []AttemptsBounded
<1>1. IInv => AttemptsBounded
  BY DEF IInv, AttemptsBounded, AttemptInv
<1>2. QED
  BY <1>1, Invariance, PTL

\* No writer of the row loses a count of retry_count.
THEOREM CountedAttempts == Spec => []AttemptsCounted
<1>1. IInv => AttemptsCounted
  BY DEF IInv, AttemptsCounted, AttemptInv
<1>2. QED
  BY <1>1, Invariance, PTL

\* Retries are counted, for any number of faults and verifications.
THEOREM CountedRetries == Spec => []RetriesAreCounted
  BY BoundedAttempts, CountedAttempts, PTL DEF RetriesAreCounted

\* An AUTHORIZED row was accepted by all three parties in its last attempt.
THEOREM AuthorizedAccepted == Spec => []AuthorizedByAll
<1>1. IInv => AuthorizedByAll
  BY DEF IInv, AuthorizedByAll, AcceptInv
<1>2. QED
  BY <1>1, Invariance, PTL

\* A row or ledger entries are settled only by a verification that all three
\* parties confirmed.
THEOREM SettledConfirmed == Spec => []SettledIsConfirmed
<1>1. IInv => SettledIsConfirmed
  BY DEF IInv
<1>2. QED
  BY <1>1, Invariance, PTL

\* The copies that concurrent handlers save never lower retry_count.
THEOREM CountGrows == Spec => RetryCountGrows
<1>1. IInv /\ [Next]_vars => [\A r \in Requests : retryCount'[r] >= retryCount[r]]_vars
  <2> SUFFICES ASSUME IInv, [Next]_vars, NEW r \in Requests
               PROVE  retryCount'[r] >= retryCount[r]
    OBVIOUS
  <2>1. retryCount[r] \in Nat
    BY DEF IInv, TypeOK
  <2>2. ASSUME NEW q \in Requests, Process(q) \/ ProcessError(q)
        PROVE  retryCount'[r] >= retryCount[r]
    <3>1. CASE ProcessMark(q) \/ ProcessAuthorize(q)
      BY <2>1, <3>1 DEF ProcessMark, ProcessAuthorize, SaveEntity, Processor,
         IInv, TypeOK, AttemptInv
    <3>2. CASE ProcessFail(q)
      BY <2>1, <3>2 DEF ProcessFail, SaveEntity, IInv, TypeOK, AttemptInv
    <3>3. CASE UNCHANGED retryCount
      BY <2>1, <3>3
    <3>4. QED
      BY <2>2, <3>1, <3>2, <3>3 DEF Process, Reply, ProcessFind, ProcessRetry,
         ProcessAccepted, ProcessRefused, ProcessError, DbFails, database
  <2>3. ASSUME NEW q \in Requests, Record(q) \/ RecordError(q)
        PROVE  UNCHANGED retryCount
    BY <2>3 DEF Record, RecordCheck, RecordSave, RecordPost, RecordError, DbFails,
       database
  <2>4. ASSUME NEW v \in Verifications, NEW ref \in References, VerifyRead(v, ref)
        PROVE  UNCHANGED retryCount
    BY <2>4 DEF VerifyRead, database
  <2>5. ASSUME NEW v \in Verifications, Verify(v) \/ VerifyError(v)
        PROVE  UNCHANGED retryCount
    BY <2>5 DEF Verify, VerifyAnswer, VerifyReply, VerifyRefused, VerifySettle,
       VerifySave, VerifyRescue, VerifyError, SaveCopy, DbFails, database
  <2>6. CASE Crash \/ UNCHANGED vars
    BY <2>1, <2>6 DEF Crash, vars, database
  <2>7. QED
    BY <2>1, <2>2, <2>3, <2>4, <2>5, <2>6 DEF Next
<1>2. QED
  BY <1>1, Invariance, PTL DEF Spec, RetryCountGrows

-----------------------------------------------------------------------------
(* Without database errors. Where saving AUTHORIZED does not fail, nothing *)
(* leads from the last acceptance back to the first party, though the      *)
(* process may die and verifications overwrite the status meanwhile.       *)

NoErrorInv ==
  /\ dbErrors = 0
  /\ \A r \in Requests :
       accepted[r] = Parties => processor[r].pc \in {"authorizing", "ended", "lost"}

\* No step but an error that must not happen takes an accepted transaction back.
LEMMA NoErrorStep ==
  ASSUME MaxDbErrors = 0, IInv, NoErrorInv, [Next]_vars
  PROVE  /\ NoErrorInv'
         /\ \A r \in Requests : accepted[r] = Parties => attempts'[r] = attempts[r]
<1> DEFINE Kept == \A r \in Requests : accepted[r] = Parties => attempts'[r] = attempts[r]
<1>0. TypeOK /\ AcceptInv /\ BookInv
  BY DEF IInv
<1> USE <1>0 DEF TypeOK, NoErrorInv
<1>1. ~DbFails
  BY DEF DbFails
<1>2. ASSUME UNCHANGED <<history, dbErrors>>,
             \A r \in Requests : processor'[r].pc = processor[r].pc
                                   \/ processor'[r].pc = "lost"
      PROVE  NoErrorInv' /\ Kept
  BY <1>2 DEF history
<1>3. ASSUME NEW r \in Requests, Record(r)
      PROVE  NoErrorInv' /\ Kept
  <2>1. CASE RecordCheck(r) \/ RecordSave(r)
    BY <1>2, <2>1 DEF RecordCheck, RecordSave, Recorder, faults
  <2>2. CASE RecordPost(r)
    <3>1. recorder[r] = "saved" /\ processor[r].pc = "none"
      BY <2>2 DEF RecordPost, Recorder, BookInv
    <3>2. accepted[r] # Parties
      BY <3>1
    <3>3. QED
      BY <2>2, <3>2 DEF RecordPost, Recorder, history, faults
  <2>3. QED
    BY <1>3, <2>1, <2>2 DEF Record
<1>4. ASSUME NEW r \in Requests, ProcessFind(r) \/ ProcessMark(r) \/ ProcessRetry(r)
      PROVE  NoErrorInv' /\ Kept
  <2>1. processor[r].pc \in {"finding", "marking", "waiting"}
    BY <1>4 DEF ProcessFind, ProcessMark, ProcessRetry, Processor
  <2>2. accepted[r] # Parties /\ {} # Parties
    BY <2>1 DEF Parties
  <2>3. QED
    BY <1>4, <2>2 DEF ProcessFind, ProcessMark, ProcessRetry, Processor, SaveEntity,
       history, faults
<1>5. ASSUME NEW r \in Requests, ProcessAuthorize(r) \/ ProcessFail(r)
      PROVE  NoErrorInv' /\ Kept
  BY <1>5 DEF ProcessAuthorize, ProcessFail, Processor, SaveEntity, history, faults
<1>6. ASSUME NEW r \in Requests, NEW p \in Parties, Reply(r, p)
      PROVE  NoErrorInv' /\ Kept
  <2>1. CASE ProcessRefused(r, p)
    <3>1. accepted[r] # Parties
      BY <2>1 DEF ProcessRefused, Processor, Parties
    <3>2. QED
      BY <2>1, <3>1 DEF ProcessRefused, Processor, history, faults
  <2>2. CASE ProcessAccepted(r, p)
    <3>1. \/ p = "shaparak" /\ processor'[r].pc = "authorizing"
          \/ accepted[r] \cup {p} # Parties
      <4>1. processor[r].pc = p
        BY <2>2 DEF ProcessAccepted, Processor
      <4>2. CASE p = "source"
        <5>1. accepted[r] = {} /\ "shaparak" \notin {} \cup {p}
          BY <4>1, <4>2 DEF AcceptInv
        <5>2. QED
          BY <5>1 DEF Parties
      <4>3. CASE p = "destination"
        <5>1. accepted[r] = {"source"} /\ "shaparak" \notin {"source"} \cup {p}
          BY <4>1, <4>3 DEF AcceptInv
        <5>2. QED
          BY <5>1 DEF Parties
      <4>4. CASE p = "shaparak"
        BY <2>2, <4>4 DEF ProcessAccepted, Processor
      <4>5. QED
        BY <4>2, <4>3, <4>4 DEF Parties
    <3>2. QED
      BY <2>2, <3>1 DEF ProcessAccepted, Processor, Parties, faults
  <2>3. QED
    BY <1>6, <2>1, <2>2 DEF Reply
<1>7. ASSUME NEW v \in Verifications,
             Verify(v) \/ \E ref \in References : VerifyRead(v, ref)
      PROVE  NoErrorInv' /\ Kept
  <2>1. UNCHANGED <<history, processor, dbErrors>>
    BY <1>7 DEF Verify, VerifyAnswer, VerifyReply, VerifyRefused, VerifySettle,
       VerifySave, VerifyRescue, VerifyRead, Verifier, SaveCopy, history, faults
  <2>2. QED
    BY <1>2, <2>1
<1>8. CASE Crash \/ UNCHANGED vars
  <2>1. UNCHANGED <<history, dbErrors>>
    BY <1>8 DEF Crash, vars, faults
  <2>2. \A r \in Requests : processor'[r].pc = processor[r].pc \/ processor'[r].pc = "lost"
    BY <1>8 DEF Crash, vars
  <2>3. QED
    BY <1>2, <2>1, <2>2
<1>9. QED
  BY <1>1, <1>3, <1>4, <1>5, <1>6, <1>7, <1>8
     DEF Next, Process, RecordError, ProcessError, VerifyError

\* Without database errors, but with any number of crashes, retries and overlapping
\* verifications, a transaction that all three parties accepted is not sent again.
THEOREM AcceptedOnce ==
  ASSUME MaxDbErrors = 0
  PROVE  Spec => AcceptedNotReprocessed
<1>1. Init => NoErrorInv
  BY DEF Init, NoErrorInv, Parties
<1>2. IInv /\ NoErrorInv /\ [Next]_vars => NoErrorInv'
  BY NoErrorStep
<1>3. IInv /\ NoErrorInv /\ [Next]_vars =>
        [\A r \in Requests : accepted[r] = Parties => attempts'[r] = attempts[r]]_vars
  BY NoErrorStep
<1>4. QED
  BY <1>1, <1>2, <1>3, Invariance, PTL DEF Spec, AcceptedNotReprocessed

-----------------------------------------------------------------------------
(* The handlers implement TransactionLifecycle.                            *)

LEMMA LifecycleInit == Init => Lifecycle!Init
  BY DEF Init, Lifecycle!Init

LEMMA LifecycleStep == IInv /\ [Next]_vars => [Lifecycle!Next]_Lifecycle!vars
<1> SUFFICES ASSUME IInv, [Next]_vars
             PROVE  [Lifecycle!Next]_Lifecycle!vars
  OBVIOUS
<1> DEFINE Stutter == UNCHANGED <<status, ledger, attempts>>
<1> USE DEF IInv, TypeOK
<1>1. ASSUME NEW r \in Requests, RecordSave(r)
      PROVE  Lifecycle!Register(r) \/ Stutter
  BY <1>1 DEF RecordSave, Recorder, Rows, Row, history, Lifecycle!Register
<1>2. ASSUME NEW r \in Requests, RecordPost(r)
      PROVE  Lifecycle!Post(r)
  BY <1>2 DEF RecordPost, Recorder, history, BookInv, Row, Lifecycle!Post
<1>3. ASSUME NEW r \in Requests, ProcessMark(r)
      PROVE  Lifecycle!Attempt(r)
  BY <1>3, HubAssumption DEF ProcessMark, Processor, SaveEntity, BookInv, AttemptInv,
     Lifecycle!Attempt
<1>4. ASSUME NEW r \in Requests, ProcessAuthorize(r)
      PROVE  Lifecycle!Conclude(r, "AUTHORIZED")
  BY <1>4 DEF ProcessAuthorize, Processor, SaveEntity, history, AttemptInv,
     Lifecycle!Conclude
<1>5. ASSUME NEW r \in Requests, ProcessFail(r)
      PROVE  Lifecycle!Conclude(r, "FAILED")
  BY <1>5 DEF ProcessFail, SaveEntity, history, AttemptInv, Lifecycle!Conclude
<1>6. ASSUME NEW r \in Requests, Process(r) \/ ProcessError(r),
             ~ (ProcessMark(r) \/ ProcessAuthorize(r) \/ ProcessFail(r))
      PROVE  Stutter
  BY <1>6 DEF Process, Reply, ProcessFind, ProcessRetry, ProcessAccepted,
     ProcessRefused, ProcessError, Processor, DbFails, database, history
<1>7. ASSUME NEW r \in Requests, RecordCheck(r) \/ RecordError(r)
      PROVE  Stutter
  BY <1>7 DEF RecordCheck, RecordError, Recorder, DbFails, database, history
<1>8. ASSUME NEW v \in Verifications, VerifySettle(v)
      PROVE  Stutter \/ \E r \in Requests : Lifecycle!SettleEntries(r)
  <2>1. CASE \A r \in verifier[v].row : ledger[r] # "posted"
    BY <1>8, <2>1 DEF VerifySettle, Verifier, history
  <2>2. ASSUME NEW r \in verifier[v].row, ledger[r] = "posted"
        PROVE  Lifecycle!SettleEntries(r)
    <3>1. verifier[v].row = {r} /\ r \in Requests
      BY DEF VerifyInv
    <3>2. ledger' = [ledger EXCEPT ![r] = "settled"]
      BY <1>8, <2>2, <3>1 DEF VerifySettle
    <3>3. QED
      BY <1>8, <2>2, <3>2 DEF VerifySettle, Verifier, history, Lifecycle!SettleEntries
  <2>3. QED
    BY <2>1, <2>2
<1>9. ASSUME NEW v \in Verifications, NEW outcome \in {"SETTLED", "FAILED"},
             SaveCopy(v, outcome), UNCHANGED history
      PROVE  Stutter \/ \E r \in Requests : Lifecycle!Close(r, outcome)
  <2>1. CASE verifier[v].row = {}
    BY <1>9, <2>1 DEF SaveCopy, history
  <2>2. ASSUME NEW r \in verifier[v].row
        PROVE  Lifecycle!Close(r, outcome)
    <3>1. verifier[v].row = {r} /\ r \in Requests /\ status[r] # "NONE"
      BY DEF VerifyInv, Row
    <3>2. status' = [status EXCEPT ![r] = outcome]
      BY <1>9, <3>1 DEF SaveCopy
    <3>3. QED
      BY <1>9, <3>1, <3>2 DEF SaveCopy, history, Lifecycle!Close
  <2>3. QED
    BY <2>1, <2>2
<1>10. ASSUME NEW v \in Verifications, VerifySave(v) \/ VerifyRescue(v)
       PROVE  Stutter \/ \E r \in Requests, outcome \in {"SETTLED", "FAILED"} :
                           Lifecycle!Close(r, outcome)
  <2>1. PICK outcome \in {"SETTLED", "FAILED"} :
          SaveCopy(v, outcome) /\ UNCHANGED history
    BY <1>10 DEF VerifySave, VerifyRescue, Verifier
  <2>2. QED
    BY <2>1, <1>9
<1>11. ASSUME NEW v \in Verifications, Verify(v) \/ VerifyError(v),
              ~ (VerifySettle(v) \/ VerifySave(v) \/ VerifyRescue(v))
       PROVE  Stutter
  BY <1>11 DEF Verify, VerifyAnswer, VerifyReply, VerifyRefused, VerifyError,
     Verifier, DbFails, database, history
<1>12. ASSUME NEW v \in Verifications, NEW ref \in References, VerifyRead(v, ref)
       PROVE  Stutter
  BY <1>12 DEF VerifyRead, Verifier, database, history
<1>13. ASSUME Crash \/ UNCHANGED vars
       PROVE  Stutter
  BY <1>13 DEF Crash, vars, database, history
<1>14. Lifecycle!Next \/ Stutter
  <2>1. CASE \E r \in Requests : Record(r) \/ RecordError(r)
    BY <2>1, <1>1, <1>2, <1>7 DEF Record, Lifecycle!Next
  <2>2. CASE \E r \in Requests : Process(r) \/ ProcessError(r)
    BY <2>2, <1>3, <1>4, <1>5, <1>6 DEF Lifecycle!Next
  <2>3. CASE \E v \in Verifications : Verify(v) \/ VerifyError(v)
    BY <2>3, <1>8, <1>10, <1>11 DEF Lifecycle!Next
  <2>4. QED
    BY <2>1, <2>2, <2>3, <1>12, <1>13 DEF Next
<1>15. QED
  BY <1>14 DEF Lifecycle!vars

\* Every behaviour of the handlers, faults included, is one that the life cycle
\* allows.
THEOREM Refinement == Spec => ImplementsLifecycle
  BY LifecycleInit, LifecycleStep, Invariance, PTL
  DEF Spec, ImplementsLifecycle, Lifecycle!Spec
=============================================================================

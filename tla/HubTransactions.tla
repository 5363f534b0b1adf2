--------------------------- MODULE HubTransactions ---------------------------
(***************************************************************************)
(* The clearing hub (services/hub-shaparak): recording of a transaction    *)
(* and of its ledger entries, its processing by the source bank, the       *)
(* destination bank and Shaparak with retries, and its verification, all   *)
(* of them running concurrently on the rows of one database.               *)
(*                                                                         *)
(* A request to record a transaction and the row it may insert have the    *)
(* same name: status[r] is the row of request r, "NONE" as long as there   *)
(* is none.  Every `await` of the code ends a step.                        *)
(***************************************************************************)
EXTENDS Integers, FiniteSets

CONSTANTS
  Requests,          \* calls of recordTransaction
  References,        \* reference numbers
  ReferenceOf,       \* the referenceId of each request
  Verifications,     \* calls of verifyTransaction
  MaxRetryAttempts,  \* configuration MAX_RETRY_ATTEMPTS, 3 by default
  MaxDbErrors,       \* bound of the model: failing database calls
  MaxCrashes         \* bound of the model: crashes of the hub process

ASSUME HubAssumption ==
  /\ ReferenceOf \in [Requests -> References]
  /\ MaxRetryAttempts \in Nat \ {0}
  /\ MaxDbErrors \in Nat
  /\ MaxCrashes \in Nat

VARIABLES
  status,      \* transactions.status
  retryCount,  \* transactions.retry_count
  ledger,      \* the ledger entries of the row: none, posted or settled
  recorder,    \* where recordTransaction stands, per request
  processor,   \* where processTransaction stands, and its copy of retryCount
  verifier,    \* where verifyTransaction stands, its row, who has confirmed
  attempts,    \* history: process_transaction messages to the source bank
  accepted,    \* history: who accepted in the current processing attempt
  dbErrors, crashes

database  == <<status, retryCount, ledger>>
history   == <<attempts, accepted>>
faults    == <<dbErrors, crashes>>
vars      == <<database, recorder, processor, verifier, history, faults>>

Status == {"NONE", "PENDING", "PROCESSING", "AUTHORIZED", "SETTLED",
           "FAILED", "CANCELLED"}
Parties == {"source", "destination", "shaparak"}
RecorderStates == {"idle", "checked", "saved", "done", "refused", "failed",
                   "lost"}
ProcessorStates == Parties \cup {"none", "finding", "marking", "authorizing",
                                 "failing", "waiting", "ended", "lost"}
VerifierStates == Parties \cup {"idle", "settling", "saving", "rescuing",
                                "ended", "lost"}

\* Handlers that hold state in memory only, which a crash discards.
RecorderRunning(r)  == recorder[r] \in {"checked", "saved"}
ProcessorRunning(r) == processor[r].pc \notin {"none", "ended", "lost"}
VerifierRunning(v)  == verifier[v].pc \notin {"idle", "ended", "lost"}

\* Mutant: the destination bank is left out.
FollowingSkipsDestination(p) == "shaparak"

\* The parties are asked one after the other.
Following(p) == IF p = "source" THEN "destination" ELSE "shaparak"

Row(r)      == status[r] # "NONE"
Rows(ref)   == {r \in Requests : Row(r) /\ ReferenceOf[r] = ref}

Init ==
  /\ status     = [r \in Requests |-> "NONE"]
  /\ retryCount = [r \in Requests |-> 0]
  /\ ledger     = [r \in Requests |-> "none"]
  /\ recorder   = [r \in Requests |-> "idle"]
  /\ processor  = [r \in Requests |-> [pc |-> "none", retryCount |-> 0]]
  /\ verifier   = [v \in Verifications |->
                     [pc |-> "idle", row |-> {}, confirmed |-> {}]]
  /\ attempts   = [r \in Requests |-> 0]
  /\ accepted   = [r \in Requests |-> {}]
  /\ dbErrors   = 0
  /\ crashes    = 0

DbFails ==
  /\ dbErrors < MaxDbErrors
  /\ dbErrors' = dbErrors + 1
  /\ UNCHANGED <<database, crashes>>

-----------------------------------------------------------------------------
(* recordTransaction                                                       *)

Recorder(r, from, to) ==
  /\ recorder[r] = from
  /\ recorder' = [recorder EXCEPT ![r] = to]
  /\ UNCHANGED <<verifier, history>>

\* The look-up of an earlier row with the same reference.
RecordCheck(r) ==
  /\ \/ Rows(ReferenceOf[r]) # {} /\ Recorder(r, "idle", "refused")
     \/ Rows(ReferenceOf[r]) = {} /\ Recorder(r, "idle", "checked")
  /\ UNCHANGED <<database, processor, faults>>

\* Mutant: reference_id has no unique index.
RecordSaveWithoutIndex(r) ==
  /\ Recorder(r, "checked", "saved")
  /\ status' = [status EXCEPT ![r] = "PENDING"]
  /\ UNCHANGED <<retryCount, ledger, processor, faults>>

\* Mutant: the processing is started before the ledger entries are inserted.
RecordSaveStartsProcessing(r) ==
  /\ Rows(ReferenceOf[r]) = {}
  /\ Recorder(r, "checked", "saved")
  /\ status' = [status EXCEPT ![r] = "PENDING"]
  /\ processor' = [processor EXCEPT ![r].pc = "finding"]
  /\ UNCHANGED <<retryCount, ledger, faults>>

\* The INSERT of the row, which the unique index on reference_id may refuse.
RecordSave(r) ==
  /\ \/ /\ Rows(ReferenceOf[r]) # {}
        /\ Recorder(r, "checked", "failed")
        /\ UNCHANGED status
     \/ /\ Rows(ReferenceOf[r]) = {}
        /\ Recorder(r, "checked", "saved")
        /\ status' = [status EXCEPT ![r] = "PENDING"]
  /\ UNCHANGED <<retryCount, ledger, processor, faults>>

\* The ledger entries are inserted, the processing is started in the
\* background and the call returns.
RecordPost(r) ==
  /\ Recorder(r, "saved", "done")
  /\ ledger' = [ledger EXCEPT ![r] = "posted"]
  /\ processor' = [processor EXCEPT ![r].pc = "finding"]
  /\ UNCHANGED <<status, retryCount, faults>>

\* A database error is thrown to the caller; what is saved stays saved.
RecordError(r) ==
  /\ \E from \in {"idle", "checked", "saved"} : Recorder(r, from, "failed")
  /\ DbFails
  /\ UNCHANGED processor

-----------------------------------------------------------------------------
(* processTransaction                                                      *)

Processor(r, from, to) ==
  /\ processor[r].pc = from
  /\ processor' = [processor EXCEPT ![r].pc = to]
  /\ UNCHANGED <<recorder, verifier>>

\* Saving the entity writes the status and the retryCount of the copy.
SaveEntity(r, newStatus, newCount) ==
  /\ status' = [status EXCEPT ![r] = newStatus]
  /\ retryCount' = [retryCount EXCEPT ![r] = newCount]
  /\ UNCHANGED <<ledger, faults>>

\* The entity is read, whatever its status.
ProcessFind(r) ==
  /\ processor[r].pc = "finding"
  /\ Row(r)
  /\ processor' = [processor EXCEPT
       ![r] = [pc |-> "marking", retryCount |-> retryCount[r]]]
  /\ UNCHANGED <<database, recorder, verifier, history, faults>>

\* PROCESSING is saved and the source bank is asked.
ProcessMark(r) ==
  /\ Processor(r, "marking", "source")
  /\ SaveEntity(r, "PROCESSING", processor[r].retryCount)
  /\ attempts' = [attempts EXCEPT ![r] = @ + 1]
  /\ accepted' = [accepted EXCEPT ![r] = {}]

\* A party accepts and the next one is asked.
ProcessAccepted(r, p) ==
  /\ Processor(r, p, IF p = "shaparak" THEN "authorizing" ELSE Following(p))
  /\ accepted' = [accepted EXCEPT ![r] = @ \cup {p}]
  /\ UNCHANGED <<database, attempts, faults>>

\* The reply of a party is an error: the catch block is entered.
ProcessRefused(r, p) ==
  /\ Processor(r, p, "failing")
  /\ UNCHANGED <<database, history, faults>>

\* Mutant: the timer is set after a success too.
ProcessAuthorizeRetries(r) ==
  /\ Processor(r, "authorizing", "waiting")
  /\ SaveEntity(r, "AUTHORIZED", processor[r].retryCount)
  /\ UNCHANGED history

ProcessAuthorize(r) ==
  /\ Processor(r, "authorizing", "ended")
  /\ SaveEntity(r, "AUTHORIZED", processor[r].retryCount)
  /\ UNCHANGED history

\* Mutant: one retry too many.
ProcessFailRetriesOnceMore(r) ==
  LET count == processor[r].retryCount + 1 IN
  /\ processor[r].pc = "failing"
  /\ SaveEntity(r, "FAILED", count)
  /\ processor' = [processor EXCEPT ![r] =
       [pc |-> IF count <= MaxRetryAttempts THEN "waiting" ELSE "ended",
        retryCount |-> count]]
  /\ UNCHANGED <<recorder, verifier, history>>

\* Mutant: the count goes down.
ProcessFailCountsDown(r) ==
  /\ Processor(r, "failing", "ended")
  /\ SaveEntity(r, "FAILED", processor[r].retryCount - 1)
  /\ UNCHANGED history

\* Mutant: the catch block saves nothing.
ProcessFailSavesNothing(r) ==
  /\ Processor(r, "failing", "ended")
  /\ UNCHANGED <<database, history, faults>>

\* The catch block: FAILED is saved with one more attempt counted, and a
\* timer is set while there are attempts left.
ProcessFail(r) ==
  LET count == processor[r].retryCount + 1 IN
  /\ processor[r].pc = "failing"
  /\ SaveEntity(r, "FAILED", count)
  /\ processor' = [processor EXCEPT ![r] =
       [pc |-> IF count < MaxRetryAttempts THEN "waiting" ELSE "ended",
        retryCount |-> count]]
  /\ UNCHANGED <<recorder, verifier, history>>

\* The timer fires.
ProcessRetry(r) ==
  /\ Processor(r, "waiting", "finding")
  /\ UNCHANGED <<database, history, faults>>

\* Saving AUTHORIZED is inside the try block; the other database calls are
\* not, and their error only reaches the log.
ProcessError(r) ==
  /\ \/ Processor(r, "authorizing", "failing")
     \/ \E from \in {"finding", "marking", "failing"} :
          Processor(r, from, "ended")
  /\ DbFails
  /\ UNCHANGED history

-----------------------------------------------------------------------------
(* verifyTransaction                                                       *)

Verifier(v, from, to) ==
  /\ verifier[v].pc = from
  /\ verifier' = [verifier EXCEPT ![v].pc = to]
  /\ UNCHANGED <<recorder, processor, history>>

\* The row is looked up; a missing row and a final status end the call.
FinalStatus == {"SETTLED", "FAILED", "CANCELLED"}

VerifyRead(v, ref) ==
  /\ \/ /\ Rows(ref) = {} \/ \E r \in Rows(ref) : status[r] \in FinalStatus
        /\ Verifier(v, "idle", "ended")
     \/ \E r \in Rows(ref) :
          /\ verifier[v].pc = "idle"
          /\ status[r] \notin FinalStatus
          /\ verifier' = [verifier EXCEPT ![v] =
               [pc |-> "source", row |-> {r}, confirmed |-> {}]]
          /\ UNCHANGED <<recorder, processor, history>>
  /\ UNCHANGED <<database, faults>>

AllConfirmed(v) == verifier[v].confirmed = Parties

\* Mutant: one confirmation is enough to settle.
VerifyReplyOneIsEnough(v, p, verified) ==
  LET confirmed == verifier[v].confirmed \cup (IF verified THEN {p} ELSE {})
      next == IF p # "shaparak" THEN Following(p)
              ELSE IF confirmed # {} THEN "settling" ELSE "saving"
  IN
  /\ verifier[v].pc = p
  /\ verifier' = [verifier EXCEPT ![v].pc = next, ![v].confirmed = confirmed]
  /\ UNCHANGED <<database, recorder, processor, history, faults>>

\* A party replies, with verified true or false, and the next one is asked;
\* after the last one the ledger is settled if all three have confirmed.
VerifyReply(v, p, verified) ==
  LET confirmed == verifier[v].confirmed \cup (IF verified THEN {p} ELSE {})
      next == IF p # "shaparak" THEN Following(p)
              ELSE IF confirmed = Parties THEN "settling" ELSE "saving"
  IN
  /\ verifier[v].pc = p
  /\ verifier' = [verifier EXCEPT ![v].pc = next, ![v].confirmed = confirmed]
  /\ UNCHANGED <<database, recorder, processor, history, faults>>

\* The reply is an error: the catch block is entered.
VerifyRefused(v, p) ==
  /\ Verifier(v, p, "rescuing")
  /\ UNCHANGED <<database, faults>>

\* The ledger entries that exist are marked as settled, before the row is.
VerifySettle(v) ==
  /\ Verifier(v, "settling", "saving")
  /\ ledger' = [r \in Requests |->
       IF r \in verifier[v].row /\ ledger[r] = "posted"
       THEN "settled" ELSE ledger[r]]
  /\ UNCHANGED <<status, retryCount, faults>>

\* Mutant: the copy carries a retryCount, 0 when the row has no attempt yet.
SaveCopyWithCount(v, newStatus) ==
  /\ status' = [r \in Requests |->
       IF r \in verifier[v].row THEN newStatus ELSE status[r]]
  /\ retryCount' = [r \in Requests |->
       IF r \in verifier[v].row THEN 0 ELSE retryCount[r]]
  /\ UNCHANGED <<ledger, faults>>

\* The copy of the row is saved; it has no retryCount.
SaveCopy(v, newStatus) ==
  /\ status' = [r \in Requests |->
       IF r \in verifier[v].row THEN newStatus ELSE status[r]]
  /\ UNCHANGED <<retryCount, ledger, faults>>

VerifySave(v) ==
  /\ Verifier(v, "saving", "ended")
  /\ SaveCopy(v, IF AllConfirmed(v) THEN "SETTLED" ELSE "FAILED")

\* The catch block.
VerifyRescue(v) ==
  /\ Verifier(v, "rescuing", "ended")
  /\ SaveCopy(v, "FAILED")

VerifyError(v) ==
  /\ \/ \E from \in {"idle", "rescuing"} : Verifier(v, from, "ended")
     \/ \E from \in {"settling", "saving"} : Verifier(v, from, "rescuing")
  /\ DbFails

-----------------------------------------------------------------------------
\* The process dies and is restarted: the handlers in progress and the
\* timers are gone, the rows stay.
Crash ==
  /\ crashes < MaxCrashes
  /\ crashes' = crashes + 1
  /\ recorder' = [r \in Requests |->
       IF RecorderRunning(r) THEN "lost" ELSE recorder[r]]
  /\ processor' = [r \in Requests |->
       IF ProcessorRunning(r) THEN [processor[r] EXCEPT !.pc = "lost"]
       ELSE processor[r]]
  /\ verifier' = [v \in Verifications |->
       IF VerifierRunning(v) THEN [verifier[v] EXCEPT !.pc = "lost"]
       ELSE verifier[v]]
  /\ UNCHANGED <<database, history, dbErrors>>

Record(r) == RecordCheck(r) \/ RecordSave(r) \/ RecordPost(r)

Reply(r, p) == ProcessAccepted(r, p) \/ ProcessRefused(r, p)
Process(r) ==
  \/ ProcessFind(r) \/ ProcessMark(r) \/ ProcessAuthorize(r)
  \/ ProcessFail(r) \/ ProcessRetry(r)
  \/ \E p \in Parties : Reply(r, p)

VerifyAnswer(v, p) ==
  VerifyRefused(v, p) \/ \E verified \in BOOLEAN : VerifyReply(v, p, verified)
Verify(v) ==
  \/ VerifySettle(v) \/ VerifySave(v) \/ VerifyRescue(v)
  \/ \E p \in Parties : VerifyAnswer(v, p)

Next ==
  \/ \E r \in Requests : Record(r) \/ RecordError(r)
  \/ \E r \in Requests : Process(r) \/ ProcessError(r)
  \/ \E v \in Verifications, ref \in References : VerifyRead(v, ref)
  \/ \E v \in Verifications : Verify(v) \/ VerifyError(v)
  \/ Crash

Spec == Init /\ [][Next]_vars

(***************************************************************************)
(* A handler that can take its next step takes it, and a party that was    *)
(* asked replies.  Nothing forces a call to arrive: RecordCheck and        *)
(* VerifyRead are not fair, nor are errors and crashes.                    *)
(***************************************************************************)
Fairness ==
  /\ \A r \in Requests : WF_vars(RecordSave(r) \/ RecordPost(r))
  /\ \A r \in Requests : WF_vars(Process(r))
  /\ \A v \in Verifications : WF_vars(Verify(v))

FairSpec == Spec /\ Fairness
-----------------------------------------------------------------------------
(* Properties                                                              *)

\* Every variable has its type: the columns, the program counters of the
\* handlers and what they keep in memory across their awaits.
TypeOK ==
  /\ status \in [Requests -> Status]
  /\ retryCount \in [Requests -> Nat]
  /\ ledger \in [Requests -> {"none", "posted", "settled"}]
  /\ recorder \in [Requests -> RecorderStates]
  /\ processor \in [Requests -> [pc : ProcessorStates, retryCount : Nat]]
  /\ verifier \in [Verifications ->
       [pc : VerifierStates, row : SUBSET Requests, confirmed : SUBSET Parties]]
  /\ attempts \in [Requests -> Nat]
  /\ accepted \in [Requests -> SUBSET Parties]
  /\ dbErrors \in Nat /\ crashes \in Nat

\* However the look-ups and the inserts of racing recordTransaction calls
\* interleave, a reference number is recorded by one row at most.
OneTransactionPerReference ==
  \A r, s \in Requests :
    Row(r) /\ Row(s) /\ ReferenceOf[r] = ReferenceOf[s] => r = s

\* No party is asked to move money, and no row says PROCESSING or AUTHORIZED,
\* before the ledger entries of the transaction are in the database.
ProcessingHasLedger ==
  \A r \in Requests :
    attempts[r] > 0 \/ status[r] \in {"PROCESSING", "AUTHORIZED"}
      => ledger[r] # "none"

\* The source bank is asked at most MAX_RETRY_ATTEMPTS times to process a
\* transaction, whatever verifications, crashes and database errors do to
\* the row between two attempts.
AttemptsBounded == \A r \in Requests : attempts[r] <= MaxRetryAttempts

\* retry_count accounts for every attempt but possibly the last: no writer of
\* the row, verifyTransaction with its old copy included, loses a count.
AttemptsCounted == \A r \in Requests : attempts[r] <= retryCount[r] + 1

\* Retries are counted: the source bank is asked no more often than configured,
\* and no concurrent writer of the row loses a count.
RetriesAreCounted == AttemptsBounded /\ AttemptsCounted

\* AUTHORIZED is only ever read from a row whose last processing attempt was
\* accepted by the source bank, the destination bank and Shaparak.
AuthorizedByAll ==
  \A r \in Requests : status[r] = "AUTHORIZED" => accepted[r] = Parties

\* Neither the row nor the ledger says settled unless one single verification
\* of this transaction had the confirmation of all three parties.
SettledIsConfirmed ==
  \A r \in Requests :
    status[r] = "SETTLED" \/ ledger[r] = "settled"
      => \E v \in Verifications : r \in verifier[v].row /\ AllConfirmed(v)

\* retry_count never decreases: the copies that concurrent handlers save
\* overwrite each other's status, but not this count.
RetryCountGrows ==
  [][\A r \in Requests : retryCount'[r] >= retryCount[r]]_vars

\* Without database errors, a transaction that all three parties accepted is
\* never sent to them again: no second debit after a success.
AcceptedNotReprocessed ==
  [][\A r \in Requests :
       accepted[r] = Parties => attempts'[r] = attempts[r]]_vars

\* A recorded transaction ends, once and for all, in a status that reports an
\* outcome: retries and verifications that overwrite each other's status do
\* not leave it PENDING or PROCESSING.
EventuallyDecided ==
  \A r \in Requests :
    recorder[r] = "done"
      ~> [](status[r] \in {"AUTHORIZED", "FAILED", "SETTLED"})

\* The handlers implement the life cycle of TransactionLifecycle.
Lifecycle == INSTANCE TransactionLifecycle
               WITH MaxAttempts <- MaxRetryAttempts, tries <- attempts
ImplementsLifecycle == Lifecycle!Spec
=============================================================================

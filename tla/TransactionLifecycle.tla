------------------------ MODULE TransactionLifecycle ------------------------
(***************************************************************************)
(* What the clearing hub promises of a transaction, whatever the order of  *)
(* its handlers: a reference number is registered once; the ledger entries *)
(* are posted before the parties are asked to move money, which happens a  *)
(* bounded number of times; entries that are settled stay settled.         *)
(***************************************************************************)
EXTENDS Integers

CONSTANTS Requests, ReferenceOf, MaxAttempts

VARIABLES
  status,  \* what the hub answers when asked for the transaction
  ledger,  \* its entries: none, posted or settled
  tries    \* how often the parties were asked to process it

vars == <<status, ledger, tries>>

Init ==
  /\ status = [r \in Requests |-> "NONE"]
  /\ ledger = [r \in Requests |-> "none"]
  /\ tries  = [r \in Requests |-> 0]

Register(r) ==
  /\ \A s \in Requests : ReferenceOf[s] = ReferenceOf[r] => status[s] = "NONE"
  /\ status' = [status EXCEPT ![r] = "PENDING"]
  /\ UNCHANGED <<ledger, tries>>

Post(r) ==
  /\ status[r] # "NONE" /\ ledger[r] = "none"
  /\ ledger' = [ledger EXCEPT ![r] = "posted"]
  /\ UNCHANGED <<status, tries>>

Attempt(r) ==
  /\ ledger[r] # "none" /\ tries[r] < MaxAttempts
  /\ status' = [status EXCEPT ![r] = "PROCESSING"]
  /\ tries' = [tries EXCEPT ![r] = @ + 1]
  /\ UNCHANGED ledger

Conclude(r, outcome) ==
  /\ tries[r] > 0
  /\ status' = [status EXCEPT ![r] = outcome]
  /\ UNCHANGED <<ledger, tries>>

SettleEntries(r) ==
  /\ ledger[r] = "posted"
  /\ ledger' = [ledger EXCEPT ![r] = "settled"]
  /\ UNCHANGED <<status, tries>>

Close(r, outcome) ==
  /\ status[r] # "NONE"
  /\ status' = [status EXCEPT ![r] = outcome]
  /\ UNCHANGED <<ledger, tries>>

Next == \E r \in Requests :
  \/ Register(r) \/ Post(r) \/ Attempt(r) \/ SettleEntries(r)
  \/ \E outcome \in {"AUTHORIZED", "FAILED"} : Conclude(r, outcome)
  \/ \E outcome \in {"SETTLED", "FAILED"} : Close(r, outcome)

Spec == Init /\ [][Next]_vars
=============================================================================

---------------------------- MODULE AccountLedger ----------------------------
(***************************************************************************)
(* What the source bank promises of the money on its accounts, however its *)
(* handlers interleave, fail or die: an order takes its amount at once, at *)
(* most once, from the account it names and only while the funds suffice.  *)
(* A debit takes the money away and is reported COMPLETED only when it     *)
(* has; a freeze only makes it unavailable; an unfreeze changes nothing.   *)
(***************************************************************************)
EXTENDS Integers

CONSTANTS
  Debits,
  Freezes,
  Unfreezes,
  Accounts,  \* accounts that an order can name
  Funded,    \* those that have a balance
  Price,     \* what an order takes
  Deposit,   \* what a funded account starts with
  Nobody

VARIABLES
  account,    \* the account of an order, once it has arrived
  status,     \* what a debit is reported as
  taken,      \* the orders that have taken their amount
  available,  \* of a funded account, what can be taken
  current     \* and what it holds

vars == <<account, status, taken, available, current>>

Orders == Debits \cup Freezes \cup Unfreezes

Init ==
  /\ account = [m \in Orders |-> Nobody]
  /\ status = [d \in Debits |-> "none"]
  /\ taken = {}
  /\ available = [a \in Funded |-> Deposit]
  /\ current = [a \in Funded |-> Deposit]

Order(m) ==
  /\ account[m] = Nobody
  /\ \E a \in Accounts : account' = [account EXCEPT ![m] = a]
  /\ status' = IF m \in Debits THEN [status EXCEPT ![m] = "PENDING"] ELSE status
  /\ UNCHANGED <<taken, available, current>>

\* The debit has no outcome yet; that of a settlement does not tell.
Open(d) == status[d] \in {"PENDING", "SETTLED"}

Take(m) ==
  /\ m \notin taken /\ (m \in Debits => Open(m))
  /\ account[m] \in Funded /\ available[account[m]] >= Price[m]
  /\ taken' = taken \cup {m}
  /\ available' = [available EXCEPT ![account[m]] = @ - Price[m]]
  /\ current' = IF m \in Debits
                THEN [current EXCEPT ![account[m]] = @ - Price[m]] ELSE current
  /\ UNCHANGED <<account, status>>

Complete(d) ==
  /\ Open(d) /\ d \in taken
  /\ status' = [status EXCEPT ![d] = "COMPLETED"]
  /\ UNCHANGED <<account, taken, available, current>>

Fail(d) ==
  /\ Open(d)
  /\ status' = [status EXCEPT ![d] = "FAILED"]
  /\ UNCHANGED <<account, taken, available, current>>

\* A settlement looks at nothing but that the debit is recorded.
Settle(d) ==
  /\ status[d] # "none"
  /\ status' = [status EXCEPT ![d] = "SETTLED"]
  /\ UNCHANGED <<account, taken, available, current>>

Next ==
  \/ \E m \in Orders : Order(m)
  \/ \E m \in Debits \cup Freezes : Take(m)
  \/ \E d \in Debits : Complete(d) \/ Fail(d) \/ Settle(d)

Spec == Init /\ [][Next]_vars
=============================================================================

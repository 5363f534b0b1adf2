------------------------- MODULE BankAccounts_proofs --------------------------
(***************************************************************************)
(* Proofs about BankAccounts, for any messages, accounts and amounts, and  *)
(* any number of failing queries and crashes. What the books add up to     *)
(* rests on the theorems about sums of SumTheorems.                        *)
(***************************************************************************)
EXTENDS BankAccounts, SumTheorems

(***************************************************************************)
(* The inductive invariant. A handler between its lock and its commit is   *)
(* the holder of the lock, so that no other handler changes what it read,  *)
(* and a debit that has not committed has not moved its money.             *)
(***************************************************************************)

AccountInv(a) ==
  /\ 0 <= balance[a].available /\ balance[a].available <= balance[a].current
  /\ lock[a] # Nobody =>
       /\ account[lock[a]] = a
       /\ pc[lock[a]] = "changing"
       /\ copy[lock[a]] = balance[a]

MoverInv(m) ==
  pc[m] = "changing" => account[m] \in Opened /\ lock[account[m]] = m

DebitInv(d) ==
  /\ pc[d] = "idle" => status[d] = "none"
  /\ pc[d] \in {"idle", "locking", "changing"} => d \notin moved
  /\ pc[d] \in {"locking", "changing"} => status[d] \in {"PENDING", "SETTLED"}
  /\ pc[d] = "completing" => d \in moved /\ status[d] # "none"
  /\ pc[d] = "done" => d \in moved /\ status[d] \in {"COMPLETED", "SETTLED"}
  /\ pc[d] \in {"failing", "errored"} /\ d \in moved => dbErrors > 0

SettleInv(s) ==
  pc[s] \in {"reading", "saving"} =>
    subject[s] \in Debits /\ status[subject[s]] # "none"

LinkInv(l) ==
  /\ pc[l] \in {"idle", "checking", "inserting"} => l \notin linked
  /\ known[l] =>
       /\ \E a \in Known : Number[a] = Number[l]
       /\ l \notin linked /\ pc[l] # "inserting"

Inv ==
  /\ TypeOK
  /\ \A a \in Opened : AccountInv(a)
  /\ \A m \in Movers : MoverInv(m)
  /\ \A d \in Debits : DebitInv(d)
  /\ \A s \in Settles : SettleInv(s)
  /\ \A l \in Links : LinkInv(l)

\* Each message is of one kind.
LEMMA Kinds ==
  /\ Debits \subseteq Movers /\ Freezes \subseteq Movers /\ Unfreezes \subseteq Movers
  /\ Movers \subseteq Messages /\ Settles \subseteq Messages /\ Links \subseteq Messages
  /\ Movers \cap Settles = {} /\ Movers \cap Links = {} /\ Settles \cap Links = {}
  /\ Debits \cap Freezes = {} /\ Debits \cap Unfreezes = {}
  /\ Freezes \cap Unfreezes = {} /\ Opened \cap Links = {}
  /\ Nobody \notin Movers /\ Nobody \notin Opened
  BY BankAssumption DEF Movers, Messages

\* The initial states have the invariant.
LEMMA InvInit == Init => Inv
<1> SUFFICES ASSUME Init PROVE Inv
  OBVIOUS
<1> USE BankAssumption, Kinds DEF Init
<1>1. Empty \in Balance
  BY DEF Empty, Balance
<1>2. balance \in [Opened -> Balance]
  BY DEF Balance
<1>3. TypeOK
  <2>1. copy \in [Movers -> Balance]
    BY <1>1
  <2>2. QED
    BY <1>2, <2>1 DEF TypeOK
<1>4. \A a \in Opened : AccountInv(a)
  BY DEF AccountInv
<1>5. \A m \in Movers : MoverInv(m)
  BY DEF MoverInv
<1>6. \A d \in Debits : DebitInv(d)
  BY DEF DebitInv
<1>7. \A s \in Settles : SettleInv(s)
  BY DEF SettleInv
<1>8. \A l \in Links : LinkInv(l)
  BY DEF LinkInv
<1>9. QED
  BY <1>3, <1>4, <1>5, <1>6, <1>7, <1>8 DEF Inv

-----------------------------------------------------------------------------
(* What a step of one handler leaves as it is                              *)

\* A step that touches no lock leaves the accounts and the holders alone.
LEMMA LocksKept ==
  ASSUME Inv, NEW m \in Messages, NEW s, pc' = [pc EXCEPT ![m] = s],
         pc[m] # "changing", s # "changing", UNCHANGED <<balance, lock, copy>>,
         \A x \in Movers \ {m} : account'[x] = account[x]
  PROVE  (\A a \in Opened : AccountInv(a)') /\ (\A x \in Movers : MoverInv(x)')
<1>1. pc'[m] = s /\ \A x \in Messages \ {m} : pc'[x] = pc[x]
  BY DEF Inv, TypeOK
<1>2. balance' = balance /\ lock' = lock /\ copy' = copy
  OBVIOUS
<1>3. ASSUME NEW a \in Opened PROVE AccountInv(a)'
  <2>1. AccountInv(a) /\ lock[a] \in Movers \cup {Nobody}
    BY DEF Inv, TypeOK
  <2>2. CASE lock[a] = Nobody
    BY <1>2, <2>1, <2>2 DEF AccountInv
  <2>3. CASE lock[a] \in Movers
    BY <1>1, <1>2, <2>1, <2>3, Kinds DEF AccountInv
  <2>4. QED
    BY <2>1, <2>2, <2>3
<1>4. ASSUME NEW x \in Movers PROVE MoverInv(x)'
  BY <1>1, <1>2, Kinds DEF Inv, MoverInv
<1>5. QED
  BY <1>3, <1>4

\* The step that releases the handler's lock, and perhaps changes its balance.
LEMMA LockReleased ==
  ASSUME Inv, NEW m \in Movers, NEW s, pc' = [pc EXCEPT ![m] = s],
         pc[m] = "changing", s # "changing", Release(m), UNCHANGED account,
         \A a \in Opened \ {account[m]} : balance'[a] = balance[a],
         0 <= balance'[account[m]].available,
         balance'[account[m]].available <= balance'[account[m]].current
  PROVE  (\A a \in Opened : AccountInv(a)') /\ (\A x \in Movers : MoverInv(x)')
<1>1. pc'[m] = s /\ \A x \in Messages \ {m} : pc'[x] = pc[x]
  BY Kinds DEF Inv, TypeOK
<1>2. PICK b : b = account[m]
  OBVIOUS
<1>3. b \in Opened /\ lock[b] = m
  BY <1>2 DEF Inv, MoverInv
<1>4. /\ lock'[b] = Nobody /\ \A a \in Opened \ {b} : lock'[a] = lock[a]
      /\ \A x \in Movers \ {m} : copy'[x] = copy[x]
  BY <1>2, <1>3 DEF Release, Inv, TypeOK
<1>5. ASSUME NEW a \in Opened PROVE AccountInv(a)'
  <2>1. AccountInv(a) /\ lock[a] \in Movers \cup {Nobody}
    BY DEF Inv, TypeOK
  <2>2. CASE a = b
    BY <1>2, <1>4, <2>2 DEF AccountInv
  <2>3. CASE a # b /\ lock[a] = Nobody
    BY <1>2, <1>4, <2>1, <2>3 DEF AccountInv
  <2>4. CASE a # b /\ lock[a] \in Movers
    <3>1. lock[a] # m /\ lock[a] # Nobody
      BY <1>2, <2>1, <2>4, Kinds DEF AccountInv
    <3>2. QED
      BY <1>1, <1>2, <1>4, <2>1, <2>4, <3>1, Kinds DEF AccountInv
  <2>5. QED
    BY <2>1, <2>2, <2>3, <2>4
<1>6. ASSUME NEW x \in Movers PROVE MoverInv(x)'
  <2>1. CASE x = m
    BY <1>1, <2>1 DEF MoverInv
  <2>2. CASE x # m
    <3>1. pc'[x] = "changing" =>
            account[x] \in Opened /\ lock[account[x]] = x /\ account[x] # b
      BY <1>1, <1>3, <2>2, Kinds DEF Inv, MoverInv
    <3>2. QED
      BY <1>4, <3>1 DEF MoverInv
  <2>3. QED
    BY <2>1, <2>2
<1>7. QED
  BY <1>5, <1>6

\* What the step of a message leaves of the other messages.
LEMMA Elsewhere ==
  ASSUME Inv, NEW m \in Messages, NEW s, pc' = [pc EXCEPT ![m] = s],
         \A d \in Debits \ {m} : status'[d] = status[d],
         \A d \in Debits \ {m} : d \in moved' <=> d \in moved,
         \A d \in Debits : status[d] # "none" => status'[d] # "none",
         \A x \in Settles \ {m} : subject'[x] = subject[x],
         \A l \in Links \ {m} : known'[l] = known[l] /\ (l \in linked' <=> l \in linked),
         linked \subseteq linked', dbErrors > 0 => dbErrors' > 0
  PROVE  /\ \A d \in Debits \ {m} : DebitInv(d)'
         /\ \A x \in Settles \ {m} : SettleInv(x)'
         /\ \A l \in Links \ {m} : LinkInv(l)'
<1>1. \A x \in Messages \ {m} : pc'[x] = pc[x]
  BY DEF Inv, TypeOK
<1>2. ASSUME NEW d \in Debits \ {m} PROVE DebitInv(d)'
  <2>1. pc'[d] = pc[d] /\ DebitInv(d)
    BY <1>1, Kinds DEF Inv
  <2>2. QED
    BY <2>1 DEF DebitInv
<1>3. ASSUME NEW x \in Settles \ {m} PROVE SettleInv(x)'
  BY <1>1, Kinds DEF Inv, SettleInv
<1>4. ASSUME NEW l \in Links \ {m} PROVE LinkInv(l)'
  BY <1>1, Kinds DEF Inv, LinkInv, Known
<1>5. QED
  BY <1>2, <1>3, <1>4

\* A step that touches no lock is judged by its own message.
LEMMA QuietStep ==
  ASSUME Inv, TypeOK', NEW m \in Messages, NEW s, pc' = [pc EXCEPT ![m] = s],
         pc[m] # "changing", s # "changing", UNCHANGED <<balance, lock, copy, moved>>,
         \A x \in Movers \ {m} : account'[x] = account[x],
         \A d \in Debits \ {m} : status'[d] = status[d],
         \A d \in Debits : status[d] # "none" => status'[d] # "none",
         \A x \in Settles \ {m} : subject'[x] = subject[x],
         \A l \in Links \ {m} : known'[l] = known[l] /\ (l \in linked' <=> l \in linked),
         linked \subseteq linked', dbErrors' = dbErrors,
         m \in Debits => DebitInv(m)', m \in Settles => SettleInv(m)',
         m \in Links => LinkInv(m)'
  PROVE  Inv'
<1>1. (\A a \in Opened : AccountInv(a)') /\ (\A x \in Movers : MoverInv(x)')
  BY LocksKept
<1>2. /\ \A d \in Debits \ {m} : DebitInv(d)'
      /\ \A x \in Settles \ {m} : SettleInv(x)'
      /\ \A l \in Links \ {m} : LinkInv(l)'
  BY Elsewhere
<1>3. QED
  BY <1>1, <1>2 DEF Inv

-----------------------------------------------------------------------------
(* The steps                                                               *)

\* Arrivals.
LEMMA InsertKeepsInv ==
  ASSUME Inv, NEW d \in Debits, NEW a \in Known, InsertDebit(d, a)
  PROVE  Inv'
<1>1. a \in AccountIds /\ d \in Movers /\ d \in Messages /\ DebitInv(d)
  BY Kinds DEF Inv, TypeOK, Known, AccountIds
<1>2. TypeOK'
  BY <1>1 DEF InsertDebit, Goes, Inv, TypeOK, Status, balanceVars, faultVars
<1>3. DebitInv(d)'
  BY <1>1 DEF InsertDebit, Goes, Inv, TypeOK, DebitInv, balanceVars, faultVars
<1>4. QED
  BY <1>1, <1>2, <1>3, QuietStep, Kinds
     DEF InsertDebit, Goes, Inv, TypeOK, balanceVars, faultVars

\* The other messages that find the account of their balance.
LEMMA ArrivalsKeepInv ==
  ASSUME Inv, NEW m \in Freezes \cup Unfreezes, NEW a \in AccountIds \cup {Nobody},
         Goes(m, "idle", "locking"), account' = [account EXCEPT ![m] = a],
         UNCHANGED <<status, balanceVars, subject, linked, known>>
  PROVE  Inv'
<1>1. m \in Movers /\ m \in Messages /\ m \notin Debits
  BY Kinds DEF Movers
<1>2. TypeOK'
  BY <1>1 DEF Goes, Inv, TypeOK, balanceVars, faultVars
<1>3. QED
  BY <1>1, <1>2, QuietStep, Kinds DEF Goes, Inv, TypeOK, balanceVars, faultVars

\* An unfreeze that finds nothing.
LEMMA UnfreezeNothingKeepsInv ==
  ASSUME Inv, NEW u \in Unfreezes, UnfreezeNothing(u)
  PROVE  Inv'
<1>1. u \in Messages /\ u \notin Debits
  BY Kinds
<1>2. TypeOK'
  BY <1>1 DEF UnfreezeNothing, Goes, Inv, TypeOK, Ends, balanceVars, faultVars
<1>3. QED
  BY <1>1, <1>2, QuietStep, Kinds
     DEF UnfreezeNothing, Goes, Inv, TypeOK, balanceVars, faultVars

\* Of an account without a balance.
LEMMA NoBalanceKeepsInv ==
  ASSUME Inv, NEW m \in Movers, NoBalance(m)
  PROVE  Inv'
<1>1. m \in Messages /\ (m \in Debits => DebitInv(m))
  BY Kinds DEF Inv
<1>2. PICK s : s = Thrown(m)
  OBVIOUS
<1>3. s \in {"failing", "errored"}
  BY <1>2 DEF Thrown
<1>4. TypeOK'
  BY <1>1, <1>2, <1>3 DEF NoBalance, Goes, Inv, TypeOK, Ends, balanceVars, faultVars
<1>5. m \in Debits => DebitInv(m)'
  BY <1>1, <1>2, <1>3
     DEF NoBalance, Goes, Inv, TypeOK, DebitInv, balanceVars, faultVars
<1>6. QED
  BY <1>1, <1>2, <1>3, <1>4, <1>5, QuietStep, Kinds
     DEF NoBalance, Goes, Inv, TypeOK, balanceVars, faultVars

\* The outcome of a debit.
LEMMA OutcomeKeepsInv ==
  ASSUME Inv, NEW d \in Debits, CompleteDebit(d) \/ FailDebit(d)
  PROVE  Inv'
<1>1. d \in Messages /\ DebitInv(d)
  BY Kinds DEF Inv
<1>2. TypeOK'
  BY <1>1 DEF CompleteDebit, FailDebit, Goes, Inv, TypeOK, Status, Ends,
     balanceVars, faultVars
<1>3. DebitInv(d)'
  BY <1>1 DEF CompleteDebit, FailDebit, Goes, Inv, TypeOK, DebitInv, balanceVars,
     faultVars
<1>4. CASE CompleteDebit(d)
  BY <1>1, <1>2, <1>3, <1>4, QuietStep, Kinds
     DEF CompleteDebit, Goes, Inv, TypeOK, balanceVars, faultVars
<1>5. CASE FailDebit(d)
  BY <1>1, <1>2, <1>3, <1>5, QuietStep, Kinds
     DEF FailDebit, Goes, Inv, TypeOK, balanceVars, faultVars
<1>6. QED
  BY <1>4, <1>5

\* A settlement finds nothing, or a debit that is recorded.
LEMMA FindKeepsInv ==
  ASSUME Inv, NEW s \in Settles, NEW x, FindSettled(s, x)
  PROVE  Inv'
<1>1. s \in Messages /\ s \notin Debits /\ s \notin Movers
  BY Kinds
<1>2. CASE Goes(s, "idle", "refused") /\ UNCHANGED subject
  <2>1. TypeOK'
    BY <1>1, <1>2 DEF FindSettled, Goes, Inv, TypeOK, Ends, balanceVars, faultVars
  <2>2. SettleInv(s)'
    BY <1>1, <1>2 DEF Goes, Inv, TypeOK, SettleInv
  <2>3. QED
    BY <1>1, <1>2, <2>1, <2>2, QuietStep, Kinds
       DEF FindSettled, Goes, Inv, TypeOK, balanceVars, faultVars
<1>3. CASE \E d \in Recorded : /\ Goes(s, "idle", "reading")
                               /\ subject' = [subject EXCEPT ![s] = d]
  <2>1. PICK d \in Recorded : /\ Goes(s, "idle", "reading")
                              /\ subject' = [subject EXCEPT ![s] = d]
    BY <1>3
  <2>2. d \in Debits /\ status[d] # "none"
    BY DEF Recorded
  <2>3. TypeOK'
    BY <1>1, <2>1, <2>2 DEF FindSettled, Goes, Inv, TypeOK, balanceVars, faultVars
  <2>4. SettleInv(s)'
    BY <2>1, <2>2 DEF FindSettled, Inv, TypeOK, SettleInv
  <2>5. QED
    BY <1>1, <2>1, <2>3, <2>4, QuietStep, Kinds
       DEF FindSettled, Goes, Inv, TypeOK, balanceVars, faultVars
<1>4. QED
  BY <1>2, <1>3 DEF FindSettled

\* The second read changes nothing.
LEMMA ReadKeepsInv ==
  ASSUME Inv, NEW s \in Settles, ReadSettled(s)
  PROVE  Inv'
<1>1. s \in Messages /\ s \notin Debits
  BY Kinds
<1>2. TypeOK'
  BY <1>1 DEF ReadSettled, Goes, Inv, TypeOK, balanceVars, faultVars
<1>3. SettleInv(s)'
  BY <1>1 DEF ReadSettled, Goes, Inv, TypeOK, SettleInv
<1>4. QED
  BY <1>1, <1>2, <1>3, QuietStep, Kinds
     DEF ReadSettled, Goes, Inv, TypeOK, balanceVars, faultVars

\* Saving marks a debit that may still be under way.
LEMMA SaveKeepsInv ==
  ASSUME Inv, NEW s \in Settles, SaveSettled(s)
  PROVE  Inv'
<1>1. s \in Messages /\ s \notin Movers /\ s \notin Debits /\ SettleInv(s)
  BY Kinds DEF Inv
<1>2. PICK d : d = subject[s]
  OBVIOUS
<1>3. d \in Debits /\ status[d] # "none" /\ status' = [status EXCEPT ![d] = "SETTLED"]
  BY <1>1, <1>2 DEF SaveSettled, Goes, SettleInv
<1>4. /\ pc' = [pc EXCEPT ![s] = "done"] /\ pc[s] = "saving"
      /\ UNCHANGED <<balance, lock, copy, moved, frozen, account, subject, linked,
                     known, dbErrors, crashes>>
  BY DEF SaveSettled, Goes, balanceVars, faultVars
<1>5. TypeOK'
  BY <1>1, <1>3, <1>4 DEF Inv, TypeOK, Status, Ends
<1>6. (\A a \in Opened : AccountInv(a)') /\ (\A m \in Movers : MoverInv(m)')
  BY <1>1, <1>4, LocksKept
<1>7. \A x \in Messages \ {s} : pc'[x] = pc[x]
  BY <1>4 DEF Inv, TypeOK
<1>8. \A x \in Debits : status[x] = "none" <=> status'[x] = "none"
  BY <1>3 DEF Inv, TypeOK
<1>9. \A x \in Debits : DebitInv(x)'
  BY <1>1, <1>3, <1>4, <1>7, Kinds DEF Inv, TypeOK, DebitInv
<1>10. \A x \in Settles : SettleInv(x)'
  BY <1>4, <1>7, <1>8, Kinds DEF Inv, TypeOK, SettleInv
<1>11. \A l \in Links : LinkInv(l)'
  BY <1>4, <1>7, Kinds DEF Inv, LinkInv, Known
<1>12. QED
  BY <1>5, <1>6, <1>9, <1>10, <1>11 DEF Inv

\* Linked accounts.
LEMMA LinkKeepsInv ==
  ASSUME Inv, NEW l \in Links,
         LinkArrive(l) \/ LinkCheck(l) \/ LinkInsert(l) \/ LinkOpen(l)
  PROVE  Inv'
<1>1. l \in Messages /\ l \notin Movers /\ l \notin Debits /\ l \notin Settles
      /\ LinkInv(l)
  BY Kinds DEF Inv
<1>2. TypeOK'
  BY <1>1 DEF LinkArrive, LinkCheck, LinkInsert, LinkOpen, Goes, Inv, TypeOK,
     Ends, balanceVars, faultVars
<1>3. CASE LinkArrive(l)
  <2>1. LinkInv(l)'
    BY <1>1, <1>3 DEF LinkArrive, Goes, Inv, TypeOK, LinkInv, RowsOf, Known
  <2>2. QED
    BY <1>1, <1>2, <1>3, <2>1, QuietStep
       DEF LinkArrive, Goes, Inv, TypeOK, balanceVars, faultVars
<1>4. CASE LinkCheck(l)
  <2>1. LinkInv(l)'
    BY <1>1, <1>4 DEF LinkCheck, Goes, Inv, TypeOK, LinkInv, RowsOf, Known
  <2>2. QED
    BY <1>1, <1>2, <1>4, <2>1, QuietStep
       DEF LinkCheck, Goes, Inv, TypeOK, balanceVars, faultVars
<1>5. CASE LinkInsert(l)
  <2>1. LinkInv(l)'
    BY <1>1, <1>5 DEF LinkInsert, Goes, Inv, TypeOK, LinkInv
  <2>2. QED
    BY <1>1, <1>2, <1>5, <2>1, QuietStep
       DEF LinkInsert, Goes, Inv, TypeOK, balanceVars, faultVars
<1>6. CASE LinkOpen(l)
  <2>1. LinkInv(l)'
    BY <1>1, <1>6 DEF LinkOpen, Goes, Inv, TypeOK, LinkInv, Known
  <2>2. QED
    BY <1>1, <1>2, <1>6, <2>1, QuietStep
       DEF LinkOpen, Goes, Inv, TypeOK, balanceVars, faultVars
<1>7. QED
  BY <1>3, <1>4, <1>5, <1>6

\* The lock is taken: the copy is the row.
LEMMA LockKeepsInv ==
  ASSUME Inv, NEW m \in Movers, LockBalance(m)
  PROVE  Inv'
<1>1. PICK b : b = account[m]
  OBVIOUS
<1>2. /\ m \in Messages /\ b \in Opened /\ lock[b] = Nobody /\ pc[m] = "locking"
      /\ pc' = [pc EXCEPT ![m] = "changing"] /\ lock' = [lock EXCEPT ![b] = m]
      /\ copy' = [copy EXCEPT ![m] = balance[b]]
      /\ UNCHANGED <<status, frozen, balance, moved, account, subject, linked,
                     known, dbErrors, crashes>>
  BY <1>1, Kinds DEF LockBalance, Goes, faultVars
<1>3. balance[b] \in Balance
  BY <1>2 DEF Inv, TypeOK
<1>4. TypeOK'
  BY <1>2, <1>3 DEF Inv, TypeOK
<1>5. /\ pc'[m] = "changing" /\ \A x \in Messages \ {m} : pc'[x] = pc[x]
      /\ lock'[b] = m /\ \A a \in Opened \ {b} : lock'[a] = lock[a]
      /\ copy'[m] = balance[b] /\ \A x \in Movers \ {m} : copy'[x] = copy[x]
  BY <1>2 DEF Inv, TypeOK
<1>6. ASSUME NEW a \in Opened PROVE AccountInv(a)'
  <2>1. AccountInv(a) /\ lock[a] \in Movers \cup {Nobody}
    BY DEF Inv, TypeOK
  <2>2. CASE a = b
    BY <1>1, <1>2, <1>5, <2>1, <2>2 DEF AccountInv
  <2>3. CASE a # b /\ lock[a] = Nobody
    BY <1>2, <1>5, <2>1, <2>3 DEF AccountInv
  <2>4. CASE a # b /\ lock[a] \in Movers
    <3>1. lock[a] # m /\ lock[a] # Nobody
      BY <1>2, <2>1, <2>4, Kinds DEF AccountInv
    <3>2. QED
      BY <1>2, <1>5, <2>1, <2>4, <3>1, Kinds DEF AccountInv
  <2>5. QED
    BY <2>1, <2>2, <2>3, <2>4
<1>7. ASSUME NEW x \in Movers PROVE MoverInv(x)'
  <2>1. CASE x = m
    BY <1>1, <1>2, <1>5, <2>1 DEF MoverInv
  <2>2. CASE x # m
    <3>1. pc'[x] = "changing" =>
            account[x] \in Opened /\ lock[account[x]] = x /\ account[x] # b
      BY <1>2, <1>5, <2>2, Kinds DEF Inv, MoverInv
    <3>2. QED
      BY <1>2, <1>5, <3>1 DEF MoverInv
  <2>3. QED
    BY <2>1, <2>2
<1>8. /\ \A d \in Debits \ {m} : DebitInv(d)'
      /\ \A x \in Settles \ {m} : SettleInv(x)'
      /\ \A l \in Links \ {m} : LinkInv(l)'
  BY <1>2, Elsewhere
<1>9. m \in Debits => DebitInv(m)'
  BY <1>2, <1>5 DEF Inv, DebitInv
<1>10. QED
  BY <1>4, <1>6, <1>7, <1>8, <1>9, Kinds DEF Inv

\* Releasing the lock keeps the types of the locks and the copies.
LEMMA ReleaseTyped ==
  ASSUME TypeOK, NEW m \in Movers, Release(m)
  PROVE  lock' \in [Opened -> Movers \cup {Nobody}] /\ copy' \in [Movers -> Balance]
<1>1. Empty \in Balance
  BY DEF Empty, Balance
<1>2. QED
  BY <1>1 DEF Release, TypeOK

\* Rolling back ends the handler, or takes its debit to its failure.
LEMMA RollBackKeepsInv ==
  ASSUME Inv, NEW m \in Movers, RollBack(m)
  PROVE  Inv'
<1>1. PICK s : s = Thrown(m)
  OBVIOUS
<1>2. /\ m \in Messages /\ s \in {"failing", "errored"} /\ pc[m] = "changing"
      /\ pc' = [pc EXCEPT ![m] = s] /\ Release(m)
      /\ UNCHANGED <<status, frozen, balance, moved, account, subject, linked,
                     known, dbErrors, crashes>>
  BY <1>1, Kinds DEF RollBack, Goes, Thrown, faultVars
<1>3. TypeOK'
  BY <1>2, ReleaseTyped DEF Inv, TypeOK, Ends
<1>4. account[m] \in Opened
  BY <1>2 DEF Inv, MoverInv
<1>5. 0 <= balance'[account[m]].available
      /\ balance'[account[m]].available <= balance'[account[m]].current
  BY <1>2, <1>4 DEF Inv, AccountInv
<1>6. (\A a \in Opened : AccountInv(a)') /\ (\A x \in Movers : MoverInv(x)')
  BY <1>2, <1>5, LockReleased
<1>7. /\ \A d \in Debits \ {m} : DebitInv(d)'
      /\ \A x \in Settles \ {m} : SettleInv(x)'
      /\ \A l \in Links \ {m} : LinkInv(l)'
  BY <1>2, Elsewhere
<1>8. m \in Debits => DebitInv(m)'
  BY <1>2 DEF Inv, TypeOK, DebitInv
<1>9. QED
  BY <1>3, <1>6, <1>7, <1>8, Kinds DEF Inv

\* What a handler that holds the lock finds in its copy.
LEMMA CopyIsBalance ==
  ASSUME Inv, NEW m \in Debits \cup Freezes, pc[m] = "changing", Enough(m)
  PROVE  /\ account[m] \in Opened /\ lock[account[m]] = m
         /\ copy[m] = balance[account[m]] /\ copy[m] \in Balance
         /\ Hundredths(Amount[m]) \in Nat \ {0}
         /\ copy[m].available >= Hundredths(Amount[m])
         /\ copy[m].available <= copy[m].current
<1>1. m \in Movers /\ m # Nobody
  BY Kinds
<1>2. account[m] \in Opened /\ lock[account[m]] = m
  BY <1>1 DEF Inv, MoverInv
<1>3. AccountInv(account[m])
  BY <1>2 DEF Inv
<1>4. copy[m] = balance[account[m]] /\ copy[m].available <= copy[m].current
  BY <1>1, <1>2, <1>3 DEF AccountInv
<1>5. copy[m] \in Balance
  BY <1>1 DEF Inv, TypeOK
<1>6. Hundredths(Amount[m]) \in Nat \ {0}
  BY BankAssumption DEF Hundredths
<1>7. QED
  BY <1>2, <1>4, <1>5, <1>6 DEF Enough

\* A commit under the lock that takes what is available.
LEMMA CommitKeepsInv ==
  ASSUME Inv, NEW m \in Debits \cup Freezes, NEW s \in {"completing", "done"},
         Goes(m, "changing", s), NEW new \in Balance, Commit(m, new),
         0 <= new.available, new.available <= new.current,
         m \in Debits => s = "completing" /\ moved' = moved \cup {m},
         m \in Freezes => UNCHANGED moved,
         frozen' \subseteq Freezes
  PROVE  Inv'
<1>1. /\ m \in Messages /\ m \in Movers /\ pc[m] = "changing" /\ s # "changing"
      /\ pc' = [pc EXCEPT ![m] = s] /\ Release(m)
      /\ balance' = [balance EXCEPT ![account[m]] = new]
      /\ UNCHANGED <<status, account, subject, linked, known, dbErrors, crashes>>
  BY Kinds DEF Goes, Commit, faultVars
<1>2. account[m] \in Opened
  BY <1>1 DEF Inv, MoverInv
<1>3. moved' \subseteq Debits /\ \A d \in Debits \ {m} : d \in moved' <=> d \in moved
  BY Kinds DEF Inv, TypeOK
<1>4. TypeOK'
  <2>1. balance' \in [Opened -> Balance]
    BY <1>1, <1>2 DEF Inv, TypeOK
  <2>2. QED
    BY <1>1, <1>3, <2>1, ReleaseTyped DEF Inv, TypeOK, Ends
<1>5. /\ balance'[account[m]] = new
      /\ \A a \in Opened \ {account[m]} : balance'[a] = balance[a]
  BY <1>1, <1>2 DEF Inv, TypeOK
<1>6. (\A a \in Opened : AccountInv(a)') /\ (\A x \in Movers : MoverInv(x)')
  BY <1>1, <1>5, LockReleased
<1>7. /\ \A d \in Debits \ {m} : DebitInv(d)'
      /\ \A x \in Settles \ {m} : SettleInv(x)'
      /\ \A l \in Links \ {m} : LinkInv(l)'
  BY <1>1, <1>3, Elsewhere
<1>8. m \in Debits => DebitInv(m)'
  BY <1>1 DEF Inv, TypeOK, DebitInv
<1>9. QED
  BY <1>4, <1>6, <1>7, <1>8, Kinds DEF Inv

\* A debit takes from what is available and what is there.
LEMMA DebitKeepsInv ==
  ASSUME Inv, NEW d \in Debits, Debit(d)
  PROVE  Inv'
<1> DEFINE new == [available |-> copy[d].available - Hundredths(Amount[d]),
                   current   |-> copy[d].current - Hundredths(Amount[d]),
                   reserved  |-> copy[d].reserved]
<1>1. /\ Goes(d, "changing", "completing") /\ Commit(d, new) /\ Enough(d)
      /\ moved' = moved \cup {d} /\ frozen' \subseteq Freezes
  BY DEF Debit, Commit, Inv, TypeOK
<1>2. PICK h : h = Hundredths(Amount[d])
  OBVIOUS
<1>3. copy[d] \in Balance /\ h \in Nat /\ copy[d].available >= h
      /\ copy[d].available <= copy[d].current
  BY <1>1, <1>2, CopyIsBalance DEF Goes
<1>4. /\ copy[d].available \in Int /\ copy[d].current \in Int
      /\ copy[d].reserved \in Int
  BY <1>3 DEF Balance
<1>5. /\ new \in Balance /\ new.available = copy[d].available - h
      /\ new.current = copy[d].current - h
  BY <1>2, <1>3, <1>4 DEF Balance
<1> HIDE DEF new
<1>6. 0 <= new.available /\ new.available <= new.current
  BY <1>3, <1>4, <1>5
<1>7. d \notin Freezes
  BY Kinds
<1>8. QED
  BY <1>1, <1>5, <1>6, <1>7, CommitKeepsInv

\* A freeze takes from what is available only.
LEMMA FreezeKeepsInv ==
  ASSUME Inv, NEW f \in Freezes, Freeze(f)
  PROVE  Inv'
<1> DEFINE new == [available |-> copy[f].available - Hundredths(Amount[f]),
                   current   |-> copy[f].current,
                   reserved  |-> Appended(copy[f].reserved, Amount[f])]
<1>1. /\ Goes(f, "changing", "done") /\ Commit(f, new) /\ Enough(f)
      /\ UNCHANGED moved /\ frozen' \subseteq Freezes
  BY DEF Freeze, Commit, Inv, TypeOK
<1>2. PICK h : h = Hundredths(Amount[f])
  OBVIOUS
<1>3. copy[f] \in Balance /\ h \in Nat /\ copy[f].available >= h
      /\ copy[f].available <= copy[f].current
  BY <1>1, <1>2, CopyIsBalance DEF Goes
<1>4. /\ copy[f].available \in Int /\ copy[f].current \in Int
      /\ copy[f].reserved \in Int
  BY <1>3 DEF Balance
<1>5. Appended(copy[f].reserved, Amount[f]) \in Int
  BY <1>4 DEF Appended
<1>6. /\ new \in Balance /\ new.available = copy[f].available - h
      /\ new.current = copy[f].current
  BY <1>2, <1>3, <1>4, <1>5 DEF Balance
<1> HIDE DEF new
<1>7. 0 <= new.available /\ new.available <= new.current
  BY <1>3, <1>4, <1>6
<1>8. f \notin Debits
  BY Kinds
<1>9. QED
  BY <1>1, <1>6, <1>7, <1>8, CommitKeepsInv

-----------------------------------------------------------------------------
(* Faults                                                                  *)

\* Locks that are freed: those of the handlers that end.
LEMMA LocksFreed ==
  ASSUME Inv, NEW holders \in SUBSET Movers, FreeLocks(holders),
         UNCHANGED <<balance, account>>,
         \A x \in Movers \ holders : pc'[x] = "changing" <=> pc[x] = "changing",
         \A x \in holders : pc'[x] # "changing"
  PROVE  (\A a \in Opened : AccountInv(a)') /\ (\A x \in Movers : MoverInv(x)')
<1>1. /\ \A a \in Opened : lock'[a] = IF lock[a] \in holders THEN Nobody ELSE lock[a]
      /\ \A x \in Movers \ holders : copy'[x] = copy[x]
  BY DEF FreeLocks
<1>2. ASSUME NEW a \in Opened PROVE AccountInv(a)'
  <2>1. AccountInv(a) /\ lock[a] \in Movers \cup {Nobody}
    BY DEF Inv, TypeOK
  <2>2. CASE lock[a] \in holders \cup {Nobody}
    BY <1>1, <2>1, <2>2, Kinds DEF AccountInv
  <2>3. CASE lock[a] \in Movers \ holders
    BY <1>1, <2>1, <2>3, Kinds DEF AccountInv
  <2>4. QED
    BY <2>1, <2>2, <2>3
<1>3. ASSUME NEW x \in Movers PROVE MoverInv(x)'
  BY <1>1 DEF Inv, MoverInv
<1>4. QED
  BY <1>2, <1>3

\* Freeing keeps the types of the locks and the copies.
LEMMA FreeTyped ==
  ASSUME TypeOK, NEW holders, FreeLocks(holders)
  PROVE  lock' \in [Opened -> Movers \cup {Nobody}] /\ copy' \in [Movers -> Balance]
<1>1. Empty \in Balance
  BY DEF Empty, Balance
<1>2. QED
  BY <1>1 DEF FreeLocks, TypeOK

\* A failing query rolls its handler back.
LEMMA ErrorKeepsInv ==
  ASSUME Inv, NEW m \in Messages, DbError(m)
  PROVE  Inv'
<1>1. PICK s : s = AfterError(m)
  OBVIOUS
<1>2. /\ s \in {"failing", "errored"} /\ pc[m] \notin Ends \cup {"idle"}
      /\ pc' = [pc EXCEPT ![m] = s] /\ FreeLocks({m})
      /\ dbErrors' = dbErrors + 1 /\ dbErrors < MaxDbErrors
      /\ UNCHANGED <<status, frozen, balance, moved, account, subject, linked,
                     known, crashes>>
  BY <1>1 DEF DbError, AfterError
<1>3. dbErrors' \in 0..MaxDbErrors /\ dbErrors' > 0
  BY <1>2, BankAssumption DEF Inv, TypeOK
<1>4. TypeOK'
  BY <1>2, <1>3, FreeTyped DEF Inv, TypeOK, Ends
<1>5. pc'[m] = s /\ \A x \in Messages \ {m} : pc'[x] = pc[x]
  BY <1>2 DEF Inv, TypeOK
<1>6. (\A a \in Opened : AccountInv(a)') /\ (\A x \in Movers : MoverInv(x)')
  <2>1. CASE m \in Movers
    BY <1>2, <1>5, <2>1, LocksFreed, Kinds
  <2>2. CASE m \notin Movers
    <3>1. FreeLocks({})
      BY <1>2, <2>2, Kinds DEF FreeLocks, Inv, TypeOK
    <3>2. QED
      BY <1>2, <1>5, <2>2, <3>1, LocksFreed, Kinds
  <2>3. QED
    BY <2>1, <2>2
<1>7. /\ \A d \in Debits \ {m} : DebitInv(d)'
      /\ \A x \in Settles \ {m} : SettleInv(x)'
      /\ \A l \in Links \ {m} : LinkInv(l)'
  BY <1>2, <1>3, Elsewhere
<1>8. m \in Debits => DebitInv(m)'
  BY <1>2, <1>3, <1>5 DEF DebitInv
<1>9. m \in Settles => SettleInv(m)'
  BY <1>2, <1>5 DEF SettleInv
<1>10. m \in Links => LinkInv(m)'
  BY <1>2, <1>5 DEF Inv, LinkInv, Known
<1>11. QED
  BY <1>4, <1>6, <1>7, <1>8, <1>9, <1>10 DEF Inv

\* A crash rolls every handler back.
LEMMA CrashKeepsInv == Inv /\ Crash => Inv'
<1> SUFFICES ASSUME Inv, Crash PROVE Inv'
  OBVIOUS
<1>1. /\ FreeLocks(Movers) /\ crashes' = crashes + 1 /\ crashes < MaxCrashes
      /\ UNCHANGED <<status, frozen, balance, moved, account, subject, linked,
                     known, dbErrors>>
      /\ pc' = [m \in Messages |->
                 IF pc[m] \in Ends \cup {"idle"} THEN pc[m] ELSE "lost"]
  BY DEF Crash
<1>2. crashes' \in 0..MaxCrashes
  BY <1>1, BankAssumption DEF Inv, TypeOK
<1>3. \A m \in Messages :
        /\ pc'[m] \in Ends \cup {"idle"}
        /\ pc'[m] = pc[m] \/ pc'[m] = "lost"
  BY <1>1 DEF Ends
<1>4. TypeOK'
  <2>1. pc' \in [Messages -> {"idle"} \cup Ends]
    BY <1>1, <1>3
  <2>2. QED
    BY <1>1, <1>2, <2>1, FreeTyped DEF Inv, TypeOK
<1>5. (\A a \in Opened : AccountInv(a)') /\ (\A x \in Movers : MoverInv(x)')
  BY <1>1, <1>3, LocksFreed, Kinds DEF Ends
<1>6. \A d \in Debits : DebitInv(d)'
  BY <1>1, <1>3, Kinds DEF Inv, DebitInv, Ends
<1>7. \A s \in Settles : SettleInv(s)'
  BY <1>1, <1>3, Kinds DEF SettleInv, Ends
<1>8. \A l \in Links : LinkInv(l)'
  BY <1>1, <1>3, Kinds DEF Inv, LinkInv, Ends, Known
<1>9. QED
  BY <1>4, <1>5, <1>6, <1>7, <1>8 DEF Inv

-----------------------------------------------------------------------------
(* The books                                                               *)

(***************************************************************************)
(* What the books need beside the invariant: a debit moves its money, and  *)
(* a freeze lists its funds, once, and neither changes its account after   *)
(* that; a COMPLETED debit has moved its money, and a debit that has is    *)
(* recorded. Only so many messages have come that sums over them exist.    *)
(***************************************************************************)

MovedOn(a) == {d \in moved : account[d] = a}
FrozenOn(a) == {f \in frozen : account[f] = a}

EntryInv ==
  /\ \A d \in Debits :
       /\ d \in moved => status[d] # "none"
       /\ status[d] = "COMPLETED" => d \in moved
  /\ \A f \in frozen : pc[f] = "done"

BookInv ==
  /\ EntryInv /\ BooksBalance
  /\ IsFiniteSet(Recorded) /\ IsFiniteSet(frozen)

\* Only finitely many debits have moved their money.
LEMMA MovedIsFinite ==
  ASSUME Inv, BookInv
  PROVE  moved \subseteq Recorded /\ IsFiniteSet(moved)
<1>1. moved \subseteq Recorded
  BY DEF Inv, TypeOK, BookInv, EntryInv, Recorded
<1>2. QED
  BY <1>1, FS_Subset DEF BookInv

\* What a message adds to a sum of hundredths.
LEMMA TotalAdds ==
  ASSUME NEW S, IsFiniteSet(S), S \subseteq Debits \cup Freezes,
         NEW m \in Debits \cup Freezes, m \notin S
  PROVE  /\ Total(S) \in Int /\ Hundredths(Amount[m]) \in Int
         /\ Total(S \cup {m}) = Total(S) + Hundredths(Amount[m])
<1>1. \A x \in S \cup {m} : Amount[x] \in Int
  BY BankAssumption
<1>2. SumFunctionOnSet(Amount, S) \in Int
  BY <1>1, SumInt
<1>3. SumFunctionOnSet(Amount, S \cup {m}) = SumFunctionOnSet(Amount, S) + Amount[m]
  BY <1>1, SumAdd
<1>4. \A x, y \in Int : 100 * (x + y) = 100 * x + 100 * y /\ 100 * x \in Int
  OBVIOUS
<1>5. Amount[m] \in Int
  BY <1>1
<1>6. QED
  BY <1>2, <1>3, <1>4, <1>5 DEF Total, Hundredths

\* Fewer messages, a smaller sum.
LEMMA TotalIsMonotone ==
  ASSUME NEW S, IsFiniteSet(S), S \subseteq Debits \cup Freezes, NEW T \in SUBSET S
  PROVE  Total(T) <= Total(S)
<1>1. \A x \in S : Amount[x] \in Nat /\ Amount[x] \in Int
  BY BankAssumption
<1>2. IsFiniteSet(T)
  BY FS_Subset
<1>3. SumFunctionOnSet(Amount, T) \in Int /\ SumFunctionOnSet(Amount, S) \in Int
  BY <1>1, <1>2, SumInt
<1>4. SumFunctionOnSet(Amount, T) <= SumFunctionOnSet(Amount, S)
  BY <1>1, SumMonotone
<1>5. QED
  BY <1>3, <1>4 DEF Total, Hundredths

\* Without a message, nothing.
LEMMA TotalOfNothing == Total({}) = 0
  BY SumEmpty DEF Total, Hundredths

\* Nothing has moved at the start.
LEMMA BooksInit == Init => BookInv
<1> SUFFICES ASSUME Init PROVE BookInv
  OBVIOUS
<1>1. Recorded = {} /\ frozen = {} /\ moved = {}
  BY DEF Init, Recorded
<1>2. \A a \in Opened : {d \in moved : account[d] = a} = {}
                        /\ {f \in frozen : account[f] = a} = {}
  BY <1>1
<1>3. BooksBalance
  BY <1>2, TotalOfNothing, BankAssumption DEF Init, BooksBalance
<1>4. QED
  BY <1>1, <1>3, FS_EmptySet DEF Init, BookInv, EntryInv

\* A step that moves no money and freezes no funds leaves the books alone.
LEMMA BooksKept ==
  ASSUME Inv, BookInv, EntryInv', IsFiniteSet(Recorded)',
         UNCHANGED <<balance, moved, frozen>>,
         \A m \in moved \cup frozen : account'[m] = account[m]
  PROVE  BookInv'
<1>1. ASSUME NEW a \in Opened
      PROVE  {d \in moved' : account'[d] = a} = {d \in moved : account[d] = a}
             /\ {f \in frozen' : account'[f] = a} = {f \in frozen : account[f] = a}
  OBVIOUS
<1>2. BooksBalance'
  BY <1>1 DEF BookInv, BooksBalance
<1>3. QED
  BY <1>2 DEF BookInv

\* One debit more is recorded, or none.
LEMMA RecordedIsFinite ==
  ASSUME BookInv, NEW d, \A x \in Debits \ {d} : status'[x] = status[x]
  PROVE  IsFiniteSet(Recorded)'
<1>1. IsFiniteSet(Recorded \cup {d})
  BY FS_AddElement DEF BookInv
<1>2. Recorded' \subseteq Recorded \cup {d}
  BY DEF Recorded
<1>3. QED
  BY <1>1, <1>2, FS_Subset

\* A debit moves its money.
LEMMA DebitKeepsBooks ==
  ASSUME Inv, BookInv, NEW d \in Debits, Debit(d)
  PROVE  BookInv'
<1>1. /\ pc[d] = "changing" /\ pc' = [pc EXCEPT ![d] = "completing"]
      /\ Enough(d) /\ moved' = moved \cup {d}
      /\ UNCHANGED <<status, account, frozen>>
      /\ balance' = [balance EXCEPT ![account[d]] =
           [available |-> copy[d].available - Hundredths(Amount[d]),
            current   |-> copy[d].current - Hundredths(Amount[d]),
            reserved  |-> copy[d].reserved]]
  BY DEF Debit, Commit, Goes
<1>2. account[d] \in Opened /\ copy[d] = balance[account[d]]
  BY <1>1, CopyIsBalance, Kinds
<1>3. d \notin moved /\ status[d] # "none"
  BY <1>1 DEF Inv, DebitInv
<1>4. EntryInv'
  <2>1. \A f \in frozen : pc'[f] = "done"
    BY <1>1, Kinds DEF Inv, TypeOK, BookInv, EntryInv
  <2>2. QED
    BY <1>1, <1>3, <2>1 DEF BookInv, EntryInv
<1>5. BooksBalance'
  <2> SUFFICES ASSUME NEW a \in Opened
               PROVE  /\ balance'[a].current = Deposit - Total(MovedOn(a)')
                      /\ balance'[a].current - balance'[a].available
                           = Total(FrozenOn(a)')
    BY DEF BooksBalance, MovedOn, FrozenOn
  <2>1. /\ balance[a].current = Deposit - Total(MovedOn(a))
        /\ balance[a].current - balance[a].available = Total(FrozenOn(a))
        /\ balance[a].current \in Int /\ balance[a].available \in Int
    BY DEF BookInv, BooksBalance, MovedOn, FrozenOn, Inv, TypeOK, Balance
  <2>2. FrozenOn(a)' = FrozenOn(a)
    BY <1>1 DEF FrozenOn
  <2>3. CASE a # account[d]
    <3>1. balance'[a] = balance[a]
      BY <1>1, <2>3 DEF Inv, TypeOK
    <3>2. MovedOn(a)' = MovedOn(a)
      BY <1>1, <2>3 DEF MovedOn
    <3>3. QED
      BY <2>1, <2>2, <3>1, <3>2
  <2>4. CASE a = account[d]
    <3>1. /\ balance'[a].current = balance[a].current - Hundredths(Amount[d])
          /\ balance'[a].available = balance[a].available - Hundredths(Amount[d])
      BY <1>1, <1>2, <2>4 DEF Inv, TypeOK
    <3>2. MovedOn(a)' = MovedOn(a) \cup {d}
      BY <1>1, <2>4 DEF MovedOn
    <3>3. /\ IsFiniteSet(MovedOn(a)) /\ d \notin MovedOn(a)
          /\ MovedOn(a) \subseteq Debits \cup Freezes
      BY <1>3, MovedIsFinite, FS_Subset DEF MovedOn, Inv, TypeOK
    <3>4. /\ Total(MovedOn(a)) \in Int /\ Hundredths(Amount[d]) \in Int
          /\ Total(MovedOn(a)') = Total(MovedOn(a)) + Hundredths(Amount[d])
      BY <3>2, <3>3, TotalAdds
    <3>5. Deposit \in Int
      BY BankAssumption
    <3>6. QED
      BY <2>1, <2>2, <3>1, <3>4, <3>5
  <2>5. QED
    BY <2>3, <2>4
<1>6. IsFiniteSet(Recorded)' /\ IsFiniteSet(frozen)'
  BY <1>1 DEF BookInv, Recorded
<1>7. QED
  BY <1>4, <1>5, <1>6 DEF BookInv

\* A freeze lists its funds.
LEMMA FreezeKeepsBooks ==
  ASSUME Inv, BookInv, NEW f \in Freezes, Freeze(f)
  PROVE  BookInv'
<1>1. /\ pc[f] = "changing" /\ pc' = [pc EXCEPT ![f] = "done"]
      /\ Enough(f) /\ frozen' = frozen \cup {f}
      /\ UNCHANGED <<status, account, moved>>
      /\ balance' = [balance EXCEPT ![account[f]] =
           [available |-> copy[f].available - Hundredths(Amount[f]),
            current   |-> copy[f].current,
            reserved  |-> Appended(copy[f].reserved, Amount[f])]]
  BY DEF Freeze, Commit, Goes
<1>2. account[f] \in Opened /\ copy[f] = balance[account[f]]
  BY <1>1, CopyIsBalance, Kinds
<1>3. f \notin frozen
  BY <1>1 DEF BookInv, EntryInv
<1>4. EntryInv'
  <2>1. \A x \in frozen' : pc'[x] = "done"
    BY <1>1, Kinds DEF Inv, TypeOK, BookInv, EntryInv
  <2>2. QED
    BY <1>1, <2>1 DEF BookInv, EntryInv
<1>5. BooksBalance'
  <2> SUFFICES ASSUME NEW a \in Opened
               PROVE  /\ balance'[a].current = Deposit - Total(MovedOn(a)')
                      /\ balance'[a].current - balance'[a].available
                           = Total(FrozenOn(a)')
    BY DEF BooksBalance, MovedOn, FrozenOn
  <2>1. /\ balance[a].current = Deposit - Total(MovedOn(a))
        /\ balance[a].current - balance[a].available = Total(FrozenOn(a))
        /\ balance[a].current \in Int /\ balance[a].available \in Int
    BY DEF BookInv, BooksBalance, MovedOn, FrozenOn, Inv, TypeOK, Balance
  <2>2. MovedOn(a)' = MovedOn(a)
    BY <1>1 DEF MovedOn
  <2>3. CASE a # account[f]
    <3>1. balance'[a] = balance[a]
      BY <1>1, <2>3 DEF Inv, TypeOK
    <3>2. FrozenOn(a)' = FrozenOn(a)
      BY <1>1, <2>3 DEF FrozenOn
    <3>3. QED
      BY <2>1, <2>2, <3>1, <3>2
  <2>4. CASE a = account[f]
    <3>1. /\ balance'[a].current = balance[a].current
          /\ balance'[a].available = balance[a].available - Hundredths(Amount[f])
      BY <1>1, <1>2, <2>4 DEF Inv, TypeOK
    <3>2. FrozenOn(a)' = FrozenOn(a) \cup {f}
      BY <1>1, <2>4 DEF FrozenOn
    <3>3. /\ IsFiniteSet(FrozenOn(a)) /\ f \notin FrozenOn(a)
          /\ FrozenOn(a) \subseteq Debits \cup Freezes
      BY <1>3, FS_Subset DEF FrozenOn, BookInv, Inv, TypeOK
    <3>4. /\ Total(FrozenOn(a)) \in Int /\ Hundredths(Amount[f]) \in Int
          /\ Total(FrozenOn(a)') = Total(FrozenOn(a)) + Hundredths(Amount[f])
      BY <3>2, <3>3, TotalAdds
    <3>5. QED
      BY <2>1, <2>2, <3>1, <3>4
  <2>5. QED
    BY <2>3, <2>4
<1>6. IsFiniteSet(Recorded)' /\ IsFiniteSet(frozen)'
  BY <1>1, FS_AddElement DEF BookInv, Recorded
<1>7. QED
  BY <1>4, <1>5, <1>6 DEF BookInv

\* The arrival of a message, whose debit has not moved its money yet and whose
\* freeze has listed nothing.
LEMMA ArrivalKeepsBooks ==
  ASSUME Inv, BookInv, NEW m \in Movers, NEW a, pc[m] = "idle",
         pc' = [pc EXCEPT ![m] = "locking"], account' = [account EXCEPT ![m] = a],
         UNCHANGED balanceVars,
         \A x \in Debits \ {m} : status'[x] = status[x],
         m \in Debits => status'[m] = "PENDING"
  PROVE  BookInv'
<1>1. m \notin moved /\ m \notin frozen
  BY Kinds DEF Inv, TypeOK, DebitInv, BookInv, EntryInv
<1>2. \A x \in moved \cup frozen : account'[x] = account[x] /\ pc'[x] = pc[x]
  BY <1>1, Kinds DEF Inv, TypeOK
<1>3. EntryInv'
  BY <1>1, <1>2 DEF BookInv, EntryInv, balanceVars
<1>4. IsFiniteSet(Recorded)'
  BY RecordedIsFinite
<1>5. QED
  BY <1>2, <1>3, <1>4, BooksKept DEF balanceVars

\* The steps of a handler that touch no balance: at most the status of one debit
\* changes, to COMPLETED only after the money has moved.
LEMMA HandlerKeepsBooks ==
  ASSUME Inv, BookInv, NEW m \in Messages, NEW s, pc' = [pc EXCEPT ![m] = s],
         pc[m] # "done", UNCHANGED <<balance, moved, frozen, account>>,
         NEW d, \A x \in Debits \ {d} : status'[x] = status[x],
         d \in Debits => \/ status'[d] = status[d]
                         \/ status'[d] \in {"FAILED", "SETTLED"}
                         \/ status'[d] = "COMPLETED" /\ d \in moved
  PROVE  BookInv'
<1>1. \A f \in frozen : pc'[f] = "done"
  BY Kinds DEF Inv, TypeOK, BookInv, EntryInv
<1>2. EntryInv'
  BY <1>1 DEF BookInv, EntryInv
<1>3. IsFiniteSet(Recorded)'
  BY RecordedIsFinite
<1>4. QED
  BY <1>2, <1>3, BooksKept

\* Every step of a handler.
LEMMA HandleKeepsBooks ==
  ASSUME Inv, BookInv, NEW m \in Messages, Handle(m)
  PROVE  BookInv'
<1>1. CASE m \in Debits /\ Debit(m)
  BY <1>1, DebitKeepsBooks
<1>2. CASE m \in Freezes /\ Freeze(m)
  BY <1>2, FreezeKeepsBooks
<1>3. CASE LockBalance(m) \/ NoBalance(m) \/ RollBack(m)
  <2>1. PICK s : pc' = [pc EXCEPT ![m] = s]
    BY <1>3 DEF LockBalance, NoBalance, RollBack, Goes
  <2>2. pc[m] # "done" /\ UNCHANGED <<status, balance, moved, frozen, account>>
    BY <1>3 DEF LockBalance, NoBalance, RollBack, Goes, balanceVars
  <2>3. QED
    BY <2>1, <2>2, HandlerKeepsBooks
<1>4. CASE m \in Debits /\ (CompleteDebit(m) \/ FailDebit(m))
  <2>1. PICK s : pc' = [pc EXCEPT ![m] = s]
    BY <1>4 DEF CompleteDebit, FailDebit, Goes
  <2>2. /\ pc[m] # "done" /\ UNCHANGED <<balance, moved, frozen, account>>
        /\ \A x \in Debits \ {m} : status'[x] = status[x]
        /\ \/ status'[m] = "FAILED"
           \/ status'[m] = "COMPLETED" /\ m \in moved
    BY <1>4 DEF CompleteDebit, FailDebit, Goes, balanceVars, Inv, TypeOK, DebitInv
  <2>3. QED
    BY <2>1, <2>2, HandlerKeepsBooks
<1>5. CASE m \in Settles /\ (ReadSettled(m) \/ SaveSettled(m))
  <2>1. PICK s : pc' = [pc EXCEPT ![m] = s]
    BY <1>5 DEF ReadSettled, SaveSettled, Goes
  <2>2. PICK d : d = subject[m]
    OBVIOUS
  <2>3. /\ pc[m] # "done" /\ UNCHANGED <<balance, moved, frozen, account>>
        /\ \A x \in Debits \ {d} : status'[x] = status[x]
        /\ d \in Debits => status'[d] = status[d] \/ status'[d] = "SETTLED"
    BY <1>5, <2>2 DEF ReadSettled, SaveSettled, Goes, balanceVars, Inv, TypeOK
  <2>4. QED
    BY <2>1, <2>3, HandlerKeepsBooks
<1>6. CASE m \in Links /\ (LinkCheck(m) \/ LinkInsert(m) \/ LinkOpen(m))
  <2>1. PICK s : pc' = [pc EXCEPT ![m] = s]
    BY <1>6 DEF LinkCheck, LinkInsert, LinkOpen, Goes
  <2>2. pc[m] # "done" /\ UNCHANGED <<status, balance, moved, frozen, account>>
    BY <1>6 DEF LinkCheck, LinkInsert, LinkOpen, Goes, balanceVars
  <2>3. QED
    BY <2>1, <2>2, HandlerKeepsBooks
<1>7. QED
  BY <1>1, <1>2, <1>3, <1>4, <1>5, <1>6 DEF Handle

\* Every step keeps the books.
LEMMA StepKeepsBooks == Inv /\ BookInv /\ [Next]_vars => BookInv'
<1> SUFFICES ASSUME Inv, BookInv, [Next]_vars PROVE BookInv'
  OBVIOUS
<1>1. CASE \E d \in Debits, a \in Known : InsertDebit(d, a)
  <2>1. PICK d \in Debits, a \in Known : InsertDebit(d, a)
    BY <1>1
  <2>2. d \in Movers /\ status' = [status EXCEPT ![d] = "PENDING"]
    BY <2>1, Kinds DEF InsertDebit
  <2>3. status'[d] = "PENDING" /\ \A x \in Debits \ {d} : status'[x] = status[x]
    BY <2>2 DEF Inv, TypeOK
  <2>4. QED
    BY <2>1, <2>2, <2>3, ArrivalKeepsBooks DEF InsertDebit, Goes
<1>2. CASE \E f \in Freezes, a \in Known : ArriveFreeze(f, a)
  BY <1>2, ArrivalKeepsBooks, Kinds DEF ArriveFreeze, Goes
<1>3. CASE \E u \in Unfreezes : UnfreezeNothing(u)
  BY <1>3, HandlerKeepsBooks, Kinds DEF UnfreezeNothing, Goes, balanceVars
<1>4. CASE \E u \in Unfreezes, f \in Freezes : ArriveUnfreeze(u, f)
  BY <1>4, ArrivalKeepsBooks, Kinds DEF ArriveUnfreeze, Goes
<1>5. CASE \E s \in Settles, x \in ExternalIds : FindSettled(s, x)
  <2>1. PICK s \in Settles, x \in ExternalIds : FindSettled(s, x)
    BY <1>5
  <2>2. /\ pc[s] = "idle" /\ \E to : pc' = [pc EXCEPT ![s] = to]
        /\ UNCHANGED <<status, balance, moved, frozen, account>>
    BY <2>1 DEF FindSettled, Goes, balanceVars
  <2>3. QED
    BY <2>2, HandlerKeepsBooks, Kinds
<1>6. CASE \E l \in Links : LinkArrive(l)
  BY <1>6, HandlerKeepsBooks, Kinds DEF LinkArrive, Goes, balanceVars
<1>7. CASE \E m \in Messages : Handle(m)
  BY <1>7, HandleKeepsBooks
<1>8. CASE \E m \in Messages : DbError(m)
  <2>1. PICK m \in Messages : DbError(m)
    BY <1>8
  <2>2. /\ pc[m] # "done" /\ \E to : pc' = [pc EXCEPT ![m] = to]
        /\ UNCHANGED <<status, balance, moved, frozen, account>>
    BY <2>1 DEF DbError, Ends
  <2>3. QED
    BY <2>2, HandlerKeepsBooks
<1>9. CASE Crash
  <2>1. \A f \in frozen : pc'[f] = "done"
    BY <1>9, Kinds DEF Crash, Ends, Inv, TypeOK, BookInv, EntryInv
  <2>2. EntryInv'
    BY <1>9, <2>1 DEF Crash, BookInv, EntryInv
  <2>3. IsFiniteSet(Recorded)'
    BY <1>9 DEF Crash, BookInv, Recorded
  <2>4. QED
    BY <1>9, <2>2, <2>3, BooksKept DEF Crash
<1>10. CASE UNCHANGED vars
  BY <1>10, BooksKept
     DEF vars, balanceVars, faultVars, BookInv, EntryInv, Recorded
<1>11. QED
  BY <1>1, <1>2, <1>3, <1>4, <1>5, <1>6, <1>7, <1>8, <1>9, <1>10 DEF Next

-----------------------------------------------------------------------------
(* Theorems                                                                *)

\* Every step keeps the invariant.
LEMMA StepKeepsInv == Inv /\ [Next]_vars => Inv'
<1> SUFFICES ASSUME Inv, [Next]_vars PROVE Inv'
  OBVIOUS
<1>1. CASE \E d \in Debits, a \in Known : InsertDebit(d, a)
  BY <1>1, InsertKeepsInv
<1>2. CASE \E f \in Freezes, a \in Known : ArriveFreeze(f, a)
  <2>1. Known \subseteq AccountIds
    BY DEF Inv, TypeOK, Known, AccountIds
  <2>2. QED
    BY <1>2, <2>1, ArrivalsKeepInv DEF ArriveFreeze
<1>3. CASE \E u \in Unfreezes : UnfreezeNothing(u)
  BY <1>3, UnfreezeNothingKeepsInv
<1>4. CASE \E u \in Unfreezes, f \in Freezes : ArriveUnfreeze(u, f)
  BY <1>4, ArrivalsKeepInv, Kinds DEF ArriveUnfreeze, Inv, TypeOK
<1>5. CASE \E s \in Settles, x \in ExternalIds : FindSettled(s, x)
  BY <1>5, FindKeepsInv
<1>6. CASE \E l \in Links : LinkArrive(l)
  BY <1>6, LinkKeepsInv
<1>7. CASE \E m \in Messages : Handle(m)
  BY <1>7, LockKeepsInv, NoBalanceKeepsInv, RollBackKeepsInv, DebitKeepsInv,
     OutcomeKeepsInv, FreezeKeepsInv, ReadKeepsInv, SaveKeepsInv, LinkKeepsInv
     DEF Handle
<1>8. CASE \E m \in Messages : DbError(m)
  BY <1>8, ErrorKeepsInv
<1>9. CASE Crash
  BY <1>9, CrashKeepsInv
<1>10. CASE UNCHANGED vars
  BY <1>10 DEF vars, balanceVars, faultVars, Inv, TypeOK, AccountInv, MoverInv,
     DebitInv, SettleInv, LinkInv, Known
<1>11. QED
  BY <1>1, <1>2, <1>3, <1>4, <1>5, <1>6, <1>7, <1>8, <1>9, <1>10 DEF Next

\* The invariant holds in every reachable state.
THEOREM Invariant == Spec => []Inv
  BY InvInit, StepKeepsInv, PTL DEF Spec

\* Balances are never overdrawn and change only under a lock whose holder is at
\* work on the row as it is, however many handlers run, fail or die.
THEOREM BalancesAreSafe == Spec => []MoneyIsSafe
<1>1. Inv => NoOverdraft
  BY DEF Inv, AccountInv, NoOverdraft
<1>2. Inv => LocksAreLive
  BY DEF Inv, AccountInv, LocksAreLive
<1>3. Inv => MoneyIsSafe
  BY <1>1, <1>2 DEF MoneyIsSafe, Inv
<1>4. QED
  BY <1>3, Invariant, PTL

\* A sender who is answered by the row of a debit has paid, one who is answered
\* an error has not unless a query failed.
THEOREM SendersAreAnswered == Spec => []AnswersMatchMoney
<1>1. Inv => AnswersMatchMoney
  BY DEF Inv, DebitInv, AnswersMatchMoney
<1>2. QED
  BY <1>1, Invariant, PTL

\* The books balance, statements bound the money that has moved, and answers are
\* true: for any number of debits and freezes of any amounts.
THEOREM BooksAlwaysBalance == Spec => []BooksAreRight
<1>1. Inv /\ BookInv => StatementBounds
  <2> SUFFICES ASSUME Inv, BookInv, NEW a \in Opened
               PROVE  /\ TotalDebits(a) <= Deposit - balance[a].current
                      /\ Deposit - balance[a].current <= DailyDebits(a)
    BY DEF StatementBounds
  <2>1. IsFiniteSet(DebitsOf(a)) /\ DebitsOf(a) \subseteq Debits \cup Freezes
    BY FS_Subset DEF BookInv, DebitsOf, Recorded
  <2>2. MovedOn(a) \subseteq DebitsOf(a)
    BY MovedIsFinite DEF MovedOn, DebitsOf
  <2>3. IsFiniteSet(MovedOn(a)) /\ MovedOn(a) \subseteq Debits \cup Freezes
    BY <2>1, <2>2, FS_Subset
  <2>4. {d \in DebitsOf(a) : status[d] = "COMPLETED"} \subseteq MovedOn(a)
    BY DEF BookInv, EntryInv, MovedOn, DebitsOf, Recorded
  <2>5. TotalDebits(a) <= Total(MovedOn(a)) /\ Total(MovedOn(a)) <= DailyDebits(a)
    BY <2>1, <2>2, <2>3, <2>4, TotalIsMonotone DEF TotalDebits, DailyDebits
  <2>6. /\ balance[a].current = Deposit - Total(MovedOn(a))
        /\ balance[a].current \in Int /\ Deposit \in Int
    <3>1. balance[a].current = Deposit - Total(MovedOn(a))
      BY DEF BookInv, BooksBalance, MovedOn
    <3>2. balance[a].current \in Int /\ Deposit \in Int
      BY BankAssumption DEF Inv, TypeOK, Balance
    <3>3. QED
      BY <3>1, <3>2
  <2>7. Total(MovedOn(a)) \in Int
    <3>1. SumFunctionOnSet(Amount, MovedOn(a)) \in Int
      BY <2>3, SumInt, BankAssumption
    <3>2. QED
      BY <3>1 DEF Total, Hundredths
  <2>8. Deposit - balance[a].current = Total(MovedOn(a))
    BY <2>6, <2>7
  <2>9. QED
    BY <2>5, <2>8
<1>2. Inv => AnswersMatchMoney
  BY DEF Inv, DebitInv, AnswersMatchMoney
<1>3. Inv /\ BookInv => BooksAreRight
  BY <1>1, <1>2 DEF BooksAreRight, BookInv
<1>4. QED
  BY <1>3, Invariant, BooksInit, StepKeepsBooks, PTL DEF Spec

\* An overlapping message is the only way to link a number twice.
THEOREM NumbersAreLinkedOnce == Spec => []LinkedOnce
<1>1. Inv => LinkedOnce
  BY DEF Inv, LinkInv, LinkedOnce
<1>2. QED
  BY <1>1, Invariant, PTL

-----------------------------------------------------------------------------
(* The handlers implement AccountLedger.                                   *)

(***************************************************************************)
(* What the refinement needs beside the invariants: a message that has not *)
(* arrived names no account, a freeze that has names one, and a debit that *)
(* is about to be completed or failed has no outcome yet.                  *)
(***************************************************************************)
OrderInv ==
  /\ \A m \in Movers : pc[m] = "idle" => account[m] = Nobody
  /\ \A f \in Freezes : pc[f] # "idle" => account[f] # Nobody
  /\ \A d \in Debits :
       pc[d] \in {"completing", "failing"} => status[d] \in {"PENDING", "SETTLED"}

LEMMA OrderInit == Init => OrderInv
  BY Kinds DEF Init, OrderInv

\* A handler that goes on without touching the accounts; a debit is completed or
\* failed without an outcome, or the step gives it none.
LEMMA OrdersKept ==
  ASSUME Inv, OrderInv, NEW m \in Messages, NEW s, pc' = [pc EXCEPT ![m] = s],
         s # "idle", m \notin Freezes \/ pc[m] # "idle",
         UNCHANGED <<account, status>>,
         m \in Debits /\ s \in {"completing", "failing"} =>
           status[m] \in {"PENDING", "SETTLED"}
  PROVE  OrderInv'
<1>1. pc'[m] = s /\ \A x \in Messages \ {m} : pc'[x] = pc[x]
  BY DEF Inv, TypeOK
<1>2. QED
  BY <1>1, Kinds DEF OrderInv

LEMMA OrderStep == Inv /\ OrderInv /\ [Next]_vars => OrderInv'
<1> SUFFICES ASSUME Inv, OrderInv, [Next]_vars PROVE OrderInv'
  OBVIOUS
<1>1. ASSUME NEW m \in Movers, NEW a, pc[m] = "idle", m \in Freezes => a # Nobody,
             pc' = [pc EXCEPT ![m] = "locking"], account' = [account EXCEPT ![m] = a],
             \A x \in Debits \ {m} : status'[x] = status[x]
      PROVE  OrderInv'
  <2>1. /\ pc'[m] = "locking" /\ \A x \in Messages \ {m} : pc'[x] = pc[x]
        /\ account'[m] = a /\ \A x \in Movers \ {m} : account'[x] = account[x]
    BY <1>1, Kinds DEF Inv, TypeOK
  <2>2. QED
    BY <1>1, <2>1, Kinds DEF OrderInv
<1>2. ASSUME NEW d \in Debits, NEW a \in Known, InsertDebit(d, a) PROVE OrderInv'
  BY <1>1, <1>2, Kinds DEF InsertDebit, Goes, Inv, TypeOK
<1>3. ASSUME NEW f \in Freezes, NEW a \in Known, ArriveFreeze(f, a) PROVE OrderInv'
  <2>1. a # Nobody
    BY BankAssumption, Kinds DEF Inv, TypeOK, Known
  <2>2. QED
    BY <1>1, <1>3, <2>1, Kinds DEF ArriveFreeze, Goes
<1>4. ASSUME NEW u \in Unfreezes, NEW f \in Freezes, ArriveUnfreeze(u, f) PROVE OrderInv'
  BY <1>1, <1>4, Kinds DEF ArriveUnfreeze, Goes
<1>5. ASSUME NEW u \in Unfreezes, UnfreezeNothing(u) PROVE OrderInv'
  BY <1>5, OrdersKept, Kinds DEF UnfreezeNothing, Goes
<1>6. ASSUME NEW s \in Settles, NEW x \in ExternalIds, FindSettled(s, x) PROVE OrderInv'
  <2>1. PICK to : to # "idle" /\ pc' = [pc EXCEPT ![s] = to]
    BY <1>6 DEF FindSettled, Goes
  <2>2. QED
    BY <1>6, <2>1, OrdersKept, Kinds DEF FindSettled
<1>7. ASSUME NEW l \in Links, LinkArrive(l) PROVE OrderInv'
  BY <1>7, OrdersKept, Kinds DEF LinkArrive, Goes
<1>8. ASSUME NEW m \in Movers, LockBalance(m) \/ NoBalance(m) \/ RollBack(m)
      PROVE  OrderInv'
  <2>1. PICK to \in {"changing", Thrown(m)} : pc' = [pc EXCEPT ![m] = to]
    BY <1>8 DEF LockBalance, NoBalance, RollBack, Goes
  <2>2. /\ pc[m] \in {"locking", "changing"} /\ UNCHANGED <<account, status>>
        /\ to \in {"changing", "failing", "errored"}
    BY <1>8, <2>1 DEF LockBalance, NoBalance, RollBack, Goes, balanceVars, Thrown
  <2>3. m \in Debits => status[m] \in {"PENDING", "SETTLED"}
    BY <2>2 DEF Inv, DebitInv
  <2>4. QED
    BY <2>1, <2>2, <2>3, OrdersKept, Kinds
<1>9. ASSUME NEW d \in Debits, Debit(d) PROVE OrderInv'
  <2>1. pc[d] = "changing" /\ pc' = [pc EXCEPT ![d] = "completing"]
    BY <1>9 DEF Debit, Goes
  <2>2. status[d] \in {"PENDING", "SETTLED"}
    BY <2>1 DEF Inv, DebitInv
  <2>3. QED
    BY <1>9, <2>1, <2>2, OrdersKept, Kinds DEF Debit, Commit
<1>10. ASSUME NEW f \in Freezes, Freeze(f) PROVE OrderInv'
  BY <1>10, OrdersKept, Kinds DEF Freeze, Commit, Goes
<1>11. ASSUME NEW d \in Debits, CompleteDebit(d) \/ FailDebit(d) PROVE OrderInv'
  <2>1. PICK to \in {"done", "errored"} : pc' = [pc EXCEPT ![d] = to]
    BY <1>11 DEF CompleteDebit, FailDebit, Goes
  <2>2. pc'[d] = to /\ \A x \in Messages \ {d} : pc'[x] = pc[x]
    BY <2>1, Kinds DEF Inv, TypeOK
  <2>3. /\ UNCHANGED account
        /\ \A x \in Debits \ {d} : status'[x] = status[x]
    BY <1>11 DEF CompleteDebit, FailDebit, Inv, TypeOK
  <2>4. QED
    BY <2>2, <2>3, Kinds DEF OrderInv
<1>12. ASSUME NEW s \in Settles, ReadSettled(s) PROVE OrderInv'
  BY <1>12, OrdersKept, Kinds DEF ReadSettled, Goes
<1>13. ASSUME NEW s \in Settles, SaveSettled(s) PROVE OrderInv'
  <2>1. pc'[s] = "done" /\ \A x \in Messages \ {s} : pc'[x] = pc[x]
    BY <1>13, Kinds DEF SaveSettled, Goes, Inv, TypeOK
  <2>2. \A d \in Debits : status'[d] = status[d] \/ status'[d] = "SETTLED"
    BY <1>13 DEF SaveSettled, Inv, TypeOK
  <2>3. QED
    BY <1>13, <2>1, <2>2, Kinds DEF SaveSettled, OrderInv
<1>14. ASSUME NEW l \in Links, LinkCheck(l) \/ LinkInsert(l) \/ LinkOpen(l)
       PROVE  OrderInv'
  <2>1. PICK to \in {"inserting", "errored", "opening"} : pc' = [pc EXCEPT ![l] = to]
    BY <1>14 DEF LinkCheck, LinkInsert, LinkOpen, Goes
  <2>2. UNCHANGED <<account, status>>
    BY <1>14 DEF LinkCheck, LinkInsert, LinkOpen
  <2>3. QED
    BY <2>1, <2>2, OrdersKept, Kinds
<1>15. ASSUME NEW m \in Messages, DbError(m) PROVE OrderInv'
  <2>1. pc' = [pc EXCEPT ![m] = AfterError(m)] /\ UNCHANGED <<account, status>>
    BY <1>15 DEF DbError
  <2>2. pc[m] # "idle"
    BY <1>15 DEF DbError
  <2>3. AfterError(m) # "idle" /\ AfterError(m) # "completing"
    BY DEF AfterError
  <2>4. ASSUME m \in Debits, AfterError(m) = "failing"
        PROVE  status[m] \in {"PENDING", "SETTLED"}
    BY <2>4 DEF AfterError, Inv, DebitInv, OrderInv
  <2>5. QED
    BY <2>1, <2>2, <2>3, <2>4, OrdersKept
<1>16. CASE Crash
  BY <1>16, Kinds DEF Crash, OrderInv, Ends
<1>17. CASE UNCHANGED vars
  BY <1>17 DEF vars, balanceVars, OrderInv
<1>18. QED
  BY <1>2, <1>3, <1>4, <1>5, <1>6, <1>7, <1>8, <1>9, <1>10, <1>11, <1>12, <1>13,
     <1>14, <1>15, <1>16, <1>17 DEF Next, Handle

\* The initial states are those of the ledger.
LEMMA LedgerInit == Init => Ledger!Init
  BY DEF Init, Ledger!Init, Ledger!Orders, Movers

\* What the ledger sees of the state.
Available == [a \in Opened |-> balance[a].available]
Current == [a \in Opened |-> balance[a].current]
Taken == moved \cup frozen
Shown == <<account, status, Taken, Available, Current>>

\* The commit of an order is where it takes its amount.
LEMMA CommitTakes ==
  ASSUME Inv, BookInv, NEW m \in Debits \cup Freezes, pc[m] = "changing",
         NEW new, Commit(m, new),
         new.available = copy[m].available - Hundredths(Amount[m]),
         new.current = IF m \in Debits THEN copy[m].current - Hundredths(Amount[m])
                       ELSE copy[m].current,
         Taken' = Taken \cup {m}
  PROVE  Ledger!Take(m)
<1>1. PICK a : a = account[m]
  OBVIOUS
<1>2. a \in Opened /\ copy[m] = balance[a] /\ Enough(m)
  BY <1>1, CopyIsBalance DEF Commit
<1>3. /\ balance' = [balance EXCEPT ![a] = new]
      /\ UNCHANGED <<account, status>>
  BY <1>1 DEF Commit
<1>4. m \notin Taken /\ (m \in Debits => status[m] \in {"PENDING", "SETTLED"})
  BY Kinds DEF Inv, TypeOK, DebitInv, BookInv, EntryInv, Taken
<1>5. Price[m] = Hundredths(Amount[m]) /\ Available[a] >= Price[m]
  BY <1>2 DEF Price, Enough, Available
<1>6. Available' = [Available EXCEPT ![a] = Available[a] - Price[m]]
  BY <1>2, <1>3, <1>5 DEF Available, Inv, TypeOK
<1>7. Current' = IF m \in Debits THEN [Current EXCEPT ![a] = Current[a] - Price[m]]
                 ELSE Current
  BY <1>2, <1>3, <1>5 DEF Current, Inv, TypeOK
<1>8. QED
  BY <1>1, <1>2, <1>3, <1>4, <1>5, <1>6, <1>7
     DEF Ledger!Take, Ledger!Open, Taken, Available, Current

\* A handler's step is a step of the ledger or nothing that the ledger sees.
LEMMA HandleImplements ==
  ASSUME Inv, BookInv, OrderInv, NEW m \in Messages, Handle(m)
  PROVE  Ledger!Next \/ UNCHANGED Shown
<1>1. CASE m \in Debits /\ Debit(m)
  <2> DEFINE new == [available |-> copy[m].available - Hundredths(Amount[m]),
                     current   |-> copy[m].current - Hundredths(Amount[m]),
                     reserved  |-> copy[m].reserved]
  <2>1. pc[m] = "changing" /\ Commit(m, new) /\ Taken' = Taken \cup {m}
    BY <1>1 DEF Debit, Goes, Taken
  <2>2. Ledger!Take(m)
    BY <1>1, <2>1, CommitTakes
  <2>3. QED
    BY <1>1, <2>2 DEF Ledger!Next
<1>2. CASE m \in Freezes /\ Freeze(m)
  <2> DEFINE new == [available |-> copy[m].available - Hundredths(Amount[m]),
                     current   |-> copy[m].current,
                     reserved  |-> Appended(copy[m].reserved, Amount[m])]
  <2>1. pc[m] = "changing" /\ Commit(m, new) /\ Taken' = Taken \cup {m}
    BY <1>2 DEF Freeze, Goes, Taken
  <2>2. m \notin Debits
    BY <1>2, Kinds
  <2>3. Ledger!Take(m)
    BY <1>2, <2>1, <2>2, CommitTakes
  <2>4. QED
    BY <1>2, <2>3 DEF Ledger!Next
<1>3. CASE LockBalance(m) \/ NoBalance(m) \/ RollBack(m)
  BY <1>3 DEF LockBalance, NoBalance, RollBack, balanceVars, Shown, Taken, Available,
     Current
<1>4. CASE m \in Debits /\ CompleteDebit(m)
  <2>1. m \in Taken /\ status[m] \in {"PENDING", "SETTLED"}
    BY <1>4 DEF CompleteDebit, Goes, Inv, DebitInv, OrderInv, Taken
  <2>2. Ledger!Complete(m)
    BY <1>4, <2>1 DEF CompleteDebit, balanceVars, Ledger!Complete, Ledger!Open, Taken
  <2>3. QED
    BY <1>4, <2>2 DEF Ledger!Next
<1>5. CASE m \in Debits /\ FailDebit(m)
  <2>1. status[m] \in {"PENDING", "SETTLED"}
    BY <1>5 DEF FailDebit, Goes, OrderInv
  <2>2. Ledger!Fail(m)
    BY <1>5, <2>1 DEF FailDebit, balanceVars, Ledger!Fail, Ledger!Open
  <2>3. QED
    BY <1>5, <2>2 DEF Ledger!Next
<1>6. CASE m \in Settles /\ ReadSettled(m)
  BY <1>6 DEF ReadSettled, balanceVars, Shown, Taken, Available, Current
<1>7. CASE m \in Settles /\ SaveSettled(m)
  <2>1. subject[m] \in Debits /\ status[subject[m]] # "none"
    BY <1>7 DEF SaveSettled, Goes, Inv, SettleInv
  <2>2. Ledger!Settle(subject[m])
    BY <1>7, <2>1 DEF SaveSettled, balanceVars, Ledger!Settle
  <2>3. QED
    BY <2>1, <2>2 DEF Ledger!Next
<1>8. CASE LinkCheck(m) \/ LinkInsert(m) \/ LinkOpen(m)
  BY <1>8 DEF LinkCheck, LinkInsert, LinkOpen, balanceVars, Shown, Taken, Available,
     Current
<1>9. QED
  BY <1>1, <1>2, <1>3, <1>4, <1>5, <1>6, <1>7, <1>8 DEF Handle

\* Every step of the bank is a step of the ledger or none.
LEMMA LedgerStep ==
  Inv /\ BookInv /\ OrderInv /\ [Next]_vars => [Ledger!Next]_Ledger!vars
<1> SUFFICES ASSUME Inv, BookInv, OrderInv, [Next]_vars
             PROVE  Ledger!Next \/ UNCHANGED Shown
  BY DEF Ledger!vars, Shown, Taken, Available, Current
<1>1. Known \subseteq AccountIds
  BY DEF Inv, TypeOK, Known, AccountIds
<1>2. ASSUME NEW m \in Movers, NEW a \in AccountIds, pc[m] = "idle",
             account' = [account EXCEPT ![m] = a], UNCHANGED balanceVars,
             status' = IF m \in Debits THEN [status EXCEPT ![m] = "PENDING"] ELSE status
      PROVE  Ledger!Next
  <2>1. account[m] = Nobody
    BY <1>2 DEF OrderInv
  <2>2. Ledger!Order(m)
    BY <1>2, <2>1 DEF Ledger!Order, balanceVars
  <2>3. QED
    BY <2>2 DEF Ledger!Next, Ledger!Orders, Movers
<1>3. ASSUME NEW d \in Debits, NEW a \in Known, InsertDebit(d, a) PROVE Ledger!Next
  BY <1>1, <1>2, <1>3, Kinds DEF InsertDebit, Goes
<1>4. ASSUME NEW f \in Freezes, NEW a \in Known, ArriveFreeze(f, a) PROVE Ledger!Next
  BY <1>1, <1>2, <1>4, Kinds DEF ArriveFreeze, Goes
<1>5. ASSUME NEW u \in Unfreezes, NEW f \in Freezes, ArriveUnfreeze(u, f)
      PROVE  Ledger!Next
  <2>1. pc[f] = "done" /\ account[f] \in AccountIds \cup {Nobody}
    BY <1>5, Kinds DEF ArriveUnfreeze, BookInv, EntryInv, Inv, TypeOK
  <2>2. QED
    BY <1>2, <1>5, <2>1, Kinds DEF ArriveUnfreeze, Goes, OrderInv
<1>6. CASE \E u \in Unfreezes : UnfreezeNothing(u)
  BY <1>6 DEF UnfreezeNothing, balanceVars, Shown, Taken, Available, Current
<1>7. CASE \E s \in Settles, x \in ExternalIds : FindSettled(s, x)
  BY <1>7 DEF FindSettled, balanceVars, Shown, Taken, Available, Current
<1>8. CASE \E l \in Links : LinkArrive(l)
  BY <1>8 DEF LinkArrive, balanceVars, Shown, Taken, Available, Current
<1>9. CASE \E m \in Messages : Handle(m)
  BY <1>9, HandleImplements
<1>10. CASE \E m \in Messages : DbError(m)
  BY <1>10 DEF DbError, Shown, Taken, Available, Current
<1>11. CASE Crash \/ UNCHANGED vars
  BY <1>11 DEF Crash, vars, balanceVars, Shown, Taken, Available, Current
<1>12. QED
  BY <1>3, <1>4, <1>5, <1>6, <1>7, <1>8, <1>9, <1>10, <1>11 DEF Next

\* Debits and freezes take their amounts as if at once, whatever runs between
\* the lock, the check and the commit, for any messages, accounts and amounts.
THEOREM LedgerImplemented == Spec => ImplementsLedger
<1>1. Spec => [](Inv /\ BookInv /\ OrderInv)
  BY InvInit, StepKeepsInv, BooksInit, StepKeepsBooks, OrderInit, OrderStep, PTL
     DEF Spec
<1>2. QED
  BY <1>1, LedgerInit, LedgerStep, PTL DEF Spec, ImplementsLedger, Ledger!Spec

=============================================================================

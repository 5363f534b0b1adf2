------------------------- MODULE BankTransfers_proofs -------------------------
(***************************************************************************)
(* Proofs about BankTransfers, for any messages, accounts and requests,    *)
(* and any number of failing queries and crashes.                          *)
(***************************************************************************)
EXTENDS BankTransfers, SumTheorems

(***************************************************************************)
(* The inductive invariant. Where a handler stands says what its row says, *)
(* since no other handler knows the row; the steps after COMPLETED are the *)
(* notifications and the answer. An account row was looked for and not     *)
(* found before it was inserted, and is never given another owner.         *)
(***************************************************************************)

Unsent == {"idle", "looking", "finding", "creating"}
After == {"notifying", "notifyingAgain", "completed", "lost"}

TransferInv(m) ==
  /\ step[m] \in Unsent => status[m] = "none"
  /\ step[m] \in {"reading", "starting"} => status[m] = "PENDING"
  /\ step[m] \in {"completing", "failing", "marking", "markingSave"} =>
       status[m] \in {"PENDING", "PROCESSING"}
  /\ step[m] \in {"notifying", "notifyingAgain", "completed"} =>
       status[m] = "COMPLETED" /\ completedAt[m]
  /\ step[m] = "failed" => status[m] = "FAILED"
  /\ status[m] = "COMPLETED" => step[m] \in After
  /\ notified[m] > 0 => status[m] = "COMPLETED"
  /\ step[m] = "notifying" => notified[m] = 0
  /\ step[m] = "notifyingAgain" => m \in Receives /\ notified[m] <= 1
  /\ m \in Credits => notified[m] <= 1

AccountInv(a) ==
  /\ adder[a].pc \in {"idle", "checking", "inserting"} => account[a] = "none"
  /\ adder[a].pc = "checking" => earlier[a] \subseteq Equal(adder[a].user, adder[a].acc)
  /\ adder[a].pc = "inserting" \/ account[a] # "none" => earlier[a] = {}
  /\ adder[a].pc \in {"checking", "inserting"} \/ account[a] # "none" =>
       Validates(adder[a].acc)
  /\ account[a] = "VERIFIED" =>
       \E k \in Verifies :
         /\ verifier[k].pc # "idle"
         /\ verifier[k].row = a /\ verifier[k].user = adder[a].user

VerifierInv(k) ==
  verifier[k].pc \in {"owned", "saving"} =>
    /\ verifier[k].row \in Adds /\ account[verifier[k].row] # "none"
    /\ verifier[k].user = adder[verifier[k].row].user

Inv ==
  /\ TypeOK
  /\ \A m \in Messages : TransferInv(m)
  /\ \A a \in Adds : AccountInv(a)
  /\ \A k \in Verifies : VerifierInv(k)

\* The initial states have the invariant.
LEMMA InvInit == Init => Inv
<1> SUFFICES ASSUME Init PROVE Inv
  OBVIOUS
<1>1. TypeOK
  <2>1. adder \in [Adds -> [pc : {"idle", "checking", "inserting", "ended"},
                            user : Users \cup {Nobody}, acc : Accounts \cup {Nobody}]]
    BY DEF Init
  <2>2. verifier \in [Verifies -> [pc : {"idle", "owned", "saving", "ended"},
                                   row : Adds \cup {Nobody}, user : Users \cup {Nobody}]]
    BY DEF Init
  <2>3. QED
    BY <2>1, <2>2, BankAssumption DEF Init, TypeOK
<1>2. \A m \in Messages : TransferInv(m)
  BY DEF Init, TransferInv, Unsent
<1>3. \A a \in Adds : AccountInv(a)
  BY DEF Init, AccountInv
<1>4. \A k \in Verifies : VerifierInv(k)
  BY DEF Init, VerifierInv
<1>5. QED
  BY <1>1, <1>2, <1>3, <1>4 DEF Inv

-----------------------------------------------------------------------------
(* Transfers                                                               *)

\* The step of a message changes the row of its own transfer only.
LEMMA TransferStep ==
  ASSUME Inv, NEW m \in Messages, UNCHANGED accountVars, TypeOK',
         \A n \in Messages \ {m} :
           /\ step'[n] = step[n] /\ status'[n] = status[n]
           /\ completedAt'[n] = completedAt[n] /\ notified'[n] = notified[n],
         TransferInv(m)'
  PROVE  Inv'
<1>1. ASSUME NEW n \in Messages PROVE TransferInv(n)'
  BY DEF Inv, TransferInv
<1>2. \A a \in Adds : AccountInv(a)'
  BY DEF Inv, AccountInv, accountVars, Equal, Rows
<1>3. \A k \in Verifies : VerifierInv(k)'
  BY DEF Inv, VerifierInv, accountVars
<1>4. QED
  BY <1>1, <1>2, <1>3 DEF Inv

\* A message arrives and looks the account up.
LEMMA LookKeepsInv ==
  ASSUME Inv, NEW m \in Messages,
         LookAccount(m) \/ FindAccount(m) \/ \E a \in Adds : Arrive(m, a)
  PROVE  Inv'
<1>1. TypeOK'
  BY DEF LookAccount, FindAccount, Arrive, NotFound, Goes, Inv, TypeOK, Replies,
     accountVars, faultVars
<1>2. TransferInv(m)'
  BY DEF LookAccount, FindAccount, Arrive, NotFound, Goes, Inv, TypeOK,
     TransferInv, Unsent, After
<1>3. QED
  BY <1>1, <1>2, TransferStep
     DEF LookAccount, FindAccount, Arrive, Goes, Inv, TypeOK

\* The steps of processTransfer.
LEMMA ProcessKeepsInv ==
  ASSUME Inv, NEW m \in Messages,
         CreateTransfer(m) \/ ReadTransfer(m) \/ StartProcessing(m)
           \/ CompleteTransfer(m)
  PROVE  Inv'
<1>1. TypeOK'
  BY DEF CreateTransfer, ReadTransfer, StartProcessing, CompleteTransfer,
     SaveTransfer, Goes, Inv, TypeOK, TransferStatus, accountVars, faultVars
<1>2. TransferInv(m)'
  BY DEF CreateTransfer, ReadTransfer, StartProcessing, CompleteTransfer,
     SaveTransfer, Goes, Inv, TypeOK, TransferInv, Unsent, After
<1>3. QED
  BY <1>1, <1>2, TransferStep
     DEF CreateTransfer, ReadTransfer, StartProcessing, CompleteTransfer,
     SaveTransfer, Goes, Inv, TypeOK

\* Notifications, after which nothing is left to fail.
LEMMA NotifyKeepsInv ==
  ASSUME Inv, NEW m \in Messages, Notify(m)
  PROVE  Inv'
<1>1. m \in Receives \/ m \in Credits
  BY DEF Messages
<1>2. TransferInv(m) /\ notified[m] \in 0..2
  BY DEF Inv, TypeOK
<1>3. notified[m] + 1 \in 0..2 /\ (m \in Credits => notified[m] = 0)
      /\ (step[m] = "notifying" => notified[m] + 1 <= 1)
  BY <1>1, <1>2, BankAssumption DEF Notify, Goes, TransferInv
<1>4. TypeOK'
  BY <1>3 DEF Notify, Goes, Inv, TypeOK, Replies, accountVars, faultVars
<1>5. TransferInv(m)'
  BY <1>1, <1>2, <1>3, BankAssumption
     DEF Notify, Goes, Inv, TypeOK, TransferInv, Unsent, After
<1>6. QED
  BY <1>4, <1>5, TransferStep DEF Notify, Goes, Inv, TypeOK

\* The catch blocks.
LEMMA FailKeepsInv ==
  ASSUME Inv, NEW m \in Messages,
         FailTransfer(m) \/ MarkRead(m) \/ MarkFailed(m)
  PROVE  Inv'
<1>1. TypeOK'
  BY DEF FailTransfer, MarkRead, MarkFailed, SaveTransfer, Goes, Inv, TypeOK,
     TransferStatus, Replies, accountVars, faultVars
<1>2. TransferInv(m)'
  BY DEF FailTransfer, MarkRead, MarkFailed, SaveTransfer, Goes, Inv, TypeOK,
     TransferInv, Unsent, After
<1>3. QED
  BY <1>1, <1>2, TransferStep
     DEF FailTransfer, MarkRead, MarkFailed, SaveTransfer, Goes, Inv, TypeOK

\* A query that fails leads to a catch block, unless the transfer is completed.
LEMMA TransferErrorKeepsInv ==
  ASSUME Inv, NEW m \in Messages, TransferError(m)
  PROVE  Inv'
<1>1. PICK s : s = AfterError(m)
  OBVIOUS
<1>2. /\ step' = [step EXCEPT ![m] = s] /\ dbErrors' = dbErrors + 1
      /\ dbErrors < MaxDbErrors /\ step[m] # "idle" /\ ~Ended(m)
      /\ UNCHANGED <<status, completedAt, target, notified, accountVars, crashes>>
      /\ stamped' = [stamped EXCEPT ![m] = @ \/ step[m] = "completing"]
  BY <1>1 DEF TransferError
<1>3. /\ s \in {"failing", "marking", "notifyingAgain"} \cup Replies
      /\ s = "failing" => step[m] \in {"starting", "completing"}
      /\ s = "notifyingAgain" => step[m] = "notifying" /\ m \in Receives
      /\ s = "completed" => step[m] \in {"notifying", "notifyingAgain"}
      /\ s = "marking" => step[m] \in {"reading", "failing"}
      /\ s # "failed"
      /\ step[m] \in {"notifying", "notifyingAgain"} =>
           s \in {"notifyingAgain", "completed"}
  BY <1>1 DEF AfterError, NotFound, Replies
<1>4. TypeOK'
  <2>1. dbErrors' \in 0..MaxDbErrors
    BY <1>2, BankAssumption DEF Inv, TypeOK
  <2>2. stamped' \in [Messages -> BOOLEAN]
    BY <1>2 DEF Inv, TypeOK
  <2>3. QED
    BY <1>2, <1>3, <2>1, <2>2 DEF Inv, TypeOK, accountVars, Replies
<1>5. TransferInv(m)'
  BY <1>2, <1>3 DEF Inv, TypeOK, TransferInv, Unsent, After, Ended, Replies
<1>6. QED
  BY <1>2, <1>4, <1>5, TransferStep DEF Inv, TypeOK

-----------------------------------------------------------------------------
(* Destination accounts                                                    *)

AdderRec == [pc : {"idle", "checking", "inserting", "ended"},
             user : Users \cup {Nobody}, acc : Accounts \cup {Nobody}]
VerifierRec == [pc : {"idle", "owned", "saving", "ended"},
                row : Adds \cup {Nobody}, user : Users \cup {Nobody}]

\* A step of a request that adds an account moves its program counter only.
LEMMA AdderMoves ==
  ASSUME adder \in [Adds -> AdderRec], NEW a \in Adds, NEW from,
         NEW to \in {"idle", "checking", "inserting", "ended"}, Adder(a, from, to)
  PROVE  /\ adder' \in [Adds -> AdderRec]
         /\ adder[a].pc = from /\ adder'[a].pc = to
         /\ \A b \in Adds : adder'[b].user = adder[b].user /\ adder'[b].acc = adder[b].acc
         /\ \A b \in Adds \ {a} : adder'[b] = adder[b]
<1> DEFINE new == [adder[a] EXCEPT !.pc = to]
<1>1. adder[a] \in AdderRec
  OBVIOUS
<1>2. /\ new \in AdderRec /\ new.pc = to /\ new.user = adder[a].user
      /\ new.acc = adder[a].acc
  BY <1>1 DEF AdderRec
<1>3. adder[a].pc = from /\ adder' = [adder EXCEPT ![a] = new]
  BY DEF Adder
<1> HIDE DEF new
<1>4. QED
  BY <1>2, <1>3

\* So does that of a request that verifies one.
LEMMA VerifierMoves ==
  ASSUME verifier \in [Verifies -> VerifierRec], NEW k \in Verifies, NEW from,
         NEW to \in {"idle", "owned", "saving", "ended"}, Verifier(k, from, to)
  PROVE  /\ verifier' \in [Verifies -> VerifierRec]
         /\ verifier[k].pc = from /\ verifier'[k].pc = to
         /\ \A x \in Verifies :
              verifier'[x].row = verifier[x].row /\ verifier'[x].user = verifier[x].user
         /\ \A x \in Verifies \ {k} : verifier'[x] = verifier[x]
<1> DEFINE new == [verifier[k] EXCEPT !.pc = to]
<1>1. verifier[k] \in VerifierRec
  OBVIOUS
<1>2. /\ new \in VerifierRec /\ new.pc = to /\ new.user = verifier[k].user
      /\ new.row = verifier[k].row
  BY <1>1 DEF VerifierRec
<1>3. verifier[k].pc = from /\ verifier' = [verifier EXCEPT ![k] = new]
  BY DEF Verifier
<1> HIDE DEF new
<1>4. QED
  BY <1>2, <1>3

\* While rows keep their owners and numbers, those that are equal to an account
\* stay so.
LEMMA EqualGrows ==
  ASSUME NEW a \in Adds,
         \A b \in Adds : account[b] # "none" =>
           /\ account'[b] # "none"
           /\ adder'[b].user = adder[b].user /\ adder'[b].acc = adder[b].acc,
         adder'[a].user = adder[a].user, adder'[a].acc = adder[a].acc
  PROVE  Equal(adder[a].user, adder[a].acc) \subseteq Equal(adder[a].user, adder[a].acc)'
BY DEF Equal, Rows

\* The requests that verify rows do not notice steps that keep the owners.
LEMMA VerifiersKept ==
  ASSUME Inv, UNCHANGED verifier,
         \A b \in Adds : account[b] # "none" =>
           account'[b] # "none" /\ adder'[b].user = adder[b].user
  PROVE  \A k \in Verifies : VerifierInv(k)'
BY DEF Inv, VerifierInv

\* Nor do the other requests that add one, while the verifiers keep rows and users.
LEMMA AddersKept ==
  ASSUME Inv, NEW b \in Adds, adder'[b] = adder[b], account'[b] = account[b],
         earlier'[b] = earlier[b],
         \A c \in Adds : account[c] # "none" =>
           /\ account'[c] # "none"
           /\ adder'[c].user = adder[c].user /\ adder'[c].acc = adder[c].acc,
         \A k \in Verifies : verifier[k].pc # "idle" =>
           /\ verifier'[k].pc # "idle"
           /\ verifier'[k].row = verifier[k].row /\ verifier'[k].user = verifier[k].user
  PROVE  AccountInv(b)'
<1>1. AccountInv(b)
  BY DEF Inv
<1>2. Equal(adder[b].user, adder[b].acc) \subseteq Equal(adder[b].user, adder[b].acc)'
  BY EqualGrows
<1>3. adder[b].pc = "checking" => earlier'[b] \subseteq Equal(adder[b].user, adder[b].acc)'
  BY <1>1, <1>2 DEF AccountInv
<1>4. account'[b] = "VERIFIED" =>
        \E k \in Verifies :
          /\ verifier'[k].pc # "idle"
          /\ verifier'[k].row = b /\ verifier'[k].user = adder'[b].user
  BY <1>1 DEF AccountInv
<1>5. QED
  BY <1>1, <1>3, <1>4 DEF AccountInv, Validates

\* Transfers do not know of these requests.
LEMMA TransfersKept ==
  ASSUME Inv, UNCHANGED transferVars
  PROVE  \A m \in Messages : TransferInv(m)'
BY DEF Inv, TransferInv, transferVars

\* A request to add an account arrives.
LEMMA ArriveKeepsInv ==
  ASSUME Inv, NEW a \in Adds, NEW user \in Users, NEW acc \in Accounts,
         AddArrive(a, user, acc)
  PROVE  Inv'
<1> DEFINE new == [pc |-> IF Validates(acc) THEN "checking" ELSE "ended",
                   user |-> user, acc |-> acc]
<1>1. /\ adder' = [adder EXCEPT ![a] = new] /\ adder[a].pc = "idle"
      /\ earlier' = [earlier EXCEPT ![a] = Equal(user, acc)]
      /\ UNCHANGED <<account, verifier, transferVars, faultVars>>
  BY DEF AddArrive
<1>2. /\ new \in AdderRec /\ new.user = user /\ new.acc = acc
      /\ new.pc = IF Validates(acc) THEN "checking" ELSE "ended"
  BY DEF AdderRec
<1> HIDE DEF new
<1>3. adder \in [Adds -> AdderRec] /\ account[a] = "none"
  BY <1>1 DEF Inv, TypeOK, AdderRec, AccountInv
<1>4. /\ adder' \in [Adds -> AdderRec] /\ adder'[a] = new
      /\ \A b \in Adds \ {a} : adder'[b] = adder[b]
  BY <1>1, <1>2, <1>3
<1>5. Equal(user, acc) \subseteq Adds
  BY DEF Equal, Rows
<1>6. TypeOK'
  BY <1>1, <1>4, <1>5 DEF Inv, TypeOK, AdderRec, transferVars, faultVars
<1>7. \A b \in Adds : account[b] # "none" =>
        account'[b] # "none" /\ adder'[b] = adder[b]
  BY <1>1, <1>3, <1>4
<1>8. Equal(user, acc) = Equal(user, acc)'
  BY <1>1, <1>7 DEF Equal, Rows
<1>9. AccountInv(a)'
  <2>1. earlier'[a] = Equal(user, acc)
    BY <1>1 DEF Inv, TypeOK
  <2>2. adder'[a].pc = "checking" => Validates(acc)
    BY <1>2, <1>4
  <2>3. /\ adder'[a].user = user /\ adder'[a].acc = acc /\ account'[a] = "none"
        /\ adder'[a].pc # "inserting"
    BY <1>1, <1>2, <1>3, <1>4
  <2>4. earlier'[a] \subseteq Equal(adder[a].user, adder[a].acc)'
    BY <1>8, <2>1, <2>3
  <2>5. QED
    BY <1>2, <1>4, <2>2, <2>3, <2>4 DEF AccountInv, Validates
<1>10. \A b \in Adds \ {a} : AccountInv(b)'
  BY <1>1, <1>4, <1>7, AddersKept DEF Inv, TypeOK
<1>11. \A k \in Verifies : VerifierInv(k)'
  BY <1>1, <1>7, VerifiersKept
<1>12. \A m \in Messages : TransferInv(m)'
  BY <1>1, TransfersKept
<1>13. QED
  BY <1>6, <1>9, <1>10, <1>11, <1>12 DEF Inv

\* Looking for an equal row, inserting one, or failing.
LEMMA AdderKeepsInv ==
  ASSUME Inv, NEW a \in Adds, NEW from \in {"checking", "inserting"},
         NEW to \in {"inserting", "ended"}, Adder(a, from, to),
         NEW status1 \in {"none", "PENDING_VERIFICATION"},
         account' = [account EXCEPT ![a] = status1],
         status1 = "none" \/ from = "inserting",
         to = "inserting" =>
           /\ from = "checking" /\ status1 = "none"
           /\ Equal(adder[a].user, adder[a].acc) = {},
         UNCHANGED <<earlier, verifier, transferVars, crashes>>,
         dbErrors' \in 0..MaxDbErrors
  PROVE  Inv'
<1>1. adder \in [Adds -> AdderRec] /\ AccountInv(a)
  BY DEF Inv, TypeOK, AdderRec
<1>2. /\ adder' \in [Adds -> AdderRec]
      /\ adder[a].pc = from /\ adder'[a].pc = to
      /\ \A b \in Adds : adder'[b].user = adder[b].user /\ adder'[b].acc = adder[b].acc
      /\ \A b \in Adds \ {a} : adder'[b] = adder[b]
  BY <1>1, AdderMoves
<1>3. account[a] = "none" /\ account'[a] = status1
      /\ \A b \in Adds \ {a} : account'[b] = account[b]
  BY <1>1, <1>2 DEF Inv, TypeOK, AccountInv
<1>4. TypeOK'
  BY <1>2, <1>3 DEF Inv, TypeOK, AdderRec, AccountStatus, transferVars
<1>5. \A b \in Adds : account[b] # "none" => account'[b] # "none"
  BY <1>3
<1>6. AccountInv(a)'
  BY <1>1, <1>2, <1>3 DEF AccountInv, Validates
<1>7. \A b \in Adds \ {a} : AccountInv(b)'
  BY <1>2, <1>3, <1>5, AddersKept
<1>8. \A k \in Verifies : VerifierInv(k)'
  BY <1>2, <1>5, VerifiersKept
<1>9. \A m \in Messages : TransferInv(m)'
  BY TransfersKept
<1>10. QED
  BY <1>4, <1>6, <1>7, <1>8, <1>9 DEF Inv

\* A user asks for a row to be verified.
LEMMA VerifyCheckKeepsInv ==
  ASSUME Inv, NEW k \in Verifies, NEW user \in Users, NEW a \in Adds,
         VerifyCheck(k, user, a)
  PROVE  Inv'
<1> DEFINE new == [pc |-> IF account[a] # "none" /\ adder[a].user = user
                          THEN "owned" ELSE "ended",
                   row |-> a, user |-> user]
<1>1. /\ verifier' = [verifier EXCEPT ![k] = new] /\ verifier[k].pc = "idle"
      /\ UNCHANGED <<account, adder, earlier, transferVars, faultVars>>
  BY DEF VerifyCheck
<1>2. /\ new \in VerifierRec /\ new.row = a /\ new.user = user
      /\ new.pc \in {"owned", "saving"} => account[a] # "none" /\ adder[a].user = user
  BY DEF VerifierRec
<1> HIDE DEF new
<1>3. verifier \in [Verifies -> VerifierRec]
  BY DEF Inv, TypeOK, VerifierRec
<1>4. /\ verifier' \in [Verifies -> VerifierRec] /\ verifier'[k] = new
      /\ \A x \in Verifies \ {k} : verifier'[x] = verifier[x]
  BY <1>1, <1>2, <1>3
<1>5. TypeOK'
  BY <1>1, <1>4 DEF Inv, TypeOK, VerifierRec, transferVars, faultVars
<1>6. \A b \in Adds : AccountInv(b)'
  BY <1>1, <1>4, AddersKept
<1>7. \A x \in Verifies \ {k} : VerifierInv(x)'
  BY <1>1, <1>4 DEF Inv, VerifierInv
<1>8. VerifierInv(k)'
  BY <1>1, <1>2, <1>4 DEF VerifierInv
<1>9. \A m \in Messages : TransferInv(m)'
  BY <1>1, TransfersKept
<1>10. QED
  BY <1>5, <1>6, <1>7, <1>8, <1>9 DEF Inv

\* The owner's request goes on, saves the row, or fails.
LEMMA VerifierKeepsInv ==
  ASSUME Inv, NEW k \in Verifies, NEW from \in {"owned", "saving"},
         NEW to \in {"saving", "ended"}, Verifier(k, from, to),
         \/ UNCHANGED account
         \/ account' = [account EXCEPT ![verifier[k].row] = "VERIFIED"],
         UNCHANGED <<adder, earlier, transferVars, crashes>>,
         dbErrors' \in 0..MaxDbErrors
  PROVE  Inv'
<1>1. verifier \in [Verifies -> VerifierRec] /\ VerifierInv(k)
  BY DEF Inv, TypeOK, VerifierRec
<1>2. /\ verifier' \in [Verifies -> VerifierRec]
      /\ verifier[k].pc = from /\ verifier'[k].pc = to
      /\ \A x \in Verifies :
           verifier'[x].row = verifier[x].row /\ verifier'[x].user = verifier[x].user
      /\ \A x \in Verifies \ {k} : verifier'[x] = verifier[x]
  BY <1>1, VerifierMoves
<1>3. PICK a : a = verifier[k].row
  OBVIOUS
<1>4. /\ a \in Adds /\ account[a] # "none" /\ verifier[k].user = adder[a].user
      /\ UNCHANGED account \/ account' = [account EXCEPT ![a] = "VERIFIED"]
  BY <1>1, <1>2, <1>3 DEF VerifierInv
<1>5. /\ \A b \in Adds \ {a} : account'[b] = account[b]
      /\ account'[a] \in {account[a], "VERIFIED"}
  BY <1>4 DEF Inv, TypeOK
<1>6. TypeOK'
  BY <1>2, <1>4, <1>5 DEF Inv, TypeOK, VerifierRec, AccountStatus, transferVars
<1>7. \A b \in Adds : account[b] # "none" => account'[b] # "none"
  BY <1>4, <1>5
<1>8. \A x \in Verifies : verifier[x].pc # "idle" => verifier'[x].pc # "idle"
  BY <1>2
<1>9. \A b \in Adds \ {a} : AccountInv(b)'
  BY <1>2, <1>5, <1>7, <1>8, AddersKept
<1>10. AccountInv(a)'
  <2>1. AccountInv(a) /\ adder' = adder /\ earlier' = earlier
    BY <1>4 DEF Inv
  <2>2. adder[a].pc = "ended" /\ earlier[a] = {} /\ Validates(adder[a].acc)
    BY <1>4, <2>1 DEF AccountInv, Inv, TypeOK
  <2>3. verifier'[k].pc # "idle" /\ verifier'[k].row = a
        /\ verifier'[k].user = adder'[a].user
    BY <1>2, <1>3, <1>4, <2>1
  <2>4. QED
    BY <1>4, <1>7, <2>1, <2>2, <2>3 DEF AccountInv, Validates
<1>11. \A x \in Verifies : VerifierInv(x)'
  BY <1>2, <1>7 DEF Inv, VerifierInv
<1>12. \A m \in Messages : TransferInv(m)'
  BY TransfersKept
<1>13. QED
  BY <1>6, <1>9, <1>10, <1>11, <1>12 DEF Inv

\* A failing query of these requests.
LEMMA AccountErrorKeepsInv == Inv /\ AccountError => Inv'
<1> SUFFICES ASSUME Inv, AccountError PROVE Inv'
  OBVIOUS
<1>1. /\ dbErrors' \in 0..MaxDbErrors
      /\ UNCHANGED <<account, earlier, transferVars, crashes>>
  BY BankAssumption DEF AccountError, Inv, TypeOK
<1>2. ASSUME NEW a \in Adds, adder[a].pc \in {"checking", "inserting"},
             adder' = [adder EXCEPT ![a] = [@ EXCEPT !.pc = "ended"]],
             UNCHANGED verifier
      PROVE  Inv'
  <2> DEFINE new == [adder[a] EXCEPT !.pc = "ended"]
  <2>1. adder[a] \in AdderRec /\ adder \in [Adds -> AdderRec]
    BY DEF Inv, TypeOK, AdderRec
  <2>2. /\ new \in AdderRec /\ new.pc = "ended" /\ new.user = adder[a].user
        /\ new.acc = adder[a].acc
    BY <2>1 DEF AdderRec
  <2>3. adder' = [adder EXCEPT ![a] = new]
    BY <1>2
  <2> HIDE DEF new
  <2>4. /\ adder' \in [Adds -> AdderRec] /\ adder'[a].pc = "ended"
        /\ \A b \in Adds : adder'[b].user = adder[b].user /\ adder'[b].acc = adder[b].acc
        /\ \A b \in Adds \ {a} : adder'[b] = adder[b]
    BY <2>1, <2>2, <2>3
  <2>5. TypeOK'
    BY <1>1, <1>2, <2>4 DEF Inv, TypeOK, AdderRec, transferVars
  <2>6. \A b \in Adds \ {a} : AccountInv(b)'
    BY <1>1, <1>2, <2>4, AddersKept
  <2>7. AccountInv(a)'
    BY <1>1, <1>2, <2>4 DEF Inv, AccountInv, Validates
  <2>8. \A k \in Verifies : VerifierInv(k)'
    BY <1>1, <1>2, <2>4, VerifiersKept
  <2>9. QED
    BY <1>1, <2>5, <2>6, <2>7, <2>8, TransfersKept DEF Inv
<1>3. ASSUME NEW k \in Verifies, verifier[k].pc \in {"owned", "saving"},
             verifier' = [verifier EXCEPT ![k] = [@ EXCEPT !.pc = "ended"]],
             UNCHANGED adder
      PROVE  Inv'
  <2> DEFINE new == [verifier[k] EXCEPT !.pc = "ended"]
  <2>1. verifier[k] \in VerifierRec /\ verifier \in [Verifies -> VerifierRec]
    BY DEF Inv, TypeOK, VerifierRec
  <2>2. /\ new \in VerifierRec /\ new.pc = "ended" /\ new.user = verifier[k].user
        /\ new.row = verifier[k].row
    BY <2>1 DEF VerifierRec
  <2>3. verifier' = [verifier EXCEPT ![k] = new]
    BY <1>3
  <2> HIDE DEF new
  <2>4. /\ verifier' \in [Verifies -> VerifierRec] /\ verifier'[k].pc = "ended"
        /\ \A x \in Verifies :
             verifier'[x].row = verifier[x].row /\ verifier'[x].user = verifier[x].user
        /\ \A x \in Verifies \ {k} : verifier'[x] = verifier[x]
    BY <2>1, <2>2, <2>3
  <2>5. TypeOK'
    BY <1>1, <1>3, <2>4 DEF Inv, TypeOK, VerifierRec, transferVars
  <2>6. \A x \in Verifies : verifier[x].pc # "idle" => verifier'[x].pc # "idle"
    BY <2>4
  <2>7. \A b \in Adds : AccountInv(b)'
    BY <1>1, <1>3, <2>4, <2>6, AddersKept
  <2>8. \A x \in Verifies : VerifierInv(x)'
    BY <1>1, <1>3, <2>4 DEF Inv, VerifierInv
  <2>9. QED
    BY <1>1, <2>5, <2>7, <2>8, TransfersKept DEF Inv
<1>4. QED
  BY <1>2, <1>3 DEF AccountError

\* A crash ends what is under way, and changes no row.
LEMMA CrashKeepsInv == Inv /\ Crash => Inv'
<1> SUFFICES ASSUME Inv, Crash PROVE Inv'
  OBVIOUS
<1>1. /\ crashes' \in 0..MaxCrashes
      /\ UNCHANGED <<status, completedAt, stamped, target, notified, account,
                     earlier, dbErrors>>
  BY BankAssumption DEF Crash, Inv, TypeOK
<1>2. /\ DOMAIN step' = Messages /\ step' = [m \in Messages |-> step'[m]]
      /\ \A m \in Messages : step'[m] = step[m] \/ step'[m] = "lost"
  BY DEF Crash
<1>3. step' \in [Messages -> {"idle", "looking", "finding", "creating", "reading",
        "starting", "completing", "notifying", "notifyingAgain", "failing",
        "marking", "markingSave", "lost"} \cup Replies]
  BY <1>2 DEF Inv, TypeOK
<1>4. /\ adder' \in [Adds -> AdderRec]
      /\ \A a \in Adds :
           /\ adder'[a].pc \in {"idle", "ended"}
           /\ adder'[a].pc = "idle" => adder[a].pc = "idle"
           /\ adder'[a].user = adder[a].user /\ adder'[a].acc = adder[a].acc
  <2>1. adder' = [a \in Adds |-> IF adder[a].pc = "idle" THEN adder[a]
                                 ELSE [adder[a] EXCEPT !.pc = "ended"]]
    BY DEF Crash
  <2>2. ASSUME NEW a \in Adds
        PROVE  /\ adder'[a] \in AdderRec
               /\ adder'[a].pc \in {"idle", "ended"}
               /\ adder'[a].pc = "idle" => adder[a].pc = "idle"
               /\ adder'[a].user = adder[a].user /\ adder'[a].acc = adder[a].acc
    <3>1. adder[a] \in AdderRec
      BY DEF Inv, TypeOK, AdderRec
    <3>2. CASE adder[a].pc = "idle"
      BY <2>1, <3>1, <3>2
    <3>3. CASE adder[a].pc # "idle"
      BY <2>1, <3>1, <3>3 DEF AdderRec
    <3>4. QED
      BY <3>2, <3>3
  <2>3. QED
    BY <2>1, <2>2
<1>5. /\ verifier' \in [Verifies -> VerifierRec]
      /\ \A k \in Verifies :
           /\ verifier'[k].pc \in {"idle", "ended"}
           /\ verifier[k].pc # "idle" => verifier'[k].pc # "idle"
           /\ verifier'[k].row = verifier[k].row /\ verifier'[k].user = verifier[k].user
  <2>1. verifier' = [k \in Verifies |-> IF verifier[k].pc = "idle" THEN verifier[k]
                                        ELSE [verifier[k] EXCEPT !.pc = "ended"]]
    BY DEF Crash
  <2>2. ASSUME NEW k \in Verifies
        PROVE  /\ verifier'[k] \in VerifierRec
               /\ verifier'[k].pc \in {"idle", "ended"}
               /\ verifier[k].pc # "idle" => verifier'[k].pc # "idle"
               /\ verifier'[k].row = verifier[k].row /\ verifier'[k].user = verifier[k].user
    <3>1. verifier[k] \in VerifierRec
      BY DEF Inv, TypeOK, VerifierRec
    <3>2. CASE verifier[k].pc = "idle"
      BY <2>1, <3>1, <3>2
    <3>3. CASE verifier[k].pc # "idle"
      BY <2>1, <3>1, <3>3 DEF VerifierRec
    <3>4. QED
      BY <3>2, <3>3
  <2>3. QED
    BY <2>1, <2>2
<1>6. TypeOK'
  BY <1>1, <1>3, <1>4, <1>5 DEF Inv, TypeOK, AdderRec, VerifierRec
<1>7. ASSUME NEW m \in Messages PROVE TransferInv(m)'
  <2>1. TransferInv(m)
    BY DEF Inv
  <2>2. CASE step'[m] = step[m]
    BY <1>1, <2>1, <2>2 DEF TransferInv
  <2>3. CASE step'[m] = "lost"
    BY <1>1, <2>1, <2>3 DEF TransferInv, Unsent, After
  <2>4. QED
    BY <1>2, <2>2, <2>3
<1>8. ASSUME NEW a \in Adds PROVE AccountInv(a)'
  BY <1>1, <1>4, <1>5 DEF Inv, AccountInv, Validates
<1>9. \A k \in Verifies : VerifierInv(k)'
  BY <1>5 DEF VerifierInv
<1>10. QED
  BY <1>6, <1>7, <1>8, <1>9 DEF Inv

-----------------------------------------------------------------------------
(* Theorems                                                                *)

\* Every step keeps the invariant.
LEMMA StepKeepsInv == Inv /\ [Next]_vars => Inv'
<1> SUFFICES ASSUME Inv, [Next]_vars PROVE Inv'
  OBVIOUS
<1>1. CASE \E m \in Messages, a \in Adds : Arrive(m, a)
  BY <1>1, LookKeepsInv
<1>2. CASE \E m \in Messages : Handle(m)
  BY <1>2, LookKeepsInv, ProcessKeepsInv, NotifyKeepsInv, FailKeepsInv DEF Handle
<1>3. CASE \E m \in Messages : TransferError(m)
  BY <1>3, TransferErrorKeepsInv
<1>4. CASE \E a \in Adds, user \in Users, acc \in Accounts : AddArrive(a, user, acc)
  BY <1>4, ArriveKeepsInv
<1>5. ASSUME NEW a \in Adds, AddCheck(a) PROVE Inv'
  <2>1. PICK to \in {"inserting", "ended"} :
          /\ Adder(a, "checking", to)
          /\ to = "inserting" => Equal(adder[a].user, adder[a].acc) = {}
    BY <1>5 DEF AddCheck
  <2>2. account[a] = "none" /\ account' = [account EXCEPT ![a] = "none"]
    BY <1>5, <2>1 DEF AddCheck, Adder, Inv, TypeOK, AccountInv
  <2>3. dbErrors' \in 0..MaxDbErrors
    BY <2>1 DEF Adder, faultVars, Inv, TypeOK
  <2>4. UNCHANGED <<earlier, verifier, transferVars, crashes>>
    BY <2>1 DEF Adder, faultVars
  <2>5. QED
    BY <2>1, <2>2, <2>3, <2>4, AdderKeepsInv
<1>6. ASSUME NEW a \in Adds, AddInsert(a) PROVE Inv'
  <2>1. /\ Adder(a, "inserting", "ended")
        /\ account' = [account EXCEPT ![a] = "PENDING_VERIFICATION"]
    BY <1>6 DEF AddInsert
  <2>2. /\ UNCHANGED <<earlier, verifier, transferVars, crashes>>
        /\ dbErrors' \in 0..MaxDbErrors
    BY <2>1 DEF Adder, faultVars, Inv, TypeOK
  <2>3. QED
    BY <2>1, <2>2, AdderKeepsInv
<1>7. CASE \E k \in Verifies, user \in Users, a \in Adds : VerifyCheck(k, user, a)
  BY <1>7, VerifyCheckKeepsInv
<1>8. ASSUME NEW k \in Verifies, VerifyRead(k) \/ VerifySave(k) PROVE Inv'
  <2>1. CASE VerifyRead(k)
    BY <2>1, VerifierKeepsInv DEF VerifyRead, Verifier, faultVars, Inv, TypeOK
  <2>2. CASE VerifySave(k)
    BY <2>2, VerifierKeepsInv DEF VerifySave, Verifier, faultVars, Inv, TypeOK
  <2>3. QED
    BY <1>8, <2>1, <2>2
<1>9. CASE AccountError
  BY <1>9, AccountErrorKeepsInv
<1>10. CASE Crash
  BY <1>10, CrashKeepsInv
<1>11. CASE UNCHANGED vars
  <2>1. UNCHANGED <<transferVars, account, adder, earlier, verifier, faultVars>>
    BY <1>11 DEF vars, accountVars
  <2>2. TypeOK'
    BY <2>1 DEF Inv, TypeOK, transferVars, faultVars
  <2>3. \A a \in Adds : AccountInv(a)'
    BY <2>1, AddersKept
  <2>4. \A k \in Verifies : VerifierInv(k)'
    BY <2>1, VerifiersKept
  <2>5. QED
    BY <2>1, <2>2, <2>3, <2>4, TransfersKept DEF Inv
<1>12. QED
  BY <1>1, <1>2, <1>3, <1>4, <1>5, <1>6, <1>7, <1>8, <1>9, <1>10, <1>11 DEF Next

\* The invariant holds in every reachable state.
THEOREM Invariant == Spec => []Inv
  BY InvInit, StepKeepsInv, PTL DEF Spec

\* Replies and notifications say what the rows say, whichever queries fail.
THEOREM RepliesAreTrue == Spec => []ToldTheTruth
<1>1. Inv => RepliesMatchRows
  <2> SUFFICES ASSUME Inv, NEW m \in Messages
               PROVE  /\ step[m] = "completed" => status[m] = "COMPLETED" /\ completedAt[m]
                      /\ step[m] \in {"failed", "refused", "errored"} =>
                           status[m] # "COMPLETED"
                      /\ step[m] = "failed" => status[m] = "FAILED"
                      /\ step[m] = "reading" => status[m] = "PENDING"
    BY DEF RepliesMatchRows
  <2>1. TransferInv(m)
    BY DEF Inv
  <2>2. QED
    BY <2>1 DEF TransferInv, After
<1>2. Inv => NotifiedOfCompleted
  <2> SUFFICES ASSUME Inv, NEW m \in Messages, notified[m] > 0
               PROVE  status[m] = "COMPLETED" /\ (m \in Credits => notified[m] = 1)
    BY DEF NotifiedOfCompleted
  <2>1. TransferInv(m) /\ notified[m] \in 0..2
    BY DEF Inv, TypeOK
  <2>2. QED
    BY <2>1 DEF TransferInv
<1>3. Inv => ToldTheTruth
  BY <1>1, <1>2 DEF ToldTheTruth, Inv
<1>4. QED
  BY <1>3, Invariant, PTL

\* Accounts have one row unless requests overlap, verified by the owner only.
THEOREM AccountsAreRight == Spec => []AccountsAgree
<1>1. Inv => AccountsAgree
  BY DEF Inv, AccountInv, AccountsAgree, SequentialAddsAgree, VerifiedByOwner
<1>2. QED
  BY <1>1, Invariant, PTL

\* No step reopens or fails a completed transfer.
THEOREM CompletedStays == Spec => CompletedIsFinal
<1> DEFINE Stays ==
      \A m \in Messages : status[m] = "COMPLETED" => status'[m] = "COMPLETED"
<1>1. Inv /\ [Next]_vars => [Stays]_vars
  <2> SUFFICES ASSUME Inv, Next, NEW m \in Messages, status[m] = "COMPLETED"
               PROVE  status'[m] = "COMPLETED"
    OBVIOUS
  <2>1. step[m] \in After
    BY DEF Inv, TransferInv
  <2>2. ASSUME NEW n \in Messages, Handle(n) PROVE status'[m] = "COMPLETED"
    <3>1. CASE n = m
      BY <2>1, <2>2, <3>1 DEF After, Handle, LookAccount, FindAccount, CreateTransfer,
         ReadTransfer, StartProcessing, CompleteTransfer, Notify, FailTransfer,
         MarkRead, MarkFailed, Goes
    <3>2. CASE n # m
      BY <2>2, <3>2 DEF Handle, LookAccount, FindAccount, CreateTransfer,
         ReadTransfer, StartProcessing, CompleteTransfer, Notify, FailTransfer,
         MarkRead, MarkFailed, SaveTransfer, Inv, TypeOK
    <3>3. QED
      BY <3>1, <3>2
  <2>3. CASE ~\E n \in Messages : Handle(n)
    <3>1. UNCHANGED status
      BY <2>3 DEF Next, Arrive, TransferError, AddArrive, AddCheck, AddInsert, Adder,
         VerifyCheck, VerifyRead, VerifySave, Verifier, AccountError, Crash,
         transferVars
    <3>2. QED
      BY <3>1
  <2>4. QED
    BY <2>2, <2>3
<1>2. QED
  BY <1>1, Invariant, PTL DEF Spec, CompletedIsFinal

-----------------------------------------------------------------------------
(* The statistics. Only finitely many messages have begun, whatever the    *)
(* set of messages is: each step begins one at most, so the sums are over  *)
(* finite sets.                                                            *)

Begun == {m \in Messages : step[m] # "idle"}

\* No message has begun.
LEMMA BegunInit == Init => IsFiniteSet(Begun)
<1>1. Init => Begun = {}
  BY DEF Init, Begun
<1>2. QED
  BY <1>1, FS_EmptySet

\* A step begins one message at most.
LEMMA BegunKept == Inv /\ IsFiniteSet(Begun) /\ [Next]_vars => IsFiniteSet(Begun)'
<1> SUFFICES ASSUME Inv, IsFiniteSet(Begun), [Next]_vars PROVE IsFiniteSet(Begun')
  OBVIOUS
<1>1. ASSUME Begun' \subseteq Begun PROVE IsFiniteSet(Begun')
  BY <1>1, FS_Subset
<1>2. ASSUME NEW m \in Messages, NEW to, step' = [step EXCEPT ![m] = to]
      PROVE  IsFiniteSet(Begun')
  <2>1. Begun' \subseteq Begun \cup {m}
    BY <1>2 DEF Begun, Inv, TypeOK
  <2>2. IsFiniteSet(Begun \cup {m})
    BY FS_AddElement
  <2>3. QED
    BY <2>1, <2>2, FS_Subset
<1>3. ASSUME NEW m \in Messages, Handle(m) PROVE IsFiniteSet(Begun')
  <2>1. PICK to : step' = [step EXCEPT ![m] = to]
    BY <1>3 DEF Handle, LookAccount, FindAccount, CreateTransfer, ReadTransfer,
       StartProcessing, CompleteTransfer, Notify, FailTransfer, MarkRead,
       MarkFailed, Goes
  <2>2. QED
    BY <2>1, <1>2
<1>4. ASSUME NEW m \in Messages, NEW a \in Adds, Arrive(m, a) PROVE IsFiniteSet(Begun')
  BY <1>4, <1>2 DEF Arrive, Goes
<1>5. ASSUME NEW m \in Messages, TransferError(m) PROVE IsFiniteSet(Begun')
  BY <1>5, <1>2 DEF TransferError
<1>6. CASE UNCHANGED step
  BY <1>6, <1>1 DEF Begun
<1>7. CASE Crash
  BY <1>7, <1>1 DEF Crash, Begun, Inv, TypeOK
<1>8. CASE UNCHANGED vars
  BY <1>8, <1>6 DEF vars, transferVars
<1>9. CASE Next /\ step' # step /\ ~Crash
  <2>1. \E m \in Messages : Handle(m) \/ TransferError(m) \/ \E a \in Adds : Arrive(m, a)
    BY <1>9 DEF Next, AddArrive, AddCheck, AddInsert, Adder, VerifyCheck, VerifyRead,
       VerifySave, Verifier, AccountError, transferVars
  <2>2. QED
    BY <2>1, <1>3, <1>4, <1>5
<1>10. QED
  BY <1>6, <1>7, <1>8, <1>9

\* The statistics of an account agree with what its senders were told, for any
\* number of transfers of any amounts.
THEOREM StatisticsAreTrue == Spec => []StatisticsMatchReplies
<1>1. Inv /\ IsFiniteSet(Begun) => StatisticsMatchReplies
  <2> SUFFICES ASSUME Inv, IsFiniteSet(Begun), NEW a \in Adds
      PROVE  LET Told(replies) == {m \in Messages : target[m] = a /\ step[m] \in replies}
                 Total(S) == SumFunctionOnSet(Amount, S)
                 stats == Statistics(a)
             IN  /\ Total(Told({"completed"})) <= stats.totalAmount
                 /\ stats.totalAmount <=
                      Total(Told({"completed", "notifying", "notifyingAgain", "lost"}))
                 /\ stats.completedTransfers <= stats.totalTransfers
    BY DEF StatisticsMatchReplies
  <2> DEFINE Told(replies) == {m \in Messages : target[m] = a /\ step[m] \in replies}
             Late == {"completed", "notifying", "notifyingAgain", "lost"}
  <2>1. Told(Late) \subseteq Begun /\ TransfersTo(a) \subseteq Begun
    BY DEF Begun, TransfersTo, Inv, TransferInv, Unsent
  <2>2. Told({"completed"}) \subseteq Completed(a)
    BY DEF Completed, TransfersTo, Inv, TransferInv
  <2>3. Completed(a) \subseteq Told(Late) /\ Completed(a) \subseteq TransfersTo(a)
    BY DEF Completed, TransfersTo, Inv, TransferInv, After
  <2>4. IsFiniteSet(Told(Late)) /\ IsFiniteSet(Completed(a)) /\ IsFiniteSet(TransfersTo(a))
    BY <2>1, <2>3, FS_Subset
  <2>5. \A m \in Messages : Amount[m] \in Nat
    BY BankAssumption
  <2>6. SumFunctionOnSet(Amount, Told({"completed"}))
          <= SumFunctionOnSet(Amount, Completed(a))
    BY <2>2, <2>4, <2>5, SumMonotone DEF Completed, TransfersTo
  <2>7. SumFunctionOnSet(Amount, Completed(a)) <= SumFunctionOnSet(Amount, Told(Late))
    BY <2>3, <2>4, <2>5, SumMonotone
  <2>8. Cardinality(Completed(a)) <= Cardinality(TransfersTo(a))
    BY <2>3, <2>4, FS_Subset
  <2>9. QED
    BY <2>6, <2>7, <2>8 DEF Statistics
<1>2. QED
  BY <1>1, Invariant, BegunInit, BegunKept, PTL DEF Spec
=============================================================================

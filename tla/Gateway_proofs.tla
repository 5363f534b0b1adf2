---------------------------- MODULE Gateway_proofs ----------------------------
(***************************************************************************)
(* Proofs about the gateway beside its payments, for any numbers of        *)
(* requests, devices and phones: users with their sessions and codes       *)
(* (GatewayAuth), their keys and challenges (Biometrics), the two together *)
(* (GatewayIdentity), and the payment methods of a user (PaymentMethods).  *)
(***************************************************************************)
EXTENDS GatewayIdentity, PaymentMethods, FiniteSetTheorems, TLAPS

(***************************************************************************)
(* The inductive invariant of GatewayIdentity has two parts, AuthInv and   *)
(* BioInv, put together below from what each kind of row needs.  Its       *)
(* properties speak of what requests have answered; what makes them        *)
(* inductive is what a request on its way holds: the copy of a row it will *)
(* save, the user and the token it has found, the code it has read.        *)
(***************************************************************************)

-----------------------------------------------------------------------------
(* Users, sessions and codes.                                              *)

AuthStep == AuthNext \/ \E c \in Deletes : DeleteRemove(c)

\* The steps of one handler.
AuthBy(c) ==
  \/ c \in Registrations /\ (RegisterEmail(c) \/ RegisterPhone(c))
  \/ c \in Creators /\ InsertUser(c)
  \/ c \in Updates /\ (UpdateSave(c) \/ \E u \in Creators : UpdateRead(c, u))
  \/ c \in Deletes /\ (DeleteRemove(c) \/ \E u \in Creators : DeleteRead(c, u))
  \/ c \in Logins /\ Login(c)
  \/ c \in OAuths /\ OAuthLogin(c)
  \/ c \in Sessions /\ IssueTokens(c)
  \/ c \in Refreshes /\ (RefreshRevoke(c) \/ \E t \in Sessions : RefreshRead(c, t))
  \/ c \in Logouts /\ \E t \in Sessions : Logout(c, t)
  \/ c \in Generations /\ GenerateOtp(c)
  \/ c \in Verifies /\ (VerifyCount(c) \/ VerifyConfirm(c) \/ VerifyFind(c))
  \/ c \in Verifies /\ \E g \in Generations \cup {Nobody} : VerifyRead(c, g)
  \/ AbortAuth(c)

AuthEnds == {"refused", "errored", "done", "verified", "counted", "aborted"}

UserRow == [stored : BOOLEAN,
            email : {NewEmail(c) : c \in Creators} \cup {EmailOf[c] : c \in Updates},
            phone : {NewPhone(c) : c \in Creators} \cup {PhoneOf[c] : c \in Updates}]

\* A change of a user has its own copy of the row of some user, and a deletion
\* knows its user.
UserInv ==
  /\ AuthTypeOK
  /\ \A c \in Updates : pc[c] = "saving" =>
       userCopy[c] \in UserRow /\ userCopy[c].stored /\ subject[c] \in Creators
  /\ \A c \in Deletes : pc[c] = "removing" => subject[c] \in Creators

\* Every step is a step of one handler.
LEMMA AuthStepIsBy == AuthStep => \E c \in AuthCalls : AuthBy(c)
BY DEF AuthStep, AuthNext, AuthBy, AuthCalls, Sessions, Creators

\* A handler that has not ended moves, and leaves the others alone. It takes its
\* user and its token or code as it begins, or finds the user later.
Moves(c) ==
  /\ pc[c] \in Waiting \cup {"idle"}
  /\ \E to \in Waiting \cup AuthEnds : pc' = [pc EXCEPT ![c] = to]
  /\ \A x \in AuthCalls \ {c} : subject'[x] = subject[x] /\ target'[x] = target[x]
  /\ subject'[c] # subject[c] => pc[c] \in {"idle", "inserting", "finding"}
  /\ target'[c] # target[c] => pc[c] = "idle"
  /\ pc'[c] = "saving" => \E u \in Creators : c \in Updates /\ UpdateRead(c, u)
  /\ pc'[c] = "removing" => \E u \in Creators : DeleteRead(c, u)
  /\ pc[c] = "issuing" => pc'[c] \in {"done", "errored", "aborted"}
  /\ \A x \in Updates \ {c} : userCopy'[x] = userCopy[x]
  /\ \A x \in Refreshes \ {c} : before'[x] = before[x]
  /\ c \in Refreshes /\ before'[c] # before[c] => \E t \in Sessions : RefreshRead(c, t)
  /\ c \notin Verifies => UNCHANGED <<code, codeCopy, overlapped>>

\* Each handler moves like this, whatever it does to the tables.
LEMMA AuthMoves ==
  ASSUME AuthTypeOK, NEW c \in AuthCalls, AuthBy(c)
  PROVE  Moves(c)
<1> USE DEF GoesTo, IsAbout, Waiting, AuthEnds, AuthTypeOK, AuthCalls, Sessions, Creators, Moves
<1>1. CASE c \in Registrations /\ (RegisterEmail(c) \/ RegisterPhone(c))
  BY <1>1 DEF RegisterEmail, RegisterPhone
<1>2. CASE c \in Creators /\ InsertUser(c)
  BY <1>2 DEF InsertUser
<1>3. CASE c \in Updates /\ (UpdateSave(c) \/ \E u \in Creators : UpdateRead(c, u))
  BY <1>3 DEF UpdateSave, UpdateRead
<1>4. CASE c \in Deletes /\ (DeleteRemove(c) \/ \E u \in Creators : DeleteRead(c, u))
  BY <1>4 DEF DeleteRemove, DeleteRead
<1>5. CASE c \in Logins /\ Login(c)
  BY <1>5 DEF Login
<1>6. CASE c \in OAuths /\ OAuthLogin(c)
  BY <1>6 DEF OAuthLogin
<1>7. CASE c \in Sessions /\ IssueTokens(c)
  BY <1>7 DEF IssueTokens
<1>8. CASE c \in Refreshes /\ (RefreshRevoke(c) \/ \E t \in Sessions : RefreshRead(c, t))
  BY <1>8 DEF RefreshRevoke, RefreshRead
<1>9. CASE c \in Logouts /\ \E t \in Sessions : Logout(c, t)
  BY <1>9 DEF Logout
<1>10. CASE c \in Generations /\ GenerateOtp(c)
  BY <1>10 DEF GenerateOtp
<1>11. CASE c \in Verifies /\ (VerifyCount(c) \/ VerifyConfirm(c) \/ VerifyFind(c))
  BY <1>11 DEF VerifyCount, VerifyConfirm, VerifyFind
<1>12. CASE c \in Verifies /\ \E g \in Generations \cup {Nobody} : VerifyRead(c, g)
  BY <1>12 DEF VerifyRead
<1>13. CASE AbortAuth(c)
  BY <1>13 DEF AbortAuth
<1> HIDE DEF Moves
<1>14. QED
  BY <1>1, <1>2, <1>3, <1>4, <1>5, <1>6, <1>7, <1>8, <1>9, <1>10, <1>11, <1>12, <1>13
     DEF AuthBy

\* Which steps change users, sessions and codes.
LEMMA AuthChanges ==
  ASSUME AuthStep
  PROVE  /\ \/ UNCHANGED user
            \/ \E c \in Creators : InsertUser(c)
            \/ \E c \in Updates : UpdateSave(c)
            \/ \E c \in Deletes : DeleteRemove(c)
         /\ \/ UNCHANGED token
            \/ \E c \in Sessions : IssueTokens(c)
            \/ \E f \in Refreshes : RefreshRevoke(f)
            \/ \E c \in Logouts, t \in Sessions : Logout(c, t)
            \/ \E c \in Deletes : DeleteRemove(c)
         /\ UNCHANGED gone \/ \E c \in Deletes : DeleteRemove(c)
         /\ UNCHANGED userCopy \/ \E c \in Updates, u \in Creators : UpdateRead(c, u)
         /\ UNCHANGED before \/ \E f \in Refreshes, t \in Sessions : RefreshRead(f, t)
         /\ UNCHANGED latest \/ \E g \in Generations : GenerateOtp(g)
         /\ \/ UNCHANGED <<codeCopy, overlapped>>
            \/ \E v \in Verifies, g \in Generations \cup {Nobody} : VerifyRead(v, g)
         /\ UNCHANGED code \/ \E v \in Verifies : VerifyCount(v) \/ VerifyConfirm(v)
         /\ \/ UNCHANGED target
            \/ \E v \in Verifies, g \in Generations \cup {Nobody} : VerifyRead(v, g)
            \/ \E f \in Refreshes, t \in Sessions : RefreshRead(f, t)
            \/ \E c \in Logouts, t \in Sessions : Logout(c, t)
BY DEF AuthStep, AuthNext, RegisterEmail, RegisterPhone, InsertUser, UpdateSave, UpdateRead,
   DeleteRead, DeleteRemove, Login, OAuthLogin, IssueTokens, RefreshRevoke, RefreshRead,
   Logout, GenerateOtp, VerifyCount, VerifyConfirm, VerifyFind, VerifyRead, AbortAuth

\* The types of the tables, the handlers and their copies.
LEMMA AuthTypes == UserInv /\ AuthStep => AuthTypeOK'
<1> SUFFICES ASSUME UserInv, AuthStep PROVE AuthTypeOK'
  OBVIOUS
<1>0. AuthTypeOK
  BY DEF UserInv
<1>1. user' \in [Creators -> UserRow]
  <2>1. user \in [Creators -> UserRow]
    BY <1>0 DEF AuthTypeOK, UserRow
  <2>2. ASSUME NEW c \in Creators, InsertUser(c) PROVE user' \in [Creators -> UserRow]
    <3>1. [NoUser(c) EXCEPT !.stored = TRUE] \in UserRow
      BY DEF NoUser, UserRow
    <3>2. QED
      BY <2>1, <2>2, <3>1 DEF InsertUser
  <2>3. ASSUME NEW c \in Updates, UpdateSave(c) PROVE user' \in [Creators -> UserRow]
    BY <2>1, <2>3 DEF UpdateSave, UserInv
  <2>4. ASSUME NEW c \in Deletes, DeleteRemove(c) PROVE user' \in [Creators -> UserRow]
    <3>1. subject[c] \in Creators
      BY <2>4 DEF DeleteRemove, UserInv
    <3>2. [user[subject[c]] EXCEPT !.stored = FALSE] \in UserRow
      BY <2>1, <3>1 DEF UserRow
    <3>3. QED
      BY <2>1, <2>4, <3>1, <3>2 DEF DeleteRemove
  <2>5. QED
    BY <2>1, <2>2, <2>3, <2>4, AuthChanges
<1>2. token' \in [Sessions -> {"none", "active", "revoked"}]
  <2>1. token \in [Sessions -> {"none", "active", "revoked"}]
    BY <1>0 DEF AuthTypeOK
  <2>2. ASSUME NEW t PROVE Revoked(t) \in [Sessions -> {"none", "active", "revoked"}]
    BY <2>1 DEF Revoked
  <2>3. ASSUME NEW c \in Deletes, DeleteRemove(c)
        PROVE  token' \in [Sessions -> {"none", "active", "revoked"}]
    BY <2>1, <2>3 DEF DeleteRemove
  <2>4. QED
    BY <2>1, <2>2, <2>3, AuthChanges DEF IssueTokens, RefreshRevoke, Logout
<1>3. /\ code' \in [Generations -> [attempts : Nat, verified : BOOLEAN]]
      /\ codeCopy' \in [Verifies -> [attempts : Nat, verified : BOOLEAN]]
      /\ overlapped' \subseteq Generations
  <2>1. /\ code \in [Generations -> [attempts : Nat, verified : BOOLEAN]]
        /\ codeCopy \in [Verifies -> [attempts : Nat, verified : BOOLEAN]]
        /\ overlapped \subseteq Generations
    BY <1>0 DEF AuthTypeOK
  <2>2. ASSUME NEW v \in Verifies
        PROVE  /\ [codeCopy[v] EXCEPT !.attempts = @ + 1] \in [attempts : Nat, verified : BOOLEAN]
               /\ [codeCopy[v] EXCEPT !.verified = TRUE] \in [attempts : Nat, verified : BOOLEAN]
    <3>1. /\ codeCopy[v] \in [attempts : Nat, verified : BOOLEAN]
          /\ codeCopy[v].attempts + 1 \in Nat
      BY <2>1
    <3>2. QED
      BY <3>1
  <2>3. code' \in [Generations -> [attempts : Nat, verified : BOOLEAN]]
    BY <2>1, <2>2, AuthChanges DEF VerifyCount, VerifyConfirm
  <2>4. ASSUME NEW v \in Verifies, NEW g \in Generations \cup {Nobody}, VerifyRead(v, g)
        PROVE  /\ codeCopy' \in [Verifies -> [attempts : Nat, verified : BOOLEAN]]
               /\ overlapped' \subseteq Generations
    <3>1. latest[PhoneOf[v]] \in Generations \cup {Nobody}
      BY <1>0 DEF AuthTypeOK, Phones
    <3>2. QED
      BY <2>1, <2>4, <3>1 DEF VerifyRead
  <2>5. QED
    BY <2>1, <2>3, <2>4, AuthChanges
<1>4. latest' \in [Phones -> Generations \cup {Nobody}]
  BY <1>0, AuthChanges DEF AuthTypeOK, GenerateOtp
<1>5. pc' \in [AuthCalls -> Waiting \cup {"unused", "idle", "refused", "errored",
                                         "done", "verified", "counted", "aborted"}]
  BY <1>0, AuthStepIsBy, AuthMoves DEF Moves, AuthTypeOK, AuthEnds
<1>6. subject' \in [AuthCalls -> Creators \cup {Nobody}]
  <2>1. subject \in [AuthCalls -> Creators \cup {Nobody}] /\ Stored \subseteq Creators
        /\ Creators \subseteq AuthCalls /\ Sessions \subseteq AuthCalls
    BY <1>0 DEF AuthTypeOK, Stored, AuthCalls, Creators, Sessions
  <2>2. \/ UNCHANGED subject
        \/ \E c \in AuthCalls, u \in Creators \cup {Nobody} : subject' = [subject EXCEPT ![c] = u]
    BY <2>1 DEF AuthStep, AuthNext, RegisterEmail, RegisterPhone, InsertUser, UpdateSave,
       UpdateRead, DeleteRead, DeleteRemove, Login, OAuthLogin, IssueTokens, RefreshRevoke,
       RefreshRead, Logout, GenerateOtp, VerifyCount, VerifyConfirm, VerifyFind, VerifyRead,
       AbortAuth, IsAbout, AuthCalls, Sessions
  <2>3. QED
    BY <2>1, <2>2
<1>7. target' \in [AuthCalls -> Sessions \cup Generations \cup {Nobody}]
  <2>1. target \in [AuthCalls -> Sessions \cup Generations \cup {Nobody}]
    BY <1>0 DEF AuthTypeOK
  <2>2. ASSUME NEW v \in Verifies, NEW g \in Generations \cup {Nobody}, VerifyRead(v, g)
        PROVE  target' \in [AuthCalls -> Sessions \cup Generations \cup {Nobody}]
    <3>1. latest[PhoneOf[v]] \in Generations \cup {Nobody}
      BY <1>0 DEF AuthTypeOK, Phones
    <3>2. QED
      BY <2>1, <2>2, <3>1 DEF VerifyRead
  <2>3. QED
    BY <2>1, <2>2, AuthChanges DEF RefreshRead, Logout
<1>8. userCopy' \in [Updates -> UserRow \cup {Nobody}]
  <2>1. userCopy \in [Updates -> UserRow \cup {Nobody}] /\ user \in [Creators -> UserRow]
    BY <1>0 DEF AuthTypeOK, UserRow
  <2>2. ASSUME NEW c \in Updates, NEW u \in Creators
        PROVE  Assigned(user[u], c) \in UserRow
    BY <2>1 DEF UserRow, Assigned
  <2>3. QED
    BY <2>1, <2>2, AuthChanges DEF UpdateRead
<1>9. before' \in [Refreshes -> SUBSET (Refreshes \cup Logouts)]
  BY <1>0, AuthChanges DEF AuthTypeOK, RefreshRead
<1>10. gone' \subseteq Creators
  <2>1. ASSUME NEW c \in Deletes, DeleteRemove(c) PROVE gone' \subseteq Creators
    BY <1>0, <2>1 DEF DeleteRemove, UserInv, AuthTypeOK
  <2>2. QED
    BY <1>0, <2>1, AuthChanges DEF AuthTypeOK
<1>11. QED
  BY <1>1, <1>2, <1>3, <1>4, <1>5, <1>6, <1>7, <1>8, <1>9, <1>10 DEF AuthTypeOK, UserRow

\* Copies and subjects of the handlers that change and remove users.
LEMMA UserInvKept ==
  ASSUME UserInv, AuthStep
  PROVE  UserInv'
<1>1. AuthTypeOK /\ user \in [Creators -> UserRow]
  BY DEF UserInv, AuthTypeOK, UserRow
<1>2. PICK c \in AuthCalls : Moves(c)
  BY <1>1, AuthStepIsBy, AuthMoves
<1>3. \A x \in AuthCalls \ {c} : pc'[x] = pc[x] /\ subject'[x] = subject[x]
  BY <1>1, <1>2 DEF Moves, AuthTypeOK
<1>4. ASSUME NEW u \in Creators, UpdateRead(c, u), c \in Updates
      PROVE  userCopy'[c] \in UserRow /\ userCopy'[c].stored /\ subject'[c] \in Creators
  <2>1. Assigned(user[u], c) \in UserRow /\ Assigned(user[u], c).stored
    BY <1>1, <1>4 DEF UserRow, Assigned
  <2>2. QED
    BY <1>1, <1>4, <2>1 DEF UpdateRead, IsAbout, AuthTypeOK, AuthCalls
<1>5. ASSUME NEW x \in Updates, pc'[x] = "saving"
      PROVE  userCopy'[x] \in UserRow /\ userCopy'[x].stored /\ subject'[x] \in Creators
  <2>1. CASE x = c
    <3>1. PICK u \in Creators : c \in Updates /\ UpdateRead(c, u)
      BY <1>2, <1>5, <2>1 DEF Moves
    <3>2. QED
      BY <1>4, <2>1, <3>1
  <2>2. CASE x # c
    BY <1>2, <1>3, <1>5, <2>2 DEF Moves, UserInv, AuthCalls
  <2>3. QED
    BY <2>1, <2>2
<1>6. ASSUME NEW x \in Deletes, pc'[x] = "removing" PROVE subject'[x] \in Creators
  <2>1. CASE x = c
    BY <1>1, <1>2, <1>6, <2>1 DEF Moves, DeleteRead, IsAbout, AuthTypeOK, AuthCalls
  <2>2. CASE x # c
    BY <1>3, <1>6, <2>2 DEF UserInv, AuthCalls
  <2>3. QED
    BY <2>1, <2>2
<1>7. QED
  BY <1>5, <1>6, AuthTypes DEF UserInv

-----------------------------------------------------------------------------
(* Users.                                                                  *)

\* The unique columns stay unique: a row is only saved when no other has its
\* email or phone.
LEMMA UniqueKept ==
  ASSUME UserInv, UsersAreUnique, AuthStep
  PROVE  UsersAreUnique'
<1>1. user \in [Creators -> UserRow] /\ Stored \subseteq Creators
  BY DEF UserInv, AuthTypeOK, UserRow, Stored
<1>2. ASSUME NEW c \in Creators, NEW row \in UserRow, row.stored, Unique(c, row),
             user' = [user EXCEPT ![c] = row]
      PROVE  UsersAreUnique'
  <2>1. Stored' = Stored \cup {c}
    BY <1>1, <1>2 DEF Stored
  <2>2. \A u \in Creators \ {c} : user'[u] = user[u]
    BY <1>1, <1>2
  <2>3. user'[c] = row
    BY <1>1, <1>2
  <2>4. SUFFICES ASSUME NEW u \in Stored', NEW v \in Stored' \ {u}
                 PROVE  user'[v].email # user'[u].email /\ user'[v].phone # user'[u].phone
    BY DEF UsersAreUnique, Unique
  <2>5. CASE u = c
    BY <1>1, <1>2, <2>1, <2>2, <2>3, <2>5 DEF Unique
  <2>6. CASE v = c
    BY <1>1, <1>2, <2>1, <2>2, <2>3, <2>6 DEF Unique
  <2>7. CASE u # c /\ v # c
    BY <1>1, <2>1, <2>2, <2>7 DEF Unique, UsersAreUnique
  <2>8. QED
    BY <2>5, <2>6, <2>7
<1>3. ASSUME NEW c \in Creators, InsertUser(c) PROVE UsersAreUnique'
  <2>1. CASE UNCHANGED user
    BY <2>1 DEF UsersAreUnique, Unique, Stored
  <2>2. CASE Unique(c, NoUser(c)) /\ user' = [user EXCEPT ![c] = [NoUser(c) EXCEPT !.stored = TRUE]]
    <3>1. PICK row : row = [NoUser(c) EXCEPT !.stored = TRUE]
      OBVIOUS
    <3>2. row \in UserRow /\ row.stored /\ Unique(c, row)
      BY <2>2, <3>1 DEF NoUser, UserRow, Unique
    <3>3. QED
      BY <1>2, <2>2, <3>1, <3>2
  <2>3. QED
    BY <1>3, <2>1, <2>2 DEF InsertUser
<1>4. ASSUME NEW c \in Updates, UpdateSave(c) PROVE UsersAreUnique'
  <2>1. CASE UNCHANGED user
    BY <2>1 DEF UsersAreUnique, Unique, Stored
  <2>2. CASE Unique(subject[c], userCopy[c]) /\ user' = [user EXCEPT ![subject[c]] = userCopy[c]]
    BY <1>2, <1>4, <2>2 DEF UpdateSave, UserInv
  <2>3. QED
    BY <1>4, <2>1, <2>2 DEF UpdateSave
<1>5. ASSUME NEW c \in Deletes, DeleteRemove(c) PROVE UsersAreUnique'
  <2>1. PICK u \in Creators : user' = [user EXCEPT ![u].stored = FALSE]
    BY <1>5 DEF DeleteRemove, UserInv
  <2>2. /\ Stored' \subseteq Stored
        /\ \A v \in Creators : user'[v].email = user[v].email /\ user'[v].phone = user[v].phone
    BY <1>1, <2>1 DEF Stored, UserRow
  <2>3. QED
    BY <1>1, <2>2 DEF UsersAreUnique, Unique
<1>6. CASE UNCHANGED user
  BY <1>6 DEF UsersAreUnique, Unique, Stored
<1>7. QED
  BY <1>3, <1>4, <1>5, <1>6, AuthChanges

\* A user leaves the table only by a deletion that is done.
LEMMA StoredKept ==
  ASSUME UserInv, AuthStep, NEW u \in Stored,
         \A c \in Deletes : DeleteRemove(c) => subject[c] # u
  PROVE  u \in Stored'
<1>1. user \in [Creators -> UserRow] /\ u \in Creators /\ user[u].stored
  BY DEF UserInv, AuthTypeOK, UserRow, Stored
<1>2. ASSUME NEW c \in Creators, InsertUser(c) PROVE user'[u].stored
  BY <1>1, <1>2 DEF InsertUser, NoUser
<1>3. ASSUME NEW c \in Updates, UpdateSave(c) PROVE user'[u].stored
  BY <1>1, <1>3 DEF UpdateSave, UserInv
<1>4. ASSUME NEW c \in Deletes, DeleteRemove(c) PROVE user'[u].stored
  BY <1>1, <1>4 DEF DeleteRemove
<1>5. QED
  BY <1>1, <1>2, <1>3, <1>4, AuthChanges DEF Stored

-----------------------------------------------------------------------------
(* Tokens. A token is there from the end of the request that made it, and  *)
(* goes with its user.                                                     *)

TokenInv ==
  \A t \in Sessions : token[t] # "none" => pc[t] = "done" /\ subject[t] \in Stored

\* A token stays with a session that has ended; deletions take theirs along.
LEMMA TokenInvKept ==
  ASSUME UserInv, TokenInv, AuthStep
  PROVE  TokenInv'
<1>1. AuthTypeOK /\ token \in [Sessions -> {"none", "active", "revoked"}]
      /\ Sessions \subseteq AuthCalls
  BY DEF UserInv, AuthTypeOK, AuthCalls
<1>2. PICK c \in AuthCalls : Moves(c)
  BY <1>1, AuthStepIsBy, AuthMoves
<1>3. ASSUME NEW t \in Sessions, pc[t] = "done"
      PROVE  pc'[t] = "done" /\ subject'[t] = subject[t]
  BY <1>1, <1>2, <1>3 DEF Moves, Waiting, AuthTypeOK
<1>4. ASSUME NEW t \in Sessions, token'[t] # "none", token[t] # "none"
      PROVE  pc'[t] = "done" /\ subject'[t] \in Stored'
  <2>1. ASSUME NEW x \in Deletes, DeleteRemove(x) PROVE subject[x] # subject[t]
    BY <1>4, <2>1 DEF DeleteRemove, TokensOf
  <2>2. QED
    BY <1>3, <1>4, <2>1, StoredKept DEF TokenInv
<1>5. ASSUME NEW t \in Sessions, token'[t] # "none", token[t] = "none"
      PROVE  pc'[t] = "done" /\ subject'[t] \in Stored'
  <2>1. IssueTokens(t)
    BY <1>1, <1>5, AuthChanges DEF IssueTokens, RefreshRevoke, Logout, Revoked, DeleteRemove
  <2>2. subject[t] \in Stored /\ UNCHANGED <<user, subject>>
    BY <1>1, <1>5, <2>1 DEF IssueTokens
  <2>3. pc'[t] = "done"
    BY <1>1, <1>5, <2>1, <2>2 DEF IssueTokens, GoesTo, AuthTypeOK
  <2>4. QED
    BY <2>2, <2>3 DEF Stored
<1>6. QED
  BY <1>4, <1>5 DEF TokenInv

-----------------------------------------------------------------------------
(* Deleted users. A user that was ever stored or meant by a request is     *)
(* past its insert, and an update only has a copy of a user that is not    *)
(* gone.                                                                   *)

Past == {"issuing", "done", "verified", "errored", "aborted"}

GoneInv ==
  /\ \A u \in Stored \cup gone : pc[u] \in Past
  /\ \A c \in AuthCalls : subject[c] # Nobody => pc[subject[c]] \in Past
  /\ \A c \in Updates : pc[c] = "saving" => subject[c] \notin gone
  /\ DeletedForGood

\* A deleted user is past its insert, and no copy of it is left to be saved.
LEMMA GoneInvKept ==
  ASSUME UserInv, GoneInv, AuthStep
  PROVE  GoneInv'
<1>1. AuthTypeOK /\ user \in [Creators -> UserRow] /\ Creators \subseteq AuthCalls
      /\ Stored \subseteq Creators /\ gone \subseteq Creators /\ Sessions \subseteq AuthCalls
  BY DEF UserInv, AuthTypeOK, UserRow, AuthCalls, Stored, Sessions, Creators
<1>2. PICK c \in AuthCalls : AuthBy(c) /\ Moves(c)
  BY <1>1, AuthStepIsBy, AuthMoves
<1>3. ASSUME NEW x \in AuthCalls, pc[x] \in Past PROVE pc'[x] \in Past
  BY <1>1, <1>2, <1>3 DEF Moves, Past, Waiting, AuthTypeOK
<1>4. \A x \in AuthCalls \ {c} : pc'[x] = pc[x] /\ subject'[x] = subject[x]
  BY <1>1, <1>2 DEF Moves, AuthTypeOK
<1>5. \/ Stored' \subseteq Stored
      \/ \E y \in Creators : InsertUser(y) /\ Stored' \subseteq Stored \cup {y}
      \/ \E y \in Updates : UpdateSave(y) /\ Stored' \subseteq Stored \cup {subject[y]}
  <2>1. ASSUME NEW y \in Creators, InsertUser(y) PROVE Stored' \subseteq Stored \cup {y}
    BY <1>1, <2>1 DEF InsertUser, Stored
  <2>2. ASSUME NEW y \in Updates, UpdateSave(y) PROVE Stored' \subseteq Stored \cup {subject[y]}
    BY <1>1, <2>2 DEF UpdateSave, Stored
  <2>3. ASSUME NEW y \in Deletes, DeleteRemove(y) PROVE Stored' \subseteq Stored
    BY <1>1, <2>3 DEF DeleteRemove, Stored, UserRow, UserInv
  <2>4. QED
    BY <2>1, <2>2, <2>3, AuthChanges DEF Stored
<1>6. ASSUME NEW y \in Deletes, DeleteRemove(y)
      PROVE  /\ subject[y] \in Creators /\ subject[y] \notin Stored'
             /\ Stored' \subseteq Stored
             /\ gone' \subseteq gone \cup {subject[y]}
             /\ \A w \in Updates : pc[w] = "saving" => subject[w] \notin gone'
  <2>1. subject[y] \in Creators
    BY <1>6 DEF DeleteRemove, UserInv
  <2>2. subject[y] \notin Stored' /\ Stored' \subseteq Stored
    BY <1>1, <1>6, <2>1 DEF DeleteRemove, Stored, UserRow
  <2>3. QED
    BY <1>6, <2>1, <2>2 DEF DeleteRemove, GoneInv
<1>7. ASSUME NEW y \in Creators, InsertUser(y) PROVE pc[y] = "inserting" /\ pc'[y] \in Past
  BY <1>1, <1>7 DEF InsertUser, GoesTo, Past, AuthTypeOK
<1>8. ASSUME NEW x \in AuthCalls, subject'[x] # Nobody PROVE pc'[subject'[x]] \in Past
  <2>1. CASE subject'[x] = subject[x]
    <3>1. subject[x] \in AuthCalls /\ pc[subject[x]] \in Past
      BY <1>1, <1>8, <2>1 DEF GoneInv, AuthTypeOK
    <3>2. QED
      BY <1>3, <2>1, <3>1
  <2>2. CASE x = c /\ subject'[c] # subject[c]
    <3>1. \/ subject'[c] \in Stored
          \/ \E t \in Sessions : subject'[c] = subject[t]
          \/ c \in Creators /\ InsertUser(c) /\ subject'[c] = c
      BY <1>1, <1>2, <2>2 DEF AuthBy, RegisterEmail, RegisterPhone, InsertUser, UpdateSave,
         UpdateRead, DeleteRead, DeleteRemove, Login, OAuthLogin, IssueTokens,
         RefreshRevoke, RefreshRead, Logout, GenerateOtp, VerifyCount, VerifyConfirm,
         VerifyFind, VerifyRead, AbortAuth, IsAbout, Exists, AuthTypeOK
    <3>2. CASE subject'[c] \in Stored
      BY <1>1, <1>3, <2>2, <3>2 DEF GoneInv
    <3>3. ASSUME NEW t \in Sessions, subject'[c] = subject[t] PROVE pc'[subject'[x]] \in Past
      <4>1. subject[t] \in AuthCalls /\ pc[subject[t]] \in Past
        BY <1>1, <1>8, <2>2, <3>3 DEF GoneInv, AuthTypeOK
      <4>2. QED
        BY <1>3, <2>2, <3>3, <4>1
    <3>4. CASE c \in Creators /\ InsertUser(c) /\ subject'[c] = c
      BY <1>7, <2>2, <3>4
    <3>5. QED
      BY <3>1, <3>2, <3>3, <3>4
  <2>3. QED
    BY <1>4, <2>1, <2>2
<1>9. ASSUME NEW u \in Stored' \cup gone' PROVE pc'[u] \in Past
  <2>1. CASE u \in Stored \cup gone
    BY <1>1, <1>3, <2>1 DEF GoneInv
  <2>2. ASSUME NEW y \in AuthCalls, subject[y] \in Creators, u = subject[y] PROVE pc'[u] \in Past
    BY <1>1, <1>3, <2>2, AuthAssumption DEF GoneInv
  <2>3. ASSUME NEW y \in Updates, UpdateSave(y) PROVE subject[y] \in Creators
    BY <2>3 DEF UpdateSave, UserInv
  <2>4. CASE u \in Stored' \ Stored
    BY <1>5, <1>7, <2>2, <2>3, <2>4 DEF AuthCalls
  <2>5. CASE u \in gone' \ gone
    BY <1>6, <2>2, <2>5, AuthChanges DEF AuthCalls
  <2>6. QED
    BY <2>1, <2>4, <2>5
<1>10. ASSUME NEW w \in Updates, pc'[w] = "saving" PROVE subject'[w] \notin gone'
  <2>1. CASE w = c
    <3>1. PICK u \in Creators : UpdateRead(c, u)
      BY <1>2, <1>10, <2>1 DEF Moves
    <3>2. u \in Stored /\ subject'[c] = u /\ gone' = gone
      BY <1>1, <3>1 DEF UpdateRead, Exists, IsAbout, AuthTypeOK
    <3>3. QED
      BY <2>1, <3>2 DEF GoneInv, DeletedForGood
  <2>2. CASE w # c
    <3>1. pc[w] = "saving" /\ subject'[w] = subject[w]
      BY <1>4, <1>10, <2>2 DEF AuthCalls
    <3>2. QED
      BY <1>6, <3>1, AuthChanges DEF GoneInv
  <2>3. QED
    BY <2>1, <2>2
<1>11. DeletedForGood'
  <2>1. CASE UNCHANGED gone
    <3>1. ASSUME NEW y \in Creators, InsertUser(y) PROVE y \notin gone
      BY <1>7, <3>1 DEF GoneInv, Past
    <3>2. ASSUME NEW y \in Updates, UpdateSave(y) PROVE subject[y] \notin gone
      BY <3>2 DEF UpdateSave, GoneInv
    <3>3. QED
      BY <1>5, <2>1, <3>1, <3>2 DEF GoneInv, DeletedForGood
  <2>2. ASSUME NEW y \in Deletes, DeleteRemove(y) PROVE DeletedForGood'
    BY <1>6, <2>2 DEF GoneInv, DeletedForGood
  <2>3. QED
    BY <2>1, <2>2, AuthChanges
<1>12. QED
  BY <1>8, <1>9, <1>10, <1>11 DEF GoneInv

-----------------------------------------------------------------------------
(* Spent tokens. The token of a finished refresh or logout belongs to a    *)
(* session that has ended, so nobody makes it active again.                *)

SpentInv(c) ==
  /\ target[c] # Nobody => target[c] \in Sessions /\ pc[target[c]] = "done"
  /\ pc[c] = "revoking" => target[c] # Nobody
  /\ pc[c] \in {"issuing", "done"} => target[c] # Nobody /\ token[target[c]] # "active"

\* A token that was spent is never active again, and later refreshes of it
\* have been refused.
LEMMA SpentKept ==
  ASSUME UserInv, \A c \in Refreshes \cup Logouts : SpentInv(c), TokensSpentOnce, AuthStep
  PROVE  /\ \A c \in Refreshes \cup Logouts : SpentInv(c)'
         /\ TokensSpentOnce'
<1>1. AuthTypeOK /\ token \in [Sessions -> {"none", "active", "revoked"}]
      /\ Sessions \subseteq AuthCalls /\ Logouts \subseteq AuthCalls /\ Refreshes \subseteq Sessions
  BY DEF UserInv, AuthTypeOK, AuthCalls, Sessions
<1>2. PICK c \in AuthCalls : AuthBy(c) /\ Moves(c)
  BY <1>1, AuthStepIsBy, AuthMoves
<1>3. \A x \in AuthCalls \ {c} : pc'[x] = pc[x] /\ target'[x] = target[x]
  BY <1>1, <1>2 DEF Moves, AuthTypeOK
<1>4. ASSUME NEW t \in Sessions, pc[t] = "done"
      PROVE  pc'[t] = "done" /\ (token[t] # "active" => token'[t] # "active")
  <2>1. pc'[t] = "done"
    BY <1>1, <1>2, <1>4 DEF Moves, Waiting, AuthTypeOK
  <2>2. token'[t] = token[t] \/ token'[t] # "active"
    BY <1>1, <1>4, AuthChanges DEF IssueTokens, RefreshRevoke, Logout, Revoked, DeleteRemove
  <2>3. QED
    BY <2>1, <2>2
<1>5. ASSUME NEW x \in Refreshes \cup Logouts, x # c PROVE SpentInv(x)'
  BY <1>1, <1>3, <1>4, <1>5 DEF SpentInv
<1>6. ASSUME c \in Refreshes
      PROVE  IssueTokens(c) \/ RefreshRevoke(c) \/ AbortAuth(c)
               \/ \E t \in Sessions : RefreshRead(c, t)
  BY <1>2, <1>6, AuthAssumption DEF AuthBy, Creators, Sessions
<1>7. ASSUME c \in Logouts PROVE AbortAuth(c) \/ \E t \in Sessions : Logout(c, t)
  BY <1>2, <1>7, AuthAssumption DEF AuthBy, Creators, Sessions
<1>8. ASSUME c \in Refreshes \cup Logouts PROVE SpentInv(c)'
  <2>1. SpentInv(c) /\ Nobody \notin Sessions /\ c \in AuthCalls
    BY <1>1, <1>8, AuthAssumption
  <2>2. CASE AbortAuth(c)
    BY <1>1, <1>4, <2>1, <2>2 DEF AbortAuth, GoesTo, SpentInv, AuthTypeOK
  <2>3. CASE c \in Refreshes /\ IssueTokens(c)
    <3>1. /\ target[c] \in Sessions /\ token[target[c]] # "active" /\ pc[target[c]] = "done"
          /\ UNCHANGED target
      BY <2>1, <2>3 DEF IssueTokens, SpentInv
    <3>2. QED
      BY <1>4, <2>1, <3>1 DEF SpentInv
  <2>4. CASE c \in Refreshes /\ RefreshRevoke(c)
    <3>1. /\ target[c] \in Sessions /\ pc[target[c]] = "done" /\ UNCHANGED target
          /\ token'[target[c]] # "active"
      BY <1>1, <2>1, <2>4 DEF RefreshRevoke, Revoked, SpentInv
    <3>2. QED
      BY <1>4, <2>1, <3>1 DEF SpentInv
  <2>5. ASSUME NEW t \in Sessions, RefreshRead(c, t) PROVE SpentInv(c)'
    <3>1. pc[t] = "done" /\ target'[c] = t /\ pc'[c] \in {"revoking", "refused"}
      BY <1>1, <2>1, <2>5 DEF RefreshRead, GoesTo, AuthTypeOK
    <3>2. QED
      BY <1>4, <2>1, <3>1 DEF SpentInv
  <2>6. ASSUME NEW t \in Sessions, Logout(c, t) PROVE SpentInv(c)'
    <3>1. pc[t] = "done" /\ target'[c] = t /\ token'[t] # "active"
      BY <1>1, <2>1, <2>6 DEF Logout, Revoked, AuthTypeOK
    <3>2. QED
      BY <1>4, <2>1, <3>1 DEF SpentInv
  <2>7. QED
    BY <1>6, <1>7, <1>8, <2>2, <2>3, <2>4, <2>5, <2>6
<1>9. ASSUME NEW f \in Refreshes, before'[f] # {} PROVE pc'[f] = "refused"
  <2>1. CASE before[f] # {}
    BY <1>1, <1>2, <2>1 DEF TokensSpentOnce, Moves, Waiting, AuthTypeOK
  <2>2. CASE before[f] = {}
    <3>1. PICK t \in Sessions : f = c /\ RefreshRead(c, t)
      BY <1>2, <1>9, <2>2 DEF Moves
    <3>2. before'[c] = {x \in Refreshes \cup Logouts : pc[x] = "done" /\ target[x] = t}
      BY <1>1, <1>9, <3>1 DEF RefreshRead, AuthTypeOK
    <3>3. token[t] # "active"
      BY <1>9, <3>1, <3>2 DEF SpentInv
    <3>4. QED
      BY <1>1, <3>1, <3>3 DEF RefreshRead, Accepts, GoesTo, AuthTypeOK
  <2>3. QED
    BY <2>1, <2>2
<1>10. QED
  BY <1>5, <1>8, <1>9 DEF TokensSpentOnce

-----------------------------------------------------------------------------
(* One-time codes. While no two verifications work on a code, the one that *)
(* does has a copy of the row as it is, so what it writes loses nothing.   *)

On(g, places) == {v \in Verifies : target[v] = g /\ pc[v] \in places}
Accepted(g) == On(g, {"finding", "inserting", "verified"})
Counted(g) == On(g, {"counted"})
Reading == {v \in Verifies : target[v] # Nobody}

CodeInv(g) ==
  /\ \A v, w \in Holding(g) : v = w
  /\ \A v \in Holding(g) : /\ codeCopy[v] = code[g]
                           /\ pc[v] = "confirming" => ~code[g].verified
  /\ \A v \in Accepted(g) : code[g].verified
  /\ \A v, w \in Accepted(g) : v = w
  /\ code[g].attempts = Cardinality(Counted(g))

\* A handler that is not on a code does not matter to it.
LEMMA CodeUntouched ==
  ASSUME NEW g \in Generations, CodeInv(g), code'[g] = code[g],
         Holding(g)' \subseteq Holding(g), Accepted(g)' \subseteq Accepted(g),
         Counted(g)' = Counted(g),
         \A v \in Holding(g)' : codeCopy'[v] = codeCopy[v] /\ pc'[v] = pc[v]
  PROVE  CodeInv(g)'
BY DEF CodeInv

\* Every step keeps what is known of a code that no two verifications share.
LEMMA CodesKept ==
  ASSUME UserInv, IsFiniteSet(Reading), AuthStep, NEW g \in Generations \ overlapped',
         g \notin overlapped => CodeInv(g)
  PROVE  CodeInv(g)'
<1>1. AuthTypeOK /\ Verifies \subseteq AuthCalls /\ Nobody \notin Generations
      /\ code \in [Generations -> [attempts : Nat, verified : BOOLEAN]]
  BY AuthAssumption DEF UserInv, AuthTypeOK, AuthCalls
<1>2. PICK c \in AuthCalls : AuthBy(c) /\ Moves(c)
  BY <1>1, AuthStepIsBy, AuthMoves
<1>3. \A x \in AuthCalls \ {c} : pc'[x] = pc[x] /\ target'[x] = target[x]
  BY <1>1, <1>2 DEF Moves, AuthTypeOK
<1>4. CASE c \notin Verifies
  <2>1. /\ UNCHANGED <<code, codeCopy, overlapped>>
        /\ \A v \in Verifies : pc'[v] = pc[v] /\ target'[v] = target[v]
    BY <1>1, <1>2, <1>3, <1>4 DEF Moves
  <2>2. /\ Holding(g)' = Holding(g) /\ Accepted(g)' = Accepted(g)
        /\ Counted(g)' = Counted(g)
    BY <2>1 DEF Holding, Accepted, Counted, On
  <2>3. QED
    BY <1>1, <2>1, <2>2, CodeUntouched DEF Holding
<1>5. CASE c \in Verifies
  <2>1. \/ InsertUser(c) \/ VerifyCount(c) \/ VerifyConfirm(c) \/ VerifyFind(c)
        \/ AbortAuth(c) \/ \E e \in Generations \cup {Nobody} : VerifyRead(c, e)
    BY <1>2, <1>5, AuthAssumption DEF AuthBy, Creators, Sessions
  <2>2. \A v \in Verifies \ {c} : pc'[v] = pc[v] /\ target'[v] = target[v]
    BY <1>1, <1>3
  <2>3. g \notin overlapped
    BY <2>1 DEF InsertUser, VerifyCount, VerifyConfirm, VerifyFind, AbortAuth, VerifyRead
  <2>4. CodeInv(g)
    BY <2>3
  <2>5. /\ c \notin Accepted(g) => pc[c] \notin {"finding", "inserting", "verified"} \/ target[c] # g
        /\ c \in AuthCalls /\ pc[c] \in Waiting \cup {"idle"}
    BY <1>2, <1>5 DEF Accepted, On, Moves
  <2>6. CASE InsertUser(c) \/ VerifyFind(c) \/ AbortAuth(c)
    <3>1. /\ UNCHANGED <<code, codeCopy, target>>
          /\ pc'[c] \in {"inserting", "verified", "errored", "aborted"}
          /\ pc'[c] \in {"inserting", "verified"} => pc[c] \in {"inserting", "finding"}
      BY <1>1, <1>5, <2>6 DEF InsertUser, VerifyFind, AbortAuth, GoesTo, AuthTypeOK
    <3>2. /\ Holding(g)' \subseteq Holding(g) \ {c} /\ Accepted(g)' \subseteq Accepted(g)
          /\ Counted(g)' = Counted(g)
      BY <1>5, <2>2, <2>5, <3>1 DEF Holding, Accepted, Counted, On, Waiting
    <3>3. QED
      BY <2>2, <2>4, <3>1, <3>2, CodeUntouched DEF Holding
  <2>7. ASSUME NEW e \in Generations \cup {Nobody}, VerifyRead(c, e) PROVE CodeInv(g)'
    <3>1. /\ code' = code /\ pc[c] = "idle"
          /\ pc'[c] \in {"refused", "confirming", "counting"}
          /\ \A v \in Verifies \ {c} : codeCopy'[v] = codeCopy[v]
      BY <1>1, <1>5, <2>7 DEF VerifyRead, GoesTo, AuthTypeOK
    <3>2. Accepted(g)' = Accepted(g) /\ Counted(g)' = Counted(g)
      BY <2>2, <3>1 DEF Accepted, Counted, On
    <3>3. CASE target'[c] # g
      <4>1. Holding(g)' = Holding(g) /\ c \notin Holding(g)
        BY <2>2, <3>1, <3>3 DEF Holding
      <4>2. QED
        BY <2>2, <2>4, <3>1, <3>2, <4>1, CodeUntouched DEF Holding
    <3>4. CASE target'[c] = g
      <4>1. latest[PhoneOf[c]] = g
        BY <1>1, <2>5, <2>7, <3>4 DEF VerifyRead, AuthTypeOK
      <4>2. Holding(g) = {} /\ codeCopy'[c] = code[g]
            /\ (pc'[c] = "confirming" => ~code[g].verified)
        BY <1>1, <1>5, <2>7, <4>1 DEF VerifyRead, Good, GoesTo, AuthTypeOK
      <4>3. Holding(g)' \subseteq {c}
        BY <2>2, <4>2 DEF Holding
      <4>4. QED
        BY <2>4, <3>1, <3>2, <4>2, <4>3 DEF CodeInv
    <3>5. QED
      BY <3>3, <3>4
  <2>8. CASE (VerifyCount(c) \/ VerifyConfirm(c)) /\ target[c] # g
    <3>1. /\ UNCHANGED <<codeCopy, target>> /\ pc'[c] \in {"counted", "finding"}
          /\ code'[g] = code[g]
      BY <1>1, <1>5, <2>8 DEF VerifyCount, VerifyConfirm, GoesTo, AuthTypeOK
    <3>2. /\ Holding(g)' = Holding(g) /\ Accepted(g)' = Accepted(g) /\ c \notin Holding(g)
          /\ Counted(g)' = Counted(g)
      BY <2>2, <2>8, <3>1 DEF Holding, Accepted, Counted, On
    <3>3. QED
      BY <2>2, <2>4, <3>1, <3>2, CodeUntouched DEF Holding
  <2>9. CASE VerifyCount(c) /\ target[c] = g
    <3>1. c \in Holding(g) /\ c \notin Counted(g) /\ c \notin Accepted(g)
      BY <1>5, <2>9 DEF VerifyCount, Holding, Counted, Accepted, On
    <3>2. codeCopy[c] = code[g]
      BY <2>4, <3>1 DEF CodeInv
    <3>3. /\ pc'[c] = "counted" /\ UNCHANGED <<target, codeCopy>>
          /\ code'[g] = [code[g] EXCEPT !.attempts = @ + 1]
      BY <1>1, <2>5, <2>9, <3>2 DEF VerifyCount, GoesTo, AuthTypeOK
    <3>4. Holding(g)' = {}
      BY <2>2, <2>4, <2>9, <3>1, <3>3 DEF CodeInv, Holding
    <3>5. Accepted(g)' = Accepted(g) /\ Counted(g)' = Counted(g) \cup {c}
      BY <1>5, <2>2, <2>9, <3>1, <3>3 DEF Accepted, Counted, On
    <3>6. IsFiniteSet(Counted(g))
      <4>1. Counted(g) \subseteq Reading
        BY <1>1 DEF Counted, On, Reading
      <4>2. QED
        BY <4>1, FS_Subset
    <3>7. Cardinality(Counted(g)') = Cardinality(Counted(g)) + 1
      BY <3>1, <3>5, <3>6, FS_AddElement
    <3>8. /\ code'[g].attempts = code[g].attempts + 1
          /\ code'[g].verified = code[g].verified
      BY <1>1, <3>3
    <3>9. QED
      BY <2>4, <3>4, <3>5, <3>7, <3>8 DEF CodeInv
  <2>10. CASE VerifyConfirm(c) /\ target[c] = g
    <3>1. c \in Holding(g) /\ c \notin Counted(g) /\ pc[c] = "confirming"
      BY <1>5, <2>10 DEF VerifyConfirm, Holding, Counted, On
    <3>2. codeCopy[c] = code[g] /\ Accepted(g) = {}
      BY <2>4, <3>1 DEF CodeInv
    <3>3. /\ pc'[c] = "finding" /\ UNCHANGED <<target, codeCopy>>
          /\ code'[g] = [code[g] EXCEPT !.verified = TRUE]
      BY <1>1, <2>5, <2>10, <3>2 DEF VerifyConfirm, GoesTo, AuthTypeOK
    <3>4. Holding(g)' = {}
      BY <2>2, <2>4, <2>10, <3>1, <3>3 DEF CodeInv, Holding
    <3>5. Accepted(g)' \subseteq {c} /\ Counted(g)' = Counted(g)
      BY <2>2, <2>10, <3>1, <3>2, <3>3 DEF Accepted, Counted, On
    <3>6. code'[g].attempts = code[g].attempts /\ code'[g].verified
      BY <1>1, <3>3
    <3>7. QED
      BY <2>4, <3>4, <3>5, <3>6 DEF CodeInv
  <2>11. QED
    BY <2>1, <2>6, <2>7, <2>8, <2>9, <2>10
<1>6. QED
  BY <1>4, <1>5

\* A step adds one verification at most to those that have read a code.
LEMMA ReadingKept == UserInv /\ IsFiniteSet(Reading) /\ AuthStep => IsFiniteSet(Reading')
<1> SUFFICES ASSUME UserInv, IsFiniteSet(Reading), AuthStep PROVE IsFiniteSet(Reading')
  OBVIOUS
<1>1. AuthTypeOK /\ Verifies \subseteq AuthCalls
  BY DEF UserInv, AuthCalls
<1>2. PICK c \in AuthCalls : Moves(c)
  BY <1>1, AuthStepIsBy, AuthMoves
<1>3. Reading' \subseteq Reading \cup {c}
  BY <1>1, <1>2 DEF Reading, Moves
<1>4. IsFiniteSet(Reading \cup {c})
  BY FS_AddElement
<1>5. QED
  BY <1>3, <1>4, FS_Subset

-----------------------------------------------------------------------------
(* Keys and challenges. What a step of a biometric request may do to the   *)
(* tables and to its handler.                                              *)

Entered(c) == step[c] \notin {"idle", "unused"}
BioEnds == {"done", "refused", "wrong", "verified", "errored", "aborted"}

\* A step moves one handler that has not ended.
LEMMA BioMoves ==
  ASSUME Bio!BioTypeOK, Bio!BioNext
  PROVE  \E c \in Bio!BioCalls, to \in Bio!BioWaiting \cup BioEnds :
           /\ step[c] \in Bio!BioWaiting \cup {"idle"}
           /\ step' = [step EXCEPT ![c] = to]
<1> USE DEF Bio!BioCalls, Bio!BioWaiting, BioEnds, Bio!StepsTo, Bio!Begins
<1>1. ASSUME NEW k \in KeyRegs, Bio!RegisterRead(k) \/ Bio!RegisterSave(k)
      PROVE  \E to \in Bio!BioWaiting \cup BioEnds :
               /\ step[k] \in Bio!BioWaiting \cup {"idle"}
               /\ step' = [step EXCEPT ![k] = to]
  BY <1>1 DEF Bio!RegisterRead, Bio!RegisterSave, Bio!SaveHeld
<1>2. ASSUME NEW x \in Removals, Bio!RemoveKeys(x)
      PROVE  step[x] = "idle" /\ step' = [step EXCEPT ![x] = "done"]
  BY <1>2 DEF Bio!RemoveKeys
<1>3. ASSUME NEW h \in Challenges, Bio!ChallengeRead(h) \/ Bio!ChallengeInsert(h)
      PROVE  \E to \in Bio!BioWaiting \cup BioEnds :
               /\ step[h] \in Bio!BioWaiting \cup {"idle"}
               /\ step' = [step EXCEPT ![h] = to]
  BY <1>3 DEF Bio!ChallengeRead, Bio!ChallengeInsert
<1>4. ASSUME NEW b \in Responses, NEW h \in Challenges, NEW k \in KeyRegs,
             Bio!RespondRead(b, h, k)
      PROVE  \E to \in Bio!BioWaiting \cup BioEnds :
               /\ step[b] \in Bio!BioWaiting \cup {"idle"}
               /\ step' = [step EXCEPT ![b] = to]
  BY <1>4 DEF Bio!RespondRead
<1>5. ASSUME NEW b \in Responses,
             \/ Bio!RespondFind(b) \/ Bio!RespondJudge(b) \/ Bio!RespondThrow(b)
             \/ Bio!RespondRemove(b) \/ Bio!RespondTouch(b)
      PROVE  \E to \in Bio!BioWaiting \cup BioEnds :
               /\ step[b] \in Bio!BioWaiting \cup {"idle"}
               /\ step' = [step EXCEPT ![b] = to]
  BY <1>5 DEF Bio!RespondFind, Bio!RespondJudge, Bio!RespondThrow,
     Bio!RespondRemove, Bio!RespondTouch, Bio!SaveHeld
<1>6. ASSUME NEW c \in Bio!BioCalls, Bio!AbortBio(c)
      PROVE  step[c] \in Bio!BioWaiting /\ step' = [step EXCEPT ![c] = "aborted"]
  BY <1>6 DEF Bio!AbortBio
<1>7. QED
  BY <1>1, <1>2, <1>3, <1>4, <1>5, <1>6 DEF Bio!BioNext

\* A step saves the row that one handler holds, or removes keys, or leaves
\* the table of keys alone.
LEMMA KeyChanges ==
  ASSUME Bio!BioNext
  PROVE  \/ UNCHANGED <<key, dropped>>
         \/ \E c \in KeyRegs \cup Responses :
              /\ step[c] \in {"saving", "touching"}
              /\ Bio!CanSave(DeviceOf[c], held[c])
              /\ key' = [key EXCEPT ![DeviceOf[c]] = held[c]]
              /\ UNCHANGED <<dropped, held>>
         \/ UNCHANGED held /\ \E devices \in SUBSET Devices : Bio!DropKeys(devices)
<1>1. ASSUME NEW x \in Removals, Bio!RemoveKeys(x)
      PROVE  UNCHANGED held /\ \E devices \in SUBSET Devices : Bio!DropKeys(devices)
  <2>1. {DeviceOf[x]} \in SUBSET Devices
    BY IdentityAssumption
  <2>2. {e \in Devices : Owner[e] = Owner[DeviceOf[x]]} \in SUBSET Devices
    OBVIOUS
  <2>3. QED
    BY <1>1, <2>1, <2>2 DEF Bio!RemoveKeys
<1>2. ASSUME NEW c \in KeyRegs \cup Responses, NEW next,
             step[c] \in {"saving", "touching"}, Bio!SaveHeld(c, next),
             UNCHANGED <<dropped, held>>
      PROVE  \/ UNCHANGED <<key, dropped>>
             \/ /\ Bio!CanSave(DeviceOf[c], held[c])
                /\ key' = [key EXCEPT ![DeviceOf[c]] = held[c]]
                /\ UNCHANGED <<dropped, held>>
  BY <1>2 DEF Bio!SaveHeld
<1>3. ASSUME NEW k \in KeyRegs, Bio!RegisterSave(k)
      PROVE  step[k] \in {"saving", "touching"} /\ Bio!SaveHeld(k, "done")
               /\ UNCHANGED <<dropped, held>>
  BY <1>3 DEF Bio!RegisterSave
<1>4. ASSUME NEW b \in Responses, Bio!RespondTouch(b)
      PROVE  step[b] \in {"saving", "touching"} /\ Bio!SaveHeld(b, "verified")
               /\ UNCHANGED <<dropped, held>>
  BY <1>4 DEF Bio!RespondTouch
<1>5. CASE ~(\E k \in KeyRegs : Bio!RegisterSave(k))
             /\ ~(\E b \in Responses : Bio!RespondTouch(b))
             /\ ~(\E x \in Removals : Bio!RemoveKeys(x))
  BY <1>5 DEF Bio!BioNext, Bio!RegisterRead, Bio!ChallengeRead, Bio!ChallengeInsert,
     Bio!RespondRead, Bio!RespondFind, Bio!RespondJudge, Bio!RespondThrow,
     Bio!RespondRemove, Bio!AbortBio
<1>6. CASE \E k \in KeyRegs : Bio!RegisterSave(k)
  BY <1>6, <1>2, <1>3
<1>7. CASE \E b \in Responses : Bio!RespondTouch(b)
  BY <1>7, <1>2, <1>4
<1>8. CASE \E x \in Removals : Bio!RemoveKeys(x)
  BY <1>8, <1>1
<1>9. QED
  BY <1>5, <1>6, <1>7, <1>8

MaySave == {"saving", "finding", "checking", "removing", "touching"}

\* Only a registration or a response that begins takes hold of a row, which it
\* may save later.
LEMMA HeldChanges ==
  ASSUME Bio!BioTypeOK, Bio!BioNext
  PROVE  \/ /\ UNCHANGED <<held, asked, signer, answered>>
            /\ \A c \in KeyRegs \cup Responses : step'[c] \in MaySave => step[c] \in MaySave
         \/ \E k \in KeyRegs : Bio!RegisterRead(k)
         \/ \E b \in Responses, h \in Challenges, k \in KeyRegs : Bio!RespondRead(b, h, k)
<1> DEFINE Kept == \A c \in KeyRegs \cup Responses : step'[c] \in MaySave => step[c] \in MaySave
<1> USE DEF Bio!BioTypeOK, Bio!BioCalls, Bio!StepsTo, MaySave
<1>1. ASSUME NEW k \in KeyRegs, Bio!RegisterSave(k)
      PROVE  UNCHANGED <<held, asked, signer, answered>> /\ Kept
  BY <1>1 DEF Bio!RegisterSave, Bio!SaveHeld
<1>2. ASSUME NEW x \in Removals, Bio!RemoveKeys(x)
      PROVE  UNCHANGED <<held, asked, signer, answered>> /\ Kept
  BY <1>2 DEF Bio!RemoveKeys
<1>3. ASSUME NEW h \in Challenges, Bio!ChallengeRead(h) \/ Bio!ChallengeInsert(h)
      PROVE  UNCHANGED <<held, asked, signer, answered>> /\ Kept
  BY <1>3 DEF Bio!ChallengeRead, Bio!ChallengeInsert
<1>4. ASSUME NEW b \in Responses,
             \/ Bio!RespondFind(b) \/ Bio!RespondJudge(b) \/ Bio!RespondThrow(b)
             \/ Bio!RespondRemove(b) \/ Bio!RespondTouch(b)
      PROVE  UNCHANGED <<held, asked, signer, answered>> /\ Kept
  BY <1>4 DEF Bio!RespondFind, Bio!RespondJudge, Bio!RespondThrow, Bio!RespondRemove,
     Bio!RespondTouch, Bio!SaveHeld
<1>5. ASSUME NEW c \in Bio!BioCalls, Bio!AbortBio(c)
      PROVE  UNCHANGED <<held, asked, signer, answered>> /\ Kept
  BY <1>5 DEF Bio!AbortBio
<1> HIDE DEF Kept
<1>6. QED
  BY <1>1, <1>2, <1>3, <1>4, <1>5 DEF Bio!BioNext, Kept

\* Removing keys leaves rows of the right type.
LEMMA DropTypes ==
  ASSUME Bio!BioTypeOK, NEW devices \in SUBSET Devices, Bio!DropKeys(devices)
  PROVE  /\ key' \in [Devices -> [row : KeyRegs \cup {Nobody}, public : KeyRegs \cup {Nobody}]]
         /\ dropped' \subseteq KeyRegs
<1>1. Bio!NoRow \in [row : KeyRegs \cup {Nobody}, public : KeyRegs \cup {Nobody}]
  BY DEF Bio!NoRow
<1>2. Bio!FreeRows(devices) \subseteq KeyRegs \cup {Nobody}
  BY DEF Bio!FreeRows, Bio!BioTypeOK
<1>3. QED
  BY <1>1, <1>2 DEF Bio!DropKeys, Bio!BioTypeOK

\* The types of the tables, the handlers and their copies.
LEMMA BioTypes == Bio!BioTypeOK /\ Bio!BioNext => Bio!BioTypeOK'
<1> SUFFICES ASSUME Bio!BioTypeOK, Bio!BioNext PROVE Bio!BioTypeOK'
  OBVIOUS
<1> DEFINE Row == [row : KeyRegs \cup {Nobody}, public : KeyRegs \cup {Nobody}]
<1>1. /\ key \in [Devices -> Row]
      /\ held \in [KeyRegs \cup Responses -> Row]
      /\ \A c \in Bio!BioCalls : DeviceOf[c] \in Devices
  BY IdentityAssumption DEF Bio!BioTypeOK, Bio!BioCalls
<1>2. key' \in [Devices -> Row] /\ dropped' \subseteq KeyRegs
  BY <1>1, KeyChanges, DropTypes DEF Bio!BioTypeOK
<1>3. held' \in [KeyRegs \cup Responses -> Row]
  <2>1. ASSUME NEW k \in KeyRegs, Bio!RegisterRead(k) PROVE held' \in [KeyRegs \cup Responses -> Row]
    <3>1. key[DeviceOf[k]].row \in KeyRegs \cup {Nobody}
      BY <1>1 DEF Bio!BioCalls
    <3>2. QED
      BY <1>1, <2>1, <3>1 DEF Bio!RegisterRead, Bio!Holds
  <2>2. ASSUME NEW b \in Responses, NEW h \in Challenges, NEW k \in KeyRegs,
               Bio!RespondRead(b, h, k)
        PROVE  held' \in [KeyRegs \cup Responses -> Row]
    <3>1. key[DeviceOf[b]] \in Row
      BY <1>1 DEF Bio!BioCalls
    <3>2. QED
      BY <1>1, <2>2, <3>1 DEF Bio!RespondRead, Bio!Holds
  <2>3. QED
    BY <1>1, <2>1, <2>2, HeldChanges
<1>4. step' \in [Bio!BioCalls -> Bio!BioWaiting \cup {"unused", "idle", "done", "refused",
                             "wrong", "verified", "errored", "aborted"}]
  BY BioMoves DEF Bio!BioTypeOK, BioEnds
<1>5. challenge' \in [Challenges -> {"none", "open"}]
  BY DEF Bio!BioTypeOK, Bio!BioNext, Bio!RegisterRead, Bio!RegisterSave, Bio!RemoveKeys,
     Bio!ChallengeRead, Bio!ChallengeInsert, Bio!RespondRead, Bio!RespondFind,
     Bio!RespondJudge, Bio!Close, Bio!RespondThrow, Bio!RespondRemove, Bio!RespondTouch,
     Bio!AbortBio
<1>6. /\ asked' \in [Responses -> Challenges \cup {Nobody}]
      /\ signer' \in [Responses -> KeyRegs \cup {Nobody}]
      /\ answered' \in [Responses -> SUBSET Responses]
  <2>1. ASSUME NEW k \in KeyRegs, Bio!RegisterRead(k)
        PROVE  UNCHANGED <<asked, signer, answered>>
    BY <2>1 DEF Bio!RegisterRead
  <2>2. ASSUME NEW b \in Responses, NEW h \in Challenges, NEW k \in KeyRegs,
               Bio!RespondRead(b, h, k)
        PROVE  /\ asked' = [asked EXCEPT ![b] = h]
               /\ signer' = [signer EXCEPT ![b] = k]
               /\ answered' = [answered EXCEPT ![b] = Bio!Judged(h)]
               /\ Bio!Judged(h) \subseteq Responses
    BY <2>2 DEF Bio!RespondRead, Bio!Judged
  <2>3. /\ asked \in [Responses -> Challenges \cup {Nobody}]
        /\ signer \in [Responses -> KeyRegs \cup {Nobody}]
        /\ answered \in [Responses -> SUBSET Responses]
    BY DEF Bio!BioTypeOK
  <2>4. QED
    BY <2>1, <2>2, <2>3, HeldChanges
<1>7. QED
  BY <1>2, <1>3, <1>4, <1>5, <1>6 DEF Bio!BioTypeOK

\* Keys are saved for users that exist.
LEMMA BioKeepsOwners ==
  ASSUME Bio!BioTypeOK, Bio!KeysHaveUsers, Bio!BioNext, Stored' = Stored
  PROVE  Bio!KeysHaveUsers'
<1>1. ASSUME NEW devices \in SUBSET Devices, Bio!DropKeys(devices) PROVE Bio!KeysHaveUsers'
  BY <1>1 DEF Bio!DropKeys, Bio!KeysHaveUsers, Bio!NoRow
<1>2. ASSUME NEW c \in KeyRegs \cup Responses,
             Bio!CanSave(DeviceOf[c], held[c]),
             key' = [key EXCEPT ![DeviceOf[c]] = held[c]]
      PROVE  Bio!KeysHaveUsers'
  BY <1>2 DEF Bio!CanSave, Bio!KeysHaveUsers, Bio!NoRow, Bio!BioTypeOK
<1>3. CASE UNCHANGED key
  BY <1>3 DEF Bio!KeysHaveUsers, Bio!NoRow
<1>4. QED
  BY <1>1, <1>2, <1>3, KeyChanges

-----------------------------------------------------------------------------
(* Removed keys. A row is named by the registration that has inserted it,  *)
(* so it is never new again; it belongs to one device, and a row that was  *)
(* removed is held by no handler that could still save it.                 *)

IsRowOf(r, d) == r # Nobody => DeviceOf[r] = d /\ Entered(r)

RowInv ==
  /\ \A d \in Devices : IsRowOf(key[d].row, d)
  /\ \A c \in KeyRegs \cup Responses :
       /\ IsRowOf(held[c].row, DeviceOf[c])
       /\ step[c] \in MaySave => held[c].row \notin dropped
  /\ \A r \in dropped : Entered(r)
  /\ Bio!RemovedKeysStayRemoved

\* A handler that has begun never becomes new.
LEMMA EnteredStays ==
  ASSUME Bio!BioTypeOK, Bio!BioNext, NEW k \in KeyRegs, Entered(k)
  PROVE  Entered(k)'
BY BioMoves DEF Bio!BioTypeOK, Entered, Bio!BioWaiting, BioEnds, Bio!BioCalls

\* Removing keys, by a request or with their user.
LEMMA DropKeepsRows ==
  ASSUME Bio!BioTypeOK, RowInv, NEW devices \in SUBSET Devices, Bio!DropKeys(devices),
         UNCHANGED held, \A k \in KeyRegs : Entered(k) => Entered(k)',
         \A c \in KeyRegs \cup Responses : step'[c] \in MaySave => step[c] \in MaySave
  PROVE  RowInv'
<1> DEFINE Free == Bio!FreeRows(devices) \ {Nobody}
<1>1. Free \subseteq KeyRegs /\ \A r \in Free : Entered(r)
  BY DEF Bio!FreeRows, Bio!BioTypeOK, RowInv, IsRowOf
<1>2. ASSUME NEW d \in Devices PROVE IsRowOf(key[d].row, d)' /\ key'[d].row \notin dropped'
  <2>1. CASE d \in devices
    BY <1>1, <2>1, IdentityAssumption DEF Bio!DropKeys, Bio!NoRow, IsRowOf, Bio!BioTypeOK
  <2>2. CASE d \notin devices
    <3>1. key'[d] = key[d] /\ key[d].row \in KeyRegs \cup {Nobody}
      BY <2>2 DEF Bio!DropKeys, Bio!BioTypeOK
    <3>2. key[d].row \notin Free
      BY <2>2 DEF Bio!FreeRows, RowInv, IsRowOf
    <3>3. QED
      BY <3>1, <3>2, IdentityAssumption
         DEF Bio!DropKeys, RowInv, IsRowOf, Bio!RemovedKeysStayRemoved
  <2>3. QED
    BY <2>1, <2>2
<1>3. ASSUME NEW c \in KeyRegs \cup Responses
      PROVE  /\ IsRowOf(held[c].row, DeviceOf[c])'
             /\ step'[c] \in MaySave => held'[c].row \notin dropped'
  <2>1. held[c].row \in KeyRegs \cup {Nobody}
    BY DEF Bio!BioTypeOK
  <2>2. step[c] \in MaySave => held[c].row \notin Free
    BY DEF Bio!FreeRows, MaySave
  <2>3. QED
    BY <2>1, <2>2 DEF RowInv, IsRowOf, Bio!DropKeys
<1>4. \A r \in dropped' : Entered(r)'
  BY <1>1 DEF Bio!DropKeys, RowInv, Bio!BioTypeOK
<1>5. QED
  BY <1>2, <1>3, <1>4 DEF RowInv, Bio!RemovedKeysStayRemoved

\* Saving a row that a handler holds.
LEMMA SaveKeepsRows ==
  ASSUME Bio!BioTypeOK, RowInv, NEW c \in KeyRegs \cup Responses,
         step[c] \in {"saving", "touching"}, key' = [key EXCEPT ![DeviceOf[c]] = held[c]],
         UNCHANGED <<dropped, held>>, \A k \in KeyRegs : Entered(k) => Entered(k)',
         \A x \in KeyRegs \cup Responses : step'[x] \in MaySave => step[x] \in MaySave
  PROVE  RowInv'
<1>1. DeviceOf[c] \in Devices
  BY IdentityAssumption
<1>2. \A x \in KeyRegs \cup Responses : held[x].row \in KeyRegs \cup {Nobody}
  BY DEF Bio!BioTypeOK
<1>3. \A d \in Devices : key[d].row \in KeyRegs \cup {Nobody}
  BY DEF Bio!BioTypeOK
<1>4. ASSUME NEW d \in Devices PROVE IsRowOf(key[d].row, d)' /\ key'[d].row \notin dropped'
  BY <1>1, <1>2, <1>3 DEF RowInv, IsRowOf, MaySave, Bio!RemovedKeysStayRemoved, Bio!BioTypeOK
<1>5. ASSUME NEW x \in KeyRegs \cup Responses
      PROVE  /\ IsRowOf(held[x].row, DeviceOf[x])'
             /\ step'[x] \in MaySave => held'[x].row \notin dropped'
  BY <1>2 DEF RowInv, IsRowOf
<1>6. \A r \in dropped' : Entered(r)'
  BY DEF RowInv, Bio!BioTypeOK
<1>7. QED
  BY <1>4, <1>5, <1>6 DEF RowInv, Bio!RemovedKeysStayRemoved

\* A handler takes hold of a row.
LEMMA HoldKeepsRows ==
  ASSUME Bio!BioTypeOK, RowInv, NEW c \in KeyRegs \cup Responses, NEW row,
         held' = [held EXCEPT ![c] = row], UNCHANGED <<key, dropped>>,
         IsRowOf(row.row, DeviceOf[c])', row.row \notin dropped,
         \A k \in KeyRegs : Entered(k) => Entered(k)',
         \A x \in (KeyRegs \cup Responses) \ {c} : step'[x] = step[x]
  PROVE  RowInv'
<1>1. \A x \in KeyRegs \cup Responses : held[x].row \in KeyRegs \cup {Nobody}
  BY DEF Bio!BioTypeOK
<1>2. \A d \in Devices : key[d].row \in KeyRegs \cup {Nobody}
  BY DEF Bio!BioTypeOK
<1>3. ASSUME NEW d \in Devices PROVE IsRowOf(key[d].row, d)' /\ key'[d].row \notin dropped'
  BY <1>2 DEF RowInv, IsRowOf, Bio!RemovedKeysStayRemoved
<1>4. ASSUME NEW x \in KeyRegs \cup Responses
      PROVE  /\ IsRowOf(held[x].row, DeviceOf[x])'
             /\ step'[x] \in MaySave => held'[x].row \notin dropped'
  <2>1. CASE x = c
    BY <2>1 DEF Bio!BioTypeOK
  <2>2. CASE x # c
    BY <1>1, <2>2 DEF RowInv, IsRowOf, Bio!BioTypeOK
  <2>3. QED
    BY <2>1, <2>2
<1>5. \A r \in dropped' : Entered(r)'
  BY DEF RowInv, Bio!BioTypeOK
<1>6. QED
  BY <1>3, <1>4, <1>5 DEF RowInv, Bio!RemovedKeysStayRemoved

\* Every step of a biometric request.
LEMMA BioKeepsRows == Bio!BioTypeOK /\ RowInv /\ Bio!BioNext => RowInv'
<1> SUFFICES ASSUME Bio!BioTypeOK, RowInv, Bio!BioNext PROVE RowInv'
  OBVIOUS
<1>0. \A k \in KeyRegs : Entered(k) => Entered(k)'
  BY EnteredStays
<1>1. ASSUME NEW k \in KeyRegs, Bio!RegisterRead(k) PROVE RowInv'
  <2>1. PICK r : r = key[DeviceOf[k]].row
    OBVIOUS
  <2>2. PICK row : row = [row |-> IF r = Nobody THEN k ELSE r, public |-> k]
    OBVIOUS
  <2>3. /\ held' = [held EXCEPT ![k] = row] /\ UNCHANGED <<key, dropped>>
        /\ step[k] = "idle" /\ step' = [step EXCEPT ![k] = "saving"]
    BY <1>1, <2>1, <2>2 DEF Bio!RegisterRead, Bio!Holds, Bio!Begins, Bio!StepsTo
  <2>4. DeviceOf[k] \in Devices /\ r \in KeyRegs \cup {Nobody}
    BY <2>1, IdentityAssumption DEF Bio!BioTypeOK
  <2>5. Entered(k)' /\ \A x \in (KeyRegs \cup Responses) \ {k} : step'[x] = step[x]
    BY <2>3 DEF Entered, Bio!BioTypeOK, Bio!BioCalls
  <2>6. k \notin dropped
    BY <2>3 DEF RowInv, Entered
  <2>7. IsRowOf(row.row, DeviceOf[k])' /\ row.row \notin dropped
    BY <1>0, <2>1, <2>2, <2>4, <2>5, <2>6 DEF RowInv, IsRowOf, Bio!RemovedKeysStayRemoved
  <2>8. QED
    BY <1>0, <2>3, <2>5, <2>7, HoldKeepsRows
<1>2. ASSUME NEW b \in Responses, NEW h \in Challenges, NEW k \in KeyRegs,
             Bio!RespondRead(b, h, k)
      PROVE  RowInv'
  <2>1. /\ held' = [held EXCEPT ![b] = key[DeviceOf[b]]] /\ UNCHANGED <<key, dropped>>
        /\ \E to : step' = [step EXCEPT ![b] = to]
    BY <1>2 DEF Bio!RespondRead, Bio!Holds, Bio!StepsTo
  <2>2. DeviceOf[b] \in Devices /\ key[DeviceOf[b]].row \in KeyRegs \cup {Nobody}
    BY IdentityAssumption DEF Bio!BioTypeOK
  <2>3. \A x \in (KeyRegs \cup Responses) \ {b} : step'[x] = step[x]
    BY <2>1 DEF Bio!BioTypeOK, Bio!BioCalls
  <2>4. /\ IsRowOf(key[DeviceOf[b]].row, DeviceOf[b])'
        /\ key[DeviceOf[b]].row \notin dropped
    BY <1>0, <2>1, <2>2 DEF RowInv, IsRowOf, Bio!RemovedKeysStayRemoved
  <2>5. QED
    BY <1>0, <2>1, <2>3, <2>4, HoldKeepsRows
<1>3. CASE /\ UNCHANGED held
           /\ \A c \in KeyRegs \cup Responses : step'[c] \in MaySave => step[c] \in MaySave
  <2>1. CASE UNCHANGED <<key, dropped>>
    <3>1. \A x \in KeyRegs \cup Responses : held[x].row \in KeyRegs \cup {Nobody}
      BY DEF Bio!BioTypeOK
    <3>2. \A d \in Devices : key[d].row \in KeyRegs \cup {Nobody}
      BY DEF Bio!BioTypeOK
    <3>3. QED
      BY <1>0, <1>3, <2>1, <3>1, <3>2
         DEF RowInv, IsRowOf, Bio!RemovedKeysStayRemoved, Bio!BioTypeOK
  <2>2. QED
    BY <1>0, <1>3, <2>1, KeyChanges, SaveKeepsRows, DropKeepsRows
<1>4. QED
  BY <1>1, <1>2, <1>3, HeldChanges

-----------------------------------------------------------------------------
(* Challenges. A response names a challenge that was made; once one of its *)
(* signatures is judged, the challenge is gone for good.                   *)

Answering == {"finding", "checking", "removing", "touching", "verified", "wrong"}

AskInv(b) ==
  /\ step[b] \in Answering \/ answered[b] # {} =>
       asked[b] \in Challenges /\ step[asked[b]] = "done"
  /\ step[b] \in {"touching", "verified", "wrong"} \/ answered[b] # {} =>
       challenge[asked[b]] = "none"
  /\ answered[b] # {} => step[b] \in {"finding", "refused", "aborted"}

\* A challenge that was made is not made again, and one that is gone stays so.
LEMMA ClosedStays ==
  ASSUME Bio!BioTypeOK, Bio!BioNext, NEW h \in Challenges, step[h] = "done"
  PROVE  step'[h] = "done" /\ (challenge[h] = "none" => challenge'[h] = "none")
<1>1. step'[h] = "done"
  BY BioMoves DEF Bio!BioTypeOK, Bio!BioCalls, Bio!BioWaiting
<1>2. ASSUME NEW g \in Challenges, Bio!ChallengeInsert(g)
      PROVE  challenge'[h] = challenge[h]
  BY <1>2 DEF Bio!ChallengeInsert, Bio!BioTypeOK
<1>3. ASSUME NEW b \in Responses, Bio!RespondJudge(b) \/ Bio!RespondRemove(b)
      PROVE  challenge[h] = "none" => challenge'[h] = "none"
  BY <1>3 DEF Bio!RespondJudge, Bio!Close, Bio!RespondRemove, Bio!BioTypeOK
<1>4. CASE UNCHANGED challenge
  BY <1>1, <1>4
<1>5. UNCHANGED challenge \/ (\E g \in Challenges : Bio!ChallengeInsert(g))
        \/ \E b \in Responses : Bio!RespondJudge(b) \/ Bio!RespondRemove(b)
  BY DEF Bio!BioNext, Bio!RegisterRead, Bio!RegisterSave, Bio!RemoveKeys,
     Bio!ChallengeRead, Bio!RespondRead, Bio!RespondFind, Bio!RespondThrow,
     Bio!RespondTouch, Bio!AbortBio
<1>6. QED
  BY <1>1, <1>2, <1>3, <1>4, <1>5

\* The steps of a response.
LEMMA ResponseKeepsAsked ==
  ASSUME Bio!BioTypeOK, NEW b \in Responses, AskInv(b), Bio!BioNext,
         \/ Bio!RespondFind(b) \/ Bio!RespondJudge(b) \/ Bio!RespondThrow(b)
         \/ Bio!RespondRemove(b) \/ Bio!RespondTouch(b)
  PROVE  AskInv(b)'
<1> DEFINE h == asked[b]
<1>1. UNCHANGED <<asked, answered>> /\ step[b] \in Answering /\ b \in Bio!BioCalls
  BY DEF Bio!RespondFind, Bio!RespondJudge, Bio!RespondThrow, Bio!RespondRemove,
     Bio!RespondTouch, Answering, Bio!BioCalls
<1>2. h \in Challenges /\ step'[h] = "done"
      /\ (challenge[h] = "none" => challenge'[h] = "none")
  BY <1>1, ClosedStays DEF AskInv
<1>3. CASE Bio!RespondFind(b)
  BY <1>1, <1>2, <1>3 DEF Bio!RespondFind, AskInv, Bio!StepsTo, Bio!BioTypeOK
<1>4. CASE Bio!RespondJudge(b)
  BY <1>1, <1>2, <1>4 DEF Bio!RespondJudge, Bio!Close, AskInv, Bio!StepsTo, Bio!BioTypeOK
<1>5. CASE Bio!RespondThrow(b)
  BY <1>1, <1>2, <1>5 DEF Bio!RespondThrow, AskInv, Bio!StepsTo, Bio!BioTypeOK
<1>6. CASE Bio!RespondRemove(b)
  BY <1>1, <1>2, <1>6 DEF Bio!RespondRemove, AskInv, Bio!StepsTo, Bio!BioTypeOK
<1>7. CASE Bio!RespondTouch(b)
  BY <1>1, <1>2, <1>7 DEF Bio!RespondTouch, Bio!SaveHeld, AskInv, Bio!StepsTo, Bio!BioTypeOK
<1>8. QED
  BY <1>3, <1>4, <1>5, <1>6, <1>7

\* A response begins: those judged before it have closed the challenge.
LEMMA RespondKeepsAsked ==
  ASSUME Bio!BioTypeOK, \A x \in Responses : AskInv(x), Bio!BioNext,
         NEW b \in Responses, NEW h \in Challenges, NEW k \in KeyRegs,
         Bio!RespondRead(b, h, k)
  PROVE  AskInv(b)'
<1>1. /\ step[h] = "done" /\ asked' = [asked EXCEPT ![b] = h]
      /\ answered' = [answered EXCEPT ![b] = Bio!Judged(h)] /\ UNCHANGED challenge
      /\ step'[b] \in {"refused", "finding"} /\ step[b] = "idle" /\ b # h
  BY DEF Bio!RespondRead, Bio!StepsTo, Bio!Begins, Bio!BioTypeOK, Bio!BioCalls
<1>2. step'[h] = "done"
  BY <1>1, ClosedStays
<1>3. Bio!Judged(h) # {} => challenge[h] = "none"
  BY DEF Bio!Judged, AskInv
<1>4. asked'[b] = h /\ answered'[b] = Bio!Judged(h)
  BY <1>1 DEF Bio!BioTypeOK
<1>5. QED
  BY <1>1, <1>2, <1>3, <1>4 DEF AskInv, Answering

\* Every step of a biometric request.
LEMMA BioKeepsAsked ==
  ASSUME Bio!BioTypeOK, \A x \in Responses : AskInv(x), Bio!BioNext
  PROVE  \A b \in Responses : AskInv(b)'
<1> SUFFICES ASSUME NEW b \in Responses PROVE AskInv(b)'
  OBVIOUS
<1>1. CASE \E h \in Challenges, k \in KeyRegs : Bio!RespondRead(b, h, k)
  BY <1>1, RespondKeepsAsked
<1>2. CASE \/ Bio!RespondFind(b) \/ Bio!RespondJudge(b) \/ Bio!RespondThrow(b)
           \/ Bio!RespondRemove(b) \/ Bio!RespondTouch(b)
  BY <1>2, ResponseKeepsAsked
<1>3. CASE /\ asked'[b] = asked[b] /\ answered'[b] = answered[b]
           /\ step'[b] \in Answering => step'[b] = step[b]
           /\ step[b] \in {"finding", "refused", "aborted"} =>
                step'[b] \in {"finding", "refused", "aborted"}
  BY <1>3, ClosedStays DEF AskInv, Answering
<1>4. QED
  <2>1. ASSUME NEW c \in Bio!BioCalls, Bio!AbortBio(c) PROVE AskInv(b)'
    <3>1. /\ UNCHANGED <<asked, answered>> /\ step' = [step EXCEPT ![c] = "aborted"]
          /\ step[c] \in Bio!BioWaiting
      BY <2>1 DEF Bio!AbortBio, Bio!StepsTo
    <3>2. QED
      BY <1>3, <3>1 DEF Bio!BioTypeOK, Bio!BioCalls, Answering
  <2>2. ASSUME NEW x \in Responses \ {b}, NEW h \in Challenges, NEW k \in KeyRegs,
               Bio!RespondRead(x, h, k)
        PROVE  AskInv(b)'
    <3>1. /\ asked'[b] = asked[b] /\ answered'[b] = answered[b] /\ step'[b] = step[b]
      BY <2>2 DEF Bio!RespondRead, Bio!BioTypeOK, Bio!BioCalls, Bio!StepsTo
    <3>2. QED
      BY <1>3, <3>1
  <2>3. ASSUME NEW x \in Responses \ {b},
               \/ Bio!RespondFind(x) \/ Bio!RespondJudge(x) \/ Bio!RespondThrow(x)
               \/ Bio!RespondRemove(x) \/ Bio!RespondTouch(x)
        PROVE  AskInv(b)'
    <3>1. /\ asked'[b] = asked[b] /\ answered'[b] = answered[b] /\ step'[b] = step[b]
      BY <2>3 DEF Bio!RespondFind, Bio!RespondJudge, Bio!RespondThrow, Bio!SaveHeld,
         Bio!RespondRemove, Bio!RespondTouch, Bio!BioTypeOK, Bio!BioCalls, Bio!StepsTo
    <3>2. QED
      BY <1>3, <3>1
  <2>4. ASSUME NEW x \in KeyRegs \cup Removals \cup Challenges,
               \/ x \in KeyRegs /\ (Bio!RegisterRead(x) \/ Bio!RegisterSave(x))
               \/ x \in Removals /\ Bio!RemoveKeys(x)
               \/ x \in Challenges /\ (Bio!ChallengeRead(x) \/ Bio!ChallengeInsert(x))
        PROVE  AskInv(b)'
    <3>1. /\ UNCHANGED <<asked, answered>>
          /\ step'[b] \in Answering => step'[b] = step[b]
          /\ step[x] \in {"idle", "saving", "inserting"}
          /\ \A y \in Responses \ {x} : step'[y] = step[y]
      BY <2>4 DEF Bio!RegisterRead, Bio!RegisterSave, Bio!RemoveKeys, Bio!SaveHeld,
         Bio!ChallengeRead, Bio!ChallengeInsert, Bio!BioTypeOK, Bio!BioCalls,
         Bio!StepsTo, Bio!Begins, Answering
    <3>2. QED
      BY <1>3, <3>1
  <2>5. QED
    BY <1>1, <1>2, <2>1, <2>2, <2>3, <2>4 DEF Bio!BioNext

-----------------------------------------------------------------------------
(* The gateway: users with what hangs on them.                             *)

\* The inductive invariant: what it says of users, sessions and codes, and what
\* of keys and challenges.
AuthInv ==
  /\ UserInv /\ UsersAreUnique /\ TokenInv /\ GoneInv
  /\ (\A c \in Refreshes \cup Logouts : SpentInv(c)) /\ TokensSpentOnce
  /\ IsFiniteSet(Reading) /\ \A g \in Generations \ overlapped : CodeInv(g)

BioInv ==
  /\ Bio!BioTypeOK /\ Bio!KeysHaveUsers /\ RowInv
  /\ \A b \in Responses : AskInv(b)

\* The initial states have both parts.
LEMMA AuthInvInit == ASSUME NEW mix, AuthInit(mix) PROVE AuthInv
<1>1. AuthTypeOK /\ user \in [Creators -> UserRow]
  <2>1. \A u \in Creators : NoUser(u) \in UserRow
    BY DEF NoUser, UserRow
  <2>2. user \in [Creators -> UserRow]
    BY <2>1 DEF AuthInit
  <2>3. /\ code \in [Generations -> [attempts : Nat, verified : BOOLEAN]]
        /\ codeCopy \in [Verifies -> [attempts : Nat, verified : BOOLEAN]]
    BY DEF AuthInit, FreshCode
  <2>4. QED
    BY <2>2, <2>3 DEF AuthInit, AuthTypeOK, UserRow
<1>2. /\ Stored = {} /\ gone = {} /\ overlapped = {} /\ \A c \in AuthCalls : subject[c] = Nobody
      /\ \A c \in AuthCalls : target[c] = Nobody /\ pc[c] \in {"idle", "unused"}
      /\ Updates \cup Deletes \cup Sessions \cup Verifies \cup Refreshes \cup Logouts \subseteq AuthCalls
  BY DEF AuthInit, NoUser, Stored, AuthCalls, Sessions
<1>3. UserInv /\ UsersAreUnique /\ TokenInv /\ GoneInv
  BY <1>1, <1>2 DEF UserInv, UsersAreUnique, TokenInv, GoneInv, DeletedForGood, AuthInit
<1>4. (\A c \in Refreshes \cup Logouts : SpentInv(c)) /\ TokensSpentOnce
  BY <1>2 DEF SpentInv, TokensSpentOnce, AuthInit
<1>5. Reading = {}
  BY <1>2 DEF Reading
<1>6. ASSUME NEW g \in Generations PROVE CodeInv(g)
  <2>1. Holding(g) = {} /\ Accepted(g) = {} /\ Counted(g) = {}
    BY <1>2 DEF Holding, Accepted, Counted, On
  <2>2. code[g].attempts = 0
    BY DEF AuthInit, FreshCode
  <2>3. QED
    BY <2>1, <2>2, FS_EmptySet DEF CodeInv
<1>7. QED
  BY <1>3, <1>4, <1>5, <1>6, FS_EmptySet DEF AuthInv

\* Keys and challenges, likewise.
LEMMA BioInvInit == ASSUME NEW mix, Bio!BioInit(mix) PROVE BioInv
<1>1. Bio!BioTypeOK
  <2>1. /\ key \in [Devices -> [row : KeyRegs \cup {Nobody}, public : KeyRegs \cup {Nobody}]]
        /\ held \in [KeyRegs \cup Responses ->
                       [row : KeyRegs \cup {Nobody}, public : KeyRegs \cup {Nobody}]]
    BY DEF Bio!BioInit, Bio!NoRow
  <2>2. QED
    BY <2>1 DEF Bio!BioInit, Bio!BioTypeOK
<1>2. Bio!KeysHaveUsers
  BY DEF Bio!BioInit, Bio!KeysHaveUsers
<1>3. RowInv
  BY DEF Bio!BioInit, Bio!NoRow, RowInv, IsRowOf, Bio!RemovedKeysStayRemoved
<1>4. \A b \in Responses : AskInv(b)
  BY DEF Bio!BioInit, Bio!BioCalls, AskInv, Answering
<1>5. QED
  BY <1>1, <1>2, <1>3, <1>4 DEF BioInv

\* Steps of requests about users keep the part about users.
LEMMA AuthInvKept == AuthInv /\ AuthStep => AuthInv'
<1> SUFFICES ASSUME AuthInv, AuthStep PROVE AuthInv'
  OBVIOUS
<1> USE DEF AuthInv
<1>1. UserInv' /\ UsersAreUnique' /\ TokenInv' /\ GoneInv'
  BY UserInvKept, UniqueKept, TokenInvKept, GoneInvKept
<1>2. (\A c \in Refreshes \cup Logouts : SpentInv(c)') /\ TokensSpentOnce'
  BY SpentKept
<1>3. IsFiniteSet(Reading')
  BY ReadingKept
<1>4. \A g \in Generations \ overlapped' : CodeInv(g)'
  BY CodesKept
<1>5. QED
  BY <1>1, <1>2, <1>3, <1>4

\* Steps of requests about keys leave it alone.
LEMMA AuthInvUnchanged == AuthInv /\ UNCHANGED authVars => AuthInv'
<1> SUFFICES ASSUME AuthInv, UNCHANGED authVars PROVE AuthInv'
  OBVIOUS
<1> USE DEF AuthInv, authVars
<1>1. UserInv' /\ TokenInv' /\ GoneInv'
  BY DEF UserInv, AuthTypeOK, Stored, TokenInv, GoneInv, DeletedForGood
<1>2. UsersAreUnique'
  BY DEF UsersAreUnique, Unique, Stored
<1>3. (\A c \in Refreshes \cup Logouts : SpentInv(c)') /\ TokensSpentOnce'
  BY DEF SpentInv, TokensSpentOnce
<1>4. IsFiniteSet(Reading)'
  BY DEF Reading
<1>5. \A g \in Generations : CodeInv(g)' <=> CodeInv(g)
  BY DEF CodeInv, Holding, Accepted, Counted, On
<1>6. QED
  BY <1>1, <1>2, <1>3, <1>4, <1>5

\* Steps of requests about keys keep the part about keys.
LEMMA BioInvKept == BioInv /\ Bio!BioNext /\ UNCHANGED authVars => BioInv'
<1> SUFFICES ASSUME BioInv, Bio!BioNext, UNCHANGED authVars PROVE BioInv'
  OBVIOUS
<1>1. Stored' = Stored
  BY DEF authVars, Stored
<1>2. QED
  BY <1>1, BioTypes, BioKeepsOwners, BioKeepsRows, BioKeepsAsked DEF BioInv

\* Requests about users leave the keys alone, and only a deletion removes a user.
LEMMA AuthKeepsBio == UserInv /\ BioInv /\ AuthNext /\ UNCHANGED bio => BioInv'
<1> SUFFICES ASSUME UserInv, BioInv, AuthNext, UNCHANGED bio PROVE BioInv'
  OBVIOUS
<1>1. Stored \subseteq Stored'
  <2>1. user \in [Creators -> UserRow]
    BY DEF UserInv, AuthTypeOK, UserRow
  <2>2. ASSUME NEW c \in Creators, InsertUser(c) PROVE Stored \subseteq Stored'
    BY <2>1, <2>2 DEF InsertUser, NoUser, Stored
  <2>3. ASSUME NEW c \in Updates, UpdateSave(c) PROVE Stored \subseteq Stored'
    BY <2>1, <2>3 DEF UpdateSave, UserInv, Stored
  <2>4. \/ UNCHANGED user
        \/ \E c \in Creators : InsertUser(c)
        \/ \E c \in Updates : UpdateSave(c)
    BY DEF AuthNext, RegisterEmail, RegisterPhone, UpdateRead, DeleteRead, Login,
       OAuthLogin, IssueTokens, RefreshRevoke, RefreshRead, Logout, GenerateOtp,
       VerifyCount, VerifyConfirm, VerifyFind, VerifyRead, AbortAuth
  <2>5. QED
    BY <2>2, <2>3, <2>4 DEF Stored
<1>2. Bio!BioTypeOK'
  BY DEF BioInv, Bio!BioTypeOK, bio
<1>3. Bio!KeysHaveUsers'
  BY <1>1 DEF BioInv, Bio!KeysHaveUsers, bio
<1>4. RowInv' /\ \A b \in Responses : AskInv(b)'
  BY DEF BioInv, RowInv, IsRowOf, Entered, AskInv, Bio!RemovedKeysStayRemoved, bio
<1>5. QED
  BY <1>2, <1>3, <1>4 DEF BioInv

\* The removal of a user takes the keys along.
LEMMA RemoveUserKeepsBio ==
  ASSUME UserInv, BioInv, NEW c \in Deletes, RemoveUser(c)
  PROVE  BioInv'
<1> DEFINE u == subject[c]
           devices == {d \in Devices : Owner[d] = u}
<1>1. /\ DeleteRemove(c) /\ u \in Creators /\ Bio!DropKeys(devices)
      /\ UNCHANGED <<challenge, step, held, asked, signer, answered>>
  BY DEF RemoveUser, DeleteRemove, Bio!Cascade, UserInv
<1>2. Stored \ {u} \subseteq Stored'
  BY <1>1 DEF DeleteRemove, Stored, UserInv, AuthTypeOK
<1>3. Bio!BioTypeOK'
  <2>1. key' \in [Devices -> [row : KeyRegs \cup {Nobody}, public : KeyRegs \cup {Nobody}]]
        /\ dropped' \subseteq KeyRegs
    BY <1>1, DropTypes DEF BioInv
  <2>2. QED
    BY <1>1, <2>1 DEF BioInv, Bio!BioTypeOK
<1>4. Bio!KeysHaveUsers'
  BY <1>1, <1>2 DEF BioInv, Bio!KeysHaveUsers, Bio!DropKeys, Bio!NoRow
<1>5. RowInv'
  BY <1>1, DropKeepsRows DEF BioInv, Entered
<1>6. \A b \in Responses : AskInv(b)'
  BY <1>1 DEF BioInv, AskInv
<1>7. QED
  BY <1>3, <1>4, <1>5, <1>6 DEF BioInv

\* The inductive invariant of users, sessions, codes, keys and challenges.
THEOREM IdentityInvariant == Spec => [](AuthInv /\ BioInv)
<1>1. Init => AuthInv /\ BioInv
  BY AuthInvInit, BioInvInit DEF Init
<1>2. AuthInv /\ BioInv /\ [Next]_vars => AuthInv' /\ BioInv'
  <2> SUFFICES ASSUME AuthInv, BioInv, [Next]_vars PROVE AuthInv' /\ BioInv'
    OBVIOUS
  <2>1. CASE AuthNext /\ UNCHANGED bio
    BY <2>1, AuthInvKept, AuthKeepsBio DEF AuthStep, AuthInv
  <2>2. CASE Bio!BioNext /\ UNCHANGED authVars
    BY <2>2, AuthInvUnchanged, BioInvKept
  <2>3. ASSUME NEW c \in Deletes, RemoveUser(c) PROVE AuthInv' /\ BioInv'
    BY <2>3, AuthInvKept, RemoveUserKeepsBio DEF AuthStep, AuthInv, RemoveUser
  <2>4. CASE UNCHANGED vars
    <3>1. UNCHANGED authVars /\ UNCHANGED bio
      BY <2>4 DEF vars
    <3>2. BioInv'
      BY <3>1 DEF BioInv, Bio!BioTypeOK, Bio!KeysHaveUsers, RowInv, IsRowOf, Entered,
         AskInv, Bio!RemovedKeysStayRemoved, bio, authVars, Stored
    <3>3. QED
      BY <3>1, <3>2, AuthInvUnchanged
  <2>5. QED
    BY <2>1, <2>2, <2>3, <2>4 DEF Next
<1>3. QED
  BY <1>1, <1>2, PTL DEF Spec

\* No row outlives what it belongs to, and users are unique, whatever
\* registrations, logins, updates and deletions of any number of users overlap.
THEOREM RowsAlwaysHaveOwners == Spec => []RowsHaveOwners
<1>1. AuthInv /\ BioInv => RowsHaveOwners
  BY DEF AuthInv, BioInv, UserInv, TokenInv, TokensHaveUsers, RowsHaveOwners
<1>2. QED
  BY <1>1, IdentityInvariant, PTL

\* Users and keys that were removed while no handler held a copy stay removed.
THEOREM RemovalsAreFinal == Spec => []RemovedForGood
<1>1. AuthInv /\ BioInv => RemovedForGood
  BY DEF AuthInv, BioInv, GoneInv, RowInv, RemovedForGood
<1>2. QED
  BY <1>1, IdentityInvariant, PTL

\* A refresh token that was used or revoked is refused afterwards.
THEOREM TokensAreSpent == Spec => []TokensSpentOnce
<1>1. AuthInv => TokensSpentOnce
  BY DEF AuthInv
<1>2. QED
  BY <1>1, IdentityInvariant, PTL

\* A code is accepted once and its attempts are the refused codes, for any number
\* of verifications of which no two work on the code at once.
THEOREM CodesAreSpent == Spec => []CodesSingleUse
<1>1. AuthInv => CodesSingleUse
  <2> SUFFICES ASSUME AuthInv, NEW g \in Generations \ overlapped
               PROVE  /\ Cardinality(Accepted(g)) <= 1
                      /\ code[g].attempts = Cardinality(Counted(g))
    BY DEF CodesSingleUse, Accepted, Counted, On
  <2>1. CodeInv(g)
    BY DEF AuthInv
  <2>2. CASE Accepted(g) = {}
    BY <2>1, <2>2, FS_EmptySet DEF CodeInv
  <2>3. ASSUME NEW v \in Accepted(g) PROVE Cardinality(Accepted(g)) = 1
    <3>1. Accepted(g) = {v}
      BY <2>1, <2>3 DEF CodeInv
    <3>2. QED
      BY <3>1, FS_Singleton
  <2>4. QED
    BY <2>1, <2>2, <2>3 DEF CodeInv
<1>2. QED
  BY <1>1, IdentityInvariant, PTL

\* A challenge that was answered is refused afterwards.
THEOREM ChallengesAreSpent == Spec => []ChallengeAnsweredOnce
<1>1. BioInv => ChallengeAnsweredOnce
  BY DEF BioInv, AskInv, ChallengeAnsweredOnce, Bio!ChallengeAnsweredOnce
<1>2. QED
  BY <1>1, IdentityInvariant, PTL

-----------------------------------------------------------------------------
(***************************************************************************)
(* The payment methods of one user.  What a handler on its way will still  *)
(* write decides what its end leaves: without an overlap it is alone and   *)
(* knows the default; with overlaps, a user without a default owes it to a *)
(* removal or to a change of default that is not finished.                 *)
(***************************************************************************)

\* Without an overlap, at most one call is in progress.
AddersApart ==
  \A m, n \in Methods :
    ~Resting(adder[m]) /\ ~Resting(adder[n]) => m = n
SettersApart ==
  \A s, u \in Setters :
    ~Resting(setter[s]) /\ ~Resting(setter[u]) => s = u
RemoversApart ==
  \A r, q \in Removers :
    ~Resting(remover[r]) /\ ~Resting(remover[q]) => r = q
KindsApart ==
  /\ \A m \in Methods, s \in Setters :
       Resting(adder[m]) \/ Resting(setter[s])
  /\ \A m \in Methods, r \in Removers :
       Resting(adder[m]) \/ Resting(remover[r])
  /\ \A s \in Setters, r \in Removers :
       Resting(setter[s]) \/ Resting(remover[r])
Alone == AddersApart /\ SettersApart /\ RemoversApart /\ KindsApart

\* A call that is alone will mark a method only where no other is marked.
MarksAlone ==
  /\ \A m \in Methods :
       adder[m].pc = "saving" /\ adder[m].first => isDefault = {}
  /\ \A s \in Setters : setter[s].pc = "setting" => isDefault = {}
  /\ \A r \in Removers :
       remover[r].pc \in {"replacing", "marking"}
         => isDefault \subseteq {remover[r].method}

SequentialInv == ~overlaps => Alone /\ MarksAlone

\* A change of default is between its two updates.
Changing == \E s \in Setters : setter[s].pc = "setting"

\* A method is there, or was when an addition counted.
HadMethods ==
  \/ stored # {}
  \/ \E m \in Methods : adder[m].pc = "saving" /\ ~adder[m].first

DefaultInv == HadMethods /\ ~forgone /\ ~Changing => isDefault # {}

MethodsInv ==
  /\ MethodsTypeOK
  /\ OneDefault
  /\ SequentialInv
  /\ DefaultInv

-----------------------------------------------------------------------------
(* Each part of the invariant, step by step.                               *)

\* The initial states have the invariant.
LEMMA MethodsInvInit == MethodsInit => MethodsInv
<1> SUFFICES ASSUME MethodsInit PROVE MethodsInv
  OBVIOUS
<1> USE DEF MethodsInit
<1>1. MethodsTypeOK
  BY DEF MethodsTypeOK
<1>2. Alone
  BY DEF Alone, AddersApart, SettersApart, RemoversApart, KindsApart, Resting
<1>3. OneDefault /\ MarksAlone
  BY DEF OneDefault, MarksAlone
<1>4. DefaultInv
  BY DEF DefaultInv, HadMethods
<1>5. QED
  BY <1>1, <1>2, <1>3, <1>4 DEF MethodsInv, SequentialInv

\* Every step keeps the types, and the defaults among the rows.
LEMMA MethodsTypeStep ==
  ASSUME MethodsTypeOK, [MethodsNext]_methodVars
  PROVE  MethodsTypeOK'
<1> USE DEF MethodsTypeOK
<1>1. ASSUME NEW m \in Methods, AddCount(m) PROVE MethodsTypeOK'
  BY <1>1 DEF AddCount, Starts
<1>2. ASSUME NEW m \in Methods, AddSave(m) PROVE MethodsTypeOK'
  BY <1>2 DEF AddSave
<1>3. ASSUME NEW s \in Setters, NEW m \in Methods, SetClear(s, m)
      PROVE  MethodsTypeOK'
  BY <1>3 DEF SetClear, Starts
<1>4. ASSUME NEW s \in Setters, SetMark(s) PROVE MethodsTypeOK'
  BY <1>4 DEF SetMark
<1>5. ASSUME NEW r \in Removers, NEW m \in Methods, RemoveFind(r, m)
      PROVE  MethodsTypeOK'
  BY <1>5 DEF RemoveFind, Starts
<1>6. ASSUME NEW r \in Removers, RemoveReplace(r) PROVE MethodsTypeOK'
  BY <1>6 DEF RemoveReplace, Remover
<1>7. ASSUME NEW r \in Removers, RemoveMark(r) PROVE MethodsTypeOK'
  BY <1>7 DEF RemoveMark, Remover
<1>8. ASSUME NEW r \in Removers, RemoveDelete(r) PROVE MethodsTypeOK'
  BY <1>8 DEF RemoveDelete, Remover
<1>9. CASE MethodsError
  <2>1. UNCHANGED <<stored, isDefault, overlaps>> /\ faults' \in Nat
    BY <1>9 DEF MethodsError
  <2>2. adder' \in [Methods -> [pc : {"idle", "saving", "ended"},
                                first : BOOLEAN]]
    BY <1>9 DEF MethodsError
  <2>3. /\ setter' \in [Setters -> [pc : {"idle", "setting", "ended"},
                                    method : Methods \cup {None}]]
        /\ forgone' \in BOOLEAN
    BY <1>9 DEF MethodsError
  <2>4. remover' \in [Removers ->
          [pc : {"idle", "replacing", "marking", "removing", "ended"},
           method : Methods \cup {None}]]
    BY <1>9 DEF MethodsError
  <2>5. QED
    BY <2>1, <2>2, <2>3, <2>4
<1>10. CASE UNCHANGED methodVars
  BY <1>10 DEF methodVars
<1>11. QED
  BY <1>1, <1>2, <1>3, <1>4, <1>5, <1>6, <1>7, <1>8, <1>9, <1>10
  DEF MethodsNext

\* Every step leaves a call that never overlaps alone.
LEMMA AloneStep ==
  ASSUME MethodsTypeOK, ~overlaps => Alone, [MethodsNext]_methodVars
  PROVE  (~overlaps => Alone)'
<1> SUFFICES ASSUME ~overlaps' PROVE Alone'
  OBVIOUS
<1> USE DEF MethodsTypeOK, Alone, AddersApart, SettersApart, RemoversApart,
            KindsApart, Resting
<1>1. ASSUME NEW m \in Methods, AddCount(m) PROVE Alone'
  BY <1>1 DEF AddCount, Starts, Quiet
<1>2. ASSUME NEW m \in Methods, AddSave(m) PROVE Alone'
  BY <1>2 DEF AddSave
<1>3. ASSUME NEW s \in Setters, NEW m \in Methods, SetClear(s, m)
      PROVE  Alone'
  BY <1>3 DEF SetClear, Starts, Quiet
<1>4. ASSUME NEW s \in Setters, SetMark(s) PROVE Alone'
  BY <1>4 DEF SetMark
<1>5. ASSUME NEW r \in Removers, NEW m \in Methods, RemoveFind(r, m)
      PROVE  Alone'
  BY <1>5 DEF RemoveFind, Starts, Quiet
<1>6. ASSUME NEW r \in Removers, RemoveReplace(r) PROVE Alone'
  BY <1>6 DEF RemoveReplace, Remover
<1>7. ASSUME NEW r \in Removers, RemoveMark(r) PROVE Alone'
  BY <1>7 DEF RemoveMark, Remover
<1>8. ASSUME NEW r \in Removers, RemoveDelete(r) PROVE Alone'
  BY <1>8 DEF RemoveDelete, Remover
<1>9. CASE MethodsError
  BY <1>9 DEF MethodsError
<1>10. CASE UNCHANGED methodVars
  BY <1>10 DEF methodVars
<1>11. QED
  BY <1>1, <1>2, <1>3, <1>4, <1>5, <1>6, <1>7, <1>8, <1>9, <1>10
  DEF MethodsNext

\* A call that is alone marks a method only where no other is marked.
LEMMA SequentialStep ==
  ASSUME MethodsTypeOK, OneDefault, SequentialInv, [MethodsNext]_methodVars
  PROVE  OneDefault' /\ SequentialInv'
<1>1. (~overlaps => Alone)'
  BY AloneStep DEF SequentialInv
<1> SUFFICES ASSUME ~overlaps'
             PROVE  (\A m, n \in isDefault : m = n)' /\ MarksAlone'
  BY <1>1 DEF OneDefault, SequentialInv
<1> DEFINE One == \A m, n \in isDefault : m = n
<1>2. ~overlaps
  BY DEF MethodsNext, AddCount, AddSave, SetClear, SetMark, RemoveFind,
         RemoveReplace, RemoveMark, RemoveDelete, Remover, MethodsError,
         methodVars, Starts, MethodsTypeOK
<1>3. One /\ Alone /\ MarksAlone
  BY <1>2 DEF OneDefault, SequentialInv
<1> USE <1>3 DEF MethodsTypeOK, MarksAlone, Alone, AddersApart, SettersApart,
                 RemoversApart, KindsApart, Resting
<1>4. ASSUME NEW m \in Methods, AddCount(m) PROVE One' /\ MarksAlone'
  BY <1>4, <1>1 DEF AddCount
<1>5. ASSUME NEW m \in Methods, AddSave(m) PROVE One' /\ MarksAlone'
  BY <1>5 DEF AddSave
<1>6. ASSUME NEW s \in Setters, NEW m \in Methods, SetClear(s, m)
      PROVE  One' /\ MarksAlone'
  BY <1>6 DEF SetClear
<1>7. ASSUME NEW s \in Setters, SetMark(s) PROVE One' /\ MarksAlone'
  BY <1>7 DEF SetMark
<1>8. ASSUME NEW r \in Removers, NEW m \in Methods, RemoveFind(r, m)
      PROVE  One' /\ MarksAlone'
  BY <1>8, <1>1 DEF RemoveFind
<1>9. ASSUME NEW r \in Removers, RemoveReplace(r) PROVE One' /\ MarksAlone'
  BY <1>9 DEF RemoveReplace, Remover
<1>10. ASSUME NEW r \in Removers, RemoveMark(r) PROVE One' /\ MarksAlone'
  BY <1>10 DEF RemoveMark, Remover
<1>11. ASSUME NEW r \in Removers, RemoveDelete(r) PROVE One' /\ MarksAlone'
  BY <1>11 DEF RemoveDelete, Remover
<1>12. CASE MethodsError
  BY <1>12 DEF MethodsError
<1>13. CASE UNCHANGED methodVars
  BY <1>13 DEF methodVars
<1>14. QED
  BY <1>4, <1>5, <1>6, <1>7, <1>8, <1>9, <1>10, <1>11, <1>12, <1>13
  DEF MethodsNext

\* A default is lost only with a removal or a change that did not finish.
LEMMA DefaultStep ==
  ASSUME MethodsTypeOK, DefaultInv, [MethodsNext]_methodVars
  PROVE  DefaultInv'
<1> USE DEF MethodsTypeOK, DefaultInv, HadMethods, Changing
<1>1. ASSUME NEW m \in Methods, AddCount(m) PROVE DefaultInv'
  BY <1>1 DEF AddCount
<1>2. ASSUME NEW m \in Methods, AddSave(m) PROVE DefaultInv'
  BY <1>2 DEF AddSave
<1>3. ASSUME NEW s \in Setters, NEW m \in Methods, SetClear(s, m)
      PROVE  DefaultInv'
  BY <1>3 DEF SetClear
<1>4. ASSUME NEW s \in Setters, SetMark(s) PROVE DefaultInv'
  BY <1>4 DEF SetMark
<1>5. ASSUME NEW r \in Removers, NEW m \in Methods, RemoveFind(r, m)
      PROVE  DefaultInv'
  BY <1>5 DEF RemoveFind
<1>6. ASSUME NEW r \in Removers, RemoveReplace(r) PROVE DefaultInv'
  BY <1>6 DEF RemoveReplace, Remover
<1>7. ASSUME NEW r \in Removers, RemoveMark(r) PROVE DefaultInv'
  BY <1>7 DEF RemoveMark, Remover
<1>8. ASSUME NEW r \in Removers, RemoveDelete(r) PROVE DefaultInv'
  BY <1>8 DEF RemoveDelete, Remover
<1>9. CASE MethodsError
  BY <1>9 DEF MethodsError
<1>10. CASE UNCHANGED methodVars
  BY <1>10 DEF methodVars
<1>11. QED
  BY <1>1, <1>2, <1>3, <1>4, <1>5, <1>6, <1>7, <1>8, <1>9, <1>10
  DEF MethodsNext

-----------------------------------------------------------------------------
(* The theorems.                                                           *)

\* The invariant holds in every reachable state.
THEOREM MethodsInvariant == MethodsSpec => []MethodsInv
<1>1. MethodsInv /\ [MethodsNext]_methodVars => MethodsInv'
  BY MethodsTypeStep, SequentialStep, DefaultStep DEF MethodsInv
<1>2. QED
  BY MethodsInvInit, <1>1, PTL DEF MethodsSpec

\* Rows and handlers keep their types, and only existing methods are default.
THEOREM MethodsTypeCorrect == MethodsSpec => []MethodsTypeOK
  BY MethodsInvariant, PTL DEF MethodsInv

\* Calls of payment-method.service that do not overlap never give a user two
\* default methods, however many there are and whichever of them fail.
THEOREM DefaultIsUnique == MethodsSpec => []OneDefault
  BY MethodsInvariant, PTL DEF MethodsInv

\* Calls that overlap in any way leave a user with methods a default one,
\* unless it was removed or a change of default failed halfway.
THEOREM DefaultIsKept == MethodsSpec => []UserHasDefault
<1>1. MethodsInv => UserHasDefault
  BY DEF MethodsInv, DefaultInv, HadMethods, Changing, UserHasDefault, Quiet,
         Resting
<1>2. QED
  BY MethodsInvariant, <1>1, PTL

\* The default of a user is sound, for any number of calls.
THEOREM SoundDefault == MethodsSpec => []DefaultIsSound
  BY MethodsTypeCorrect, DefaultIsUnique, DefaultIsKept, PTL DEF DefaultIsSound

\* No call brings back a method that was removed.
THEOREM RemovalsStay == MethodsSpec => RemovedMethodsStay
<1>1. MethodsTypeOK /\ [MethodsNext]_methodVars =>
        [\A m \in Methods : adder[m].pc = "ended" /\ m \notin stored
                              => m \notin stored']_methodVars
  <2> SUFFICES ASSUME [MethodsNext]_methodVars, NEW m \in Methods,
                      adder[m].pc = "ended", m \notin stored
               PROVE  m \notin stored'
    OBVIOUS
  <2>1. CASE \E n \in Methods : AddSave(n)
    BY <2>1 DEF AddSave
  <2>2. CASE ~\E n \in Methods : AddSave(n)
    BY <2>2 DEF MethodsNext, AddCount, SetClear, SetMark, RemoveFind,
       RemoveReplace, RemoveMark, RemoveDelete, Remover, MethodsError,
       methodVars
  <2>3. QED
    BY <2>1, <2>2
<1>2. QED
  BY MethodsTypeCorrect, <1>1, PTL DEF MethodsSpec, RemovedMethodsStay
=============================================================================

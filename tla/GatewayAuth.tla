------------------------------ MODULE GatewayAuth ------------------------------
(***************************************************************************)
(* Users, sessions and one-time codes of the gateway (gateway-api/src/auth *)
(* and src/users): every request is a handler whose queries interleave     *)
(* with those of the others.                                               *)
(*                                                                         *)
(* A user and a refresh token are named by the request that makes them, a  *)
(* row of otp_codes by the request that generates the code.  Passwords,    *)
(* signatures and the other columns of a user are left out.  Rows are read *)
(* and saved as a whole, so a save writes back what the handler read; a    *)
(* save of a row that is gone inserts it again.                            *)
(***************************************************************************)
EXTENDS Integers, FiniteSets

CONSTANTS
  Registrations,  \* requests to register
  OAuths,         \* callbacks of a Google login
  Logins,         \* logins with email and password
  Refreshes,      \* requests that exchange a refresh token
  Logouts,        \* requests that revoke one
  Updates,        \* changes of a user's email, phone or both
  Deletes,        \* deletions of a user
  Generations,    \* requests for a one-time code
  Verifies,       \* verifications of one
  EmailOf,        \* email of a registration, Google profile, login, update
  PhoneOf,        \* phone of a registration, generation, verification, update
  Nobody          \* no user, token or code; what an update leaves alone

Creators == Registrations \cup OAuths \cup Verifies
Sessions == Registrations \cup OAuths \cup Logins \cup Refreshes
AuthCalls == Sessions \cup Logouts \cup Updates \cup Deletes \cup Generations
               \cup Verifies

\* A request is of one kind.
ASSUME AuthAssumption ==
  /\ Nobody \notin AuthCalls
  /\ Refreshes \cap (Registrations \cup OAuths \cup Logins) = {}
  /\ Sessions \cap (Logouts \cup Updates \cup Deletes \cup Generations \cup Verifies) = {}
  /\ Logouts \cap (Updates \cup Deletes \cup Generations \cup Verifies) = {}
  /\ (Updates \cup Deletes \cup Generations) \cap Verifies = {}

VARIABLES
  user,        \* users: whether the row is there, its email and its phone
  token,       \* refresh_tokens: "none" where there is no row
  code,        \* otp_codes: attempts and verified
  latest,      \* the latest row of otp_codes for a phone
  pc,          \* where the handler of a request stands
  subject,     \* the user it is about
  target,      \* the token or code it is about
  userCopy, codeCopy,   \* what updates and verifications have read
  before,      \* history: what had ended when a refresh began
  overlapped,  \* history: codes that two verifications worked on at once
  gone         \* history: users deleted while no update had a copy of them

authVars == <<user, token, code, latest, pc, subject, target, userCopy,
              codeCopy, before, overlapped, gone>>

Phones == {PhoneOf[c] : c \in Registrations \cup Generations \cup Verifies}

\* createWithPhone makes up an email from the phone, which stands for it here;
\* createFromOAuth makes up a phone, which the login stands for.
NewEmail(c) == IF c \in Verifies THEN PhoneOf[c] ELSE EmailOf[c]
NewPhone(c) == IF c \in OAuths THEN c ELSE PhoneOf[c]

NoUser(c) == [stored |-> FALSE, email |-> NewEmail(c), phone |-> NewPhone(c)]
FreshCode == [attempts |-> 0, verified |-> FALSE]

Stored == {u \in Creators : user[u].stored}

\* The requests of calls are made, in whatever order, the others are not.
AuthInit(calls) ==
  /\ user = [u \in Creators |-> NoUser(u)]
  /\ token = [t \in Sessions |-> "none"]
  /\ code = [g \in Generations |-> FreshCode]
  /\ latest = [p \in Phones |-> Nobody]
  /\ pc = [c \in AuthCalls |-> IF c \in calls THEN "idle" ELSE "unused"]
  /\ subject = [c \in AuthCalls |-> Nobody]
  /\ target = [c \in AuthCalls |-> Nobody]
  /\ userCopy = [c \in Updates |-> Nobody]
  /\ codeCopy = [c \in Verifies |-> FreshCode]
  /\ before = [f \in Refreshes |-> {}]
  /\ overlapped = {}
  /\ gone = {}

GoesTo(c, place) == pc' = [pc EXCEPT ![c] = place]
IsAbout(c, u) == subject' = [subject EXCEPT ![c] = u]

-----------------------------------------------------------------------------
(* Users                                                                   *)

\* The unique columns: no other row has the email or the phone.
Unique(u, row) ==
  \A v \in Stored \ {u} : user[v].email # row.email /\ user[v].phone # row.phone

RegisterEmail(r) ==
  /\ pc[r] = "idle"
  /\ GoesTo(r, IF \E u \in Stored : user[u].email = EmailOf[r]
               THEN "refused" ELSE "checkingPhone")
  /\ UNCHANGED <<user, token, code, latest, subject, target, userCopy, codeCopy,
                 before, overlapped, gone>>

RegisterPhone(r) ==
  /\ pc[r] = "checkingPhone"
  /\ GoesTo(r, IF \E u \in Stored : user[u].phone = PhoneOf[r]
               THEN "refused" ELSE "inserting")
  /\ UNCHANGED <<user, token, code, latest, subject, target, userCopy, codeCopy,
                 before, overlapped, gone>>

\* create, createFromOAuth and createWithPhone.
InsertUser(c) ==
  /\ pc[c] = "inserting"
  /\ IF Unique(c, NoUser(c))
     THEN /\ user' = [user EXCEPT ![c] = [NoUser(c) EXCEPT !.stored = TRUE]]
          /\ IsAbout(c, c)
          /\ GoesTo(c, IF c \in Verifies THEN "verified" ELSE "issuing")
     ELSE /\ GoesTo(c, "errored")
          /\ UNCHANGED <<user, subject>>
  /\ UNCHANGED <<token, code, latest, target, userCopy, codeCopy, before,
                 overlapped, gone>>

\* Mutant: an access token is enough, whatever has become of its user.
Trusted(u) == pc[u] \in {"done", "verified"}

\* An authenticated request finds its user, whatever its access token says.
Exists(u) == u \in Stored

\* Object.assign(user, restDto): the columns that are not in the request keep the
\* values the handler has read, which its save writes back.
Assigned(row, c) ==
  [stored |-> TRUE,
   email |-> IF EmailOf[c] = Nobody THEN row.email ELSE EmailOf[c],
   phone |-> IF PhoneOf[c] = Nobody THEN row.phone ELSE PhoneOf[c]]

\* PUT /users/me reads the user, then hashes the password, if there is one.
UpdateRead(c, u) ==
  /\ pc[c] = "idle" /\ Exists(u)
  /\ IsAbout(c, u)
  /\ userCopy' = [userCopy EXCEPT ![c] = Assigned(user[u], c)]
  /\ GoesTo(c, "saving")
  /\ UNCHANGED <<user, token, code, latest, target, codeCopy, before,
                 overlapped, gone>>

\* A row that is gone is inserted again if the copy has a password, which only
\* an update that changes it does, and otherwise refused by the NOT NULL column.
UpdateSave(c) ==
  LET u == subject[c] IN
  /\ pc[c] = "saving"
  /\ \/ /\ Unique(u, userCopy[c])
        /\ user' = [user EXCEPT ![u] = userCopy[c]]
        /\ GoesTo(c, "done")
     \/ /\ ~Unique(u, userCopy[c]) \/ u \notin Stored
        /\ GoesTo(c, "errored")
        /\ UNCHANGED user
  /\ UNCHANGED <<token, code, latest, subject, target, userCopy, codeCopy,
                 before, overlapped, gone>>

DeleteRead(c, u) ==
  /\ pc[c] = "idle" /\ Exists(u)
  /\ IsAbout(c, u)
  /\ GoesTo(c, "removing")
  /\ UNCHANGED <<user, token, code, latest, target, userCopy, codeCopy, before,
                 overlapped, gone>>

\* Mutant: the tokens stay.
NoTokensOf(u) == {}

\* The tokens that go with a user: refresh_tokens has ON DELETE CASCADE.
TokensOf(u) == {t \in Sessions : subject[t] = u}

\* Removing a row that is gone already is no error.
DeleteRemove(c) ==
  LET u == subject[c] IN
  /\ pc[c] = "removing"
  /\ user' = [user EXCEPT ![u].stored = FALSE]
  /\ token' = [t \in Sessions |-> IF t \in TokensOf(u) THEN "none" ELSE token[t]]
  /\ gone' = IF \E w \in Updates : pc[w] = "saving" /\ subject[w] = u
             THEN gone ELSE gone \cup {u}
  /\ GoesTo(c, "done")
  /\ UNCHANGED <<code, latest, subject, target, userCopy, codeCopy, before,
                 overlapped>>

-----------------------------------------------------------------------------
(* Sessions                                                                *)

\* findByEmail and the password; a wrong password is refused like no user.
Login(l) ==
  /\ pc[l] = "idle"
  /\ \/ \E u \in Stored :
          user[u].email = EmailOf[l] /\ IsAbout(l, u) /\ GoesTo(l, "issuing")
     \/ GoesTo(l, "refused") /\ UNCHANGED subject
  /\ UNCHANGED <<user, token, code, latest, target, userCopy, codeCopy, before,
                 overlapped, gone>>

OAuthLogin(o) ==
  /\ pc[o] = "idle"
  /\ \/ \E u \in Stored :
          user[u].email = EmailOf[o] /\ IsAbout(o, u) /\ GoesTo(o, "issuing")
     \/ /\ \A u \in Stored : user[u].email # EmailOf[o]
        /\ GoesTo(o, "inserting") /\ UNCHANGED subject
  /\ UNCHANGED <<user, token, code, latest, target, userCopy, codeCopy, before,
                 overlapped, gone>>

\* generateTokens: the foreign key refuses a token of a user that is gone.
IssueTokens(c) ==
  /\ pc[c] = "issuing"
  /\ IF subject[c] \in Stored
     THEN token' = [token EXCEPT ![c] = "active"] /\ GoesTo(c, "done")
     ELSE GoesTo(c, "errored") /\ UNCHANGED token
  /\ UNCHANGED <<user, code, latest, subject, target, userCopy, codeCopy, before,
                 overlapped, gone>>

\* Mutant: the look-up of refreshToken does not ask for revoked: false.
AcceptsRevoked(t) == token[t] # "none"

\* The look-up of refreshToken asks for revoked: false.
Accepts(t) == token[t] = "active"

\* A refresh with the token of a session; it may have expired.
RefreshRead(f, t) ==
  /\ pc[f] = "idle" /\ pc[t] = "done"
  /\ target' = [target EXCEPT ![f] = t]
  /\ before' = [before EXCEPT ![f] = {c \in Refreshes \cup Logouts :
                                        pc[c] = "done" /\ target[c] = t}]
  /\ \/ Accepts(t) /\ IsAbout(f, subject[t]) /\ GoesTo(f, "revoking")
     \/ GoesTo(f, "refused") /\ UNCHANGED subject
  /\ UNCHANGED <<user, token, code, latest, userCopy, codeCopy, overlapped, gone>>

\* revokeRefreshToken, an update of the row if it is there.
Revoked(t) ==
  [token EXCEPT ![t] = IF token[t] = "none" THEN "none" ELSE "revoked"]

RefreshRevoke(f) ==
  /\ pc[f] = "revoking"
  /\ token' = Revoked(target[f])
  /\ GoesTo(f, "issuing")
  /\ UNCHANGED <<user, code, latest, subject, target, userCopy, codeCopy, before,
                 overlapped, gone>>

Logout(c, t) ==
  /\ pc[c] = "idle" /\ pc[t] = "done"
  /\ target' = [target EXCEPT ![c] = t]
  /\ token' = Revoked(t)
  /\ GoesTo(c, "done")
  /\ UNCHANGED <<user, code, latest, subject, userCopy, codeCopy, before,
                 overlapped, gone>>

-----------------------------------------------------------------------------
(* One-time codes                                                          *)

GenerateOtp(g) ==
  /\ pc[g] = "idle"
  /\ latest' = [latest EXCEPT ![PhoneOf[g]] = g]
  /\ GoesTo(g, "done")
  /\ UNCHANGED <<user, token, code, subject, target, userCopy, codeCopy, before,
                 overlapped, gone>>

\* Handlers that hold a copy of the row g of otp_codes.
Holding(g) == {v \in Verifies : target[v] = g /\ pc[v] \in {"counting", "confirming"}}

\* Mutant: a code that was verified is good again.
GoodForEver(row) == TRUE

\* What verifyOtp asks of a row besides the code, before it expires.
Good(row) == ~row.verified

\* Verification v with the code of entered, or with a wrong one (Nobody). A code
\* that has expired counts as wrong; invalidated is written and never read.
VerifyRead(v, entered) ==
  LET g == latest[PhoneOf[v]] IN
  /\ pc[v] = "idle"
  /\ target' = [target EXCEPT ![v] = g]
  /\ IF g = Nobody THEN GoesTo(v, "refused") /\ UNCHANGED <<codeCopy, overlapped>>
     ELSE /\ codeCopy' = [codeCopy EXCEPT ![v] = code[g]]
          /\ overlapped' = IF Holding(g) = {} THEN overlapped
                           ELSE overlapped \cup {g}
          /\ \/ entered = g /\ Good(code[g]) /\ GoesTo(v, "confirming")
             \/ ~code[g].verified /\ GoesTo(v, "counting")
             \/ code[g].verified /\ GoesTo(v, "refused")
  /\ UNCHANGED <<user, token, code, latest, subject, userCopy, before, gone>>

VerifyCount(v) ==
  /\ pc[v] = "counting"
  /\ code' = [code EXCEPT ![target[v]] = [codeCopy[v] EXCEPT !.attempts = @ + 1]]
  /\ GoesTo(v, "counted")
  /\ UNCHANGED <<user, token, latest, subject, target, userCopy, codeCopy,
                 before, overlapped, gone>>

VerifyConfirm(v) ==
  /\ pc[v] = "confirming"
  /\ code' = [code EXCEPT ![target[v]] = [codeCopy[v] EXCEPT !.verified = TRUE]]
  /\ GoesTo(v, "finding")
  /\ UNCHANGED <<user, token, latest, subject, target, userCopy, codeCopy,
                 before, overlapped, gone>>

\* findByPhone; without a user, createWithPhone comes next.
VerifyFind(v) ==
  /\ pc[v] = "finding"
  /\ \/ \E u \in Stored :
          user[u].phone = PhoneOf[v] /\ IsAbout(v, u) /\ GoesTo(v, "verified")
     \/ /\ \A u \in Stored : user[u].phone # PhoneOf[v]
        /\ GoesTo(v, "inserting") /\ UNCHANGED subject
  /\ UNCHANGED <<user, token, code, latest, target, userCopy, codeCopy, before,
                 overlapped, gone>>

-----------------------------------------------------------------------------

\* A query fails, or the process dies, in the middle of a request.
Waiting == {"checkingPhone", "inserting", "saving", "removing", "issuing",
            "revoking", "counting", "confirming", "finding"}

AbortAuth(c) ==
  /\ pc[c] \in Waiting
  /\ GoesTo(c, "aborted")
  /\ UNCHANGED <<user, token, code, latest, subject, target, userCopy, codeCopy,
                 before, overlapped, gone>>

\* Every step but the removal of a user, which other tables follow.
AuthNext ==
  \/ \E r \in Registrations : RegisterEmail(r) \/ RegisterPhone(r)
  \/ \E c \in Creators : InsertUser(c)
  \/ \E c \in Updates : UpdateSave(c) \/ \E u \in Creators : UpdateRead(c, u)
  \/ \E c \in Deletes, u \in Creators : DeleteRead(c, u)
  \/ \E l \in Logins : Login(l)
  \/ \E o \in OAuths : OAuthLogin(o)
  \/ \E c \in Sessions : IssueTokens(c)
  \/ \E f \in Refreshes : RefreshRevoke(f) \/ \E t \in Sessions : RefreshRead(f, t)
  \/ \E c \in Logouts, t \in Sessions : Logout(c, t)
  \/ \E g \in Generations : GenerateOtp(g)
  \/ \E v \in Verifies :
       VerifyCount(v) \/ VerifyConfirm(v) \/ VerifyFind(v)
         \/ \E g \in Generations \cup {Nobody} : VerifyRead(v, g)
  \/ \E c \in AuthCalls : AbortAuth(c)

-----------------------------------------------------------------------------
(* Properties                                                              *)

\* Rows, program counters and copies have their types.
AuthTypeOK ==
  LET Row == [stored : BOOLEAN,
              email : {NewEmail(c) : c \in Creators} \cup {EmailOf[c] : c \in Updates},
              phone : {NewPhone(c) : c \in Creators} \cup {PhoneOf[c] : c \in Updates}]
      Code == [attempts : Nat, verified : BOOLEAN]
  IN
  /\ user \in [Creators -> Row]
  /\ token \in [Sessions -> {"none", "active", "revoked"}]
  /\ code \in [Generations -> Code]
  /\ latest \in [Phones -> Generations \cup {Nobody}]
  /\ pc \in [AuthCalls -> Waiting \cup {"unused", "idle", "refused", "errored",
                                        "done", "verified", "counted", "aborted"}]
  /\ subject \in [AuthCalls -> Creators \cup {Nobody}]
  /\ target \in [AuthCalls -> Sessions \cup Generations \cup {Nobody}]
  /\ userCopy \in [Updates -> Row \cup {Nobody}]
  /\ codeCopy \in [Verifies -> Code]
  /\ before \in [Refreshes -> SUBSET (Refreshes \cup Logouts)]
  /\ overlapped \subseteq Generations
  /\ gone \subseteq Creators

\* Racing registrations, first logins and verifications of one person leave one
\* user: no two rows have an email or a phone in common.
UsersAreUnique == \A u \in Stored : Unique(u, user[u])

\* Every refresh token belongs to a user that exists, also when a deletion comes
\* between the login's look-up and the insert of the token.
TokensHaveUsers == \A t \in Sessions : token[t] # "none" => subject[t] \in Stored

\* A user that was deleted while no update had a copy of the row does not come
\* back; a profile update that overlaps the deletion inserts it again.
DeletedForGood == gone \cap Stored = {}

\* A refresh token is spent: after a refresh or a logout with it has been
\* answered, a refresh with it is refused. Only refreshes that overlap get
\* tokens from one token.
TokensSpentOnce ==
  \A f \in Refreshes : before[f] # {} => pc[f] = "refused"

\* As long as no two verifications worked on a code at once, it was accepted
\* once at most, and its attempts are the wrong codes that were refused.
CodesSingleUse ==
  \A g \in Generations \ overlapped :
    LET Ended(places) == {v \in Verifies : target[v] = g /\ pc[v] \in places} IN
    /\ Cardinality(Ended({"finding", "inserting", "verified"})) <= 1
    /\ code[g].attempts = Cardinality(Ended({"counted"}))
=============================================================================

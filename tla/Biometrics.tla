------------------------------- MODULE Biometrics -------------------------------
(***************************************************************************)
(* Keys of devices and the challenges they sign (gateway-api/src/biometric *)
(* and auth/services/biometric-verification.service.ts, two services over  *)
(* the same two tables).                                                   *)
(*                                                                         *)
(* A device is a pair of user and device id, so it has one row of          *)
(* biometric_keys at most. A row is named by the registration that inserts *)
(* it, a public key by the one that sent it. A save of a row that is gone  *)
(* inserts it again, unless the device has another row by then. createChallenge *)
(* of the second service has no caller.                                    *)
(***************************************************************************)
EXTENDS Integers, FiniteSets

CONSTANTS
  Devices,     \* registered devices
  Owner,       \* the user of a device
  KeyRegs,     \* requests that register a key
  Challenges,  \* requests for a challenge
  Responses,   \* requests that verify a signature
  Removals,    \* requests that remove the key of a device, or all of a user
  DeviceOf,    \* the device of a request
  Separate,    \* responses that go to the second service
  NoKey        \* no row

BioCalls == KeyRegs \cup Challenges \cup Responses \cup Removals

VARIABLES
  stored,     \* the users that exist
  key,        \* biometric_keys: the row of a device and its public key
  challenge,  \* biometric_challenges: "none" where there is no row
  step,       \* where the handler of a request stands
  held,       \* the row that a registration or response has read
  asked,      \* the challenge that a response answers
  signer,     \* the registration whose private key signed it
  answered,   \* history: the responses that had ended when a response began
  dropped     \* history: rows removed while no handler held them

bioVars == <<key, challenge, step, held, asked, signer, answered, dropped>>

NoRow == [row |-> NoKey, public |-> NoKey]

BioInit(calls) ==
  /\ key = [d \in Devices |-> NoRow]
  /\ challenge = [h \in Challenges |-> "none"]
  /\ step = [c \in BioCalls |-> IF c \in calls THEN "idle" ELSE "unused"]
  /\ held = [c \in KeyRegs \cup Responses |-> NoRow]
  /\ asked = [b \in Responses |-> NoKey]
  /\ signer = [b \in Responses |-> NoKey]
  /\ answered = [b \in Responses |-> {}]
  /\ dropped = {}

\* Every request is authenticated, so its user exists when it begins.
Begins(c) == step[c] = "idle" /\ Owner[DeviceOf[c]] \in stored

StepsTo(c, place) == step' = [step EXCEPT ![c] = place]
Holds(c, row) == held' = [held EXCEPT ![c] = row]

\* Whether the row can be saved: the device has no other, and has a user.
CanSave(d, row) ==
  key[d].row \in {row.row, NoKey} /\ Owner[d] \in stored

-----------------------------------------------------------------------------
(* Registration and removal of keys                                        *)

\* The row of the device with the new public key, or a new row.
RegisterRead(k) ==
  LET row == key[DeviceOf[k]].row IN
  /\ Begins(k)
  /\ Holds(k, [row |-> IF row = NoKey THEN k ELSE row, public |-> k])
  /\ StepsTo(k, "saving")
  /\ UNCHANGED <<key, challenge, asked, signer, answered, dropped>>

\* What a handler saves is the row it holds.
SaveHeld(c, next) ==
  LET d == DeviceOf[c] IN
  IF CanSave(d, held[c])
  THEN key' = [key EXCEPT ![d] = held[c]] /\ StepsTo(c, next)
  ELSE StepsTo(c, "errored") /\ UNCHANGED key

RegisterSave(k) ==
  /\ step[k] = "saving"
  /\ SaveHeld(k, "done")
  /\ UNCHANGED <<challenge, held, asked, signer, answered, dropped>>

\* Rows of the devices that no handler holds.
FreeRows(devices) ==
  {key[d].row : d \in devices} \
    {held[c].row : c \in {c \in KeyRegs \cup Responses :
       step[c] \in {"saving", "finding", "checking", "removing", "touching"}}}

DropKeys(devices) ==
  /\ key' = [d \in Devices |-> IF d \in devices THEN NoRow ELSE key[d]]
  /\ dropped' = dropped \cup (FreeRows(devices) \ {NoKey})

\* removeDeviceKey, or removeAllUserKeys.
RemoveKeys(x) ==
  LET d == DeviceOf[x] IN
  /\ Begins(x)
  /\ \E devices \in {{d}, {e \in Devices : Owner[e] = Owner[d]}} : DropKeys(devices)
  /\ StepsTo(x, "done")
  /\ UNCHANGED <<challenge, held, asked, signer, answered>>

\* The keys go with their user: biometric_keys has ON DELETE CASCADE.
Cascade(u) ==
  /\ DropKeys({d \in Devices : Owner[d] = u})
  /\ UNCHANGED <<challenge, step, held, asked, signer, answered>>

-----------------------------------------------------------------------------
(* Challenges and responses                                                *)

ChallengeRead(h) ==
  /\ Begins(h)
  /\ StepsTo(h, IF key[DeviceOf[h]] = NoRow THEN "refused" ELSE "inserting")
  /\ UNCHANGED <<key, challenge, held, asked, signer, answered, dropped>>

ChallengeInsert(h) ==
  /\ step[h] = "inserting"
  /\ challenge' = [challenge EXCEPT ![h] = "open"]
  /\ StepsTo(h, "done")
  /\ UNCHANGED <<key, held, asked, signer, answered, dropped>>

\* The responses to h whose signature has been judged, right or wrong.
Judged(h) == {b \in Responses : asked[b] = h /\ step[b] \in {"verified", "wrong"}}

\* Response b to the challenge h, signed with the private key that belongs to
\* the public key of k.
RespondRead(b, h, k) ==
  LET row == key[DeviceOf[b]] IN
  /\ Begins(b)
  /\ step[h] = "done" /\ DeviceOf[h] = DeviceOf[b] /\ DeviceOf[k] = DeviceOf[b]
  /\ asked' = [asked EXCEPT ![b] = h]
  /\ signer' = [signer EXCEPT ![b] = k]
  /\ answered' = [answered EXCEPT ![b] = Judged(h)]
  /\ Holds(b, row)
  /\ StepsTo(b, IF row = NoRow THEN "refused" ELSE "finding")
  /\ UNCHANGED <<key, challenge, dropped>>

\* The challenge is looked up; it may have expired.
RespondFind(b) ==
  /\ step[b] = "finding"
  /\ \/ challenge[asked[b]] = "open" /\ StepsTo(b, "checking")
     \/ StepsTo(b, "refused")
  /\ UNCHANGED <<key, challenge, held, asked, signer, answered, dropped>>

\* Mutant: a challenge that was answered wrong stays.
CloseVerified(b) ==
  challenge' = IF held[b].public = signer[b]
               THEN [challenge EXCEPT ![asked[b]] = "none"] ELSE challenge

Close(b) == challenge' = [challenge EXCEPT ![asked[b]] = "none"]

\* The signature is judged by the key that was read, the challenge removed,
\* whatever the result; then the first service saves lastUsed.
RespondJudge(b) ==
  /\ step[b] = "checking"
  /\ Close(b)
  /\ StepsTo(b, IF held[b].public # signer[b] THEN "wrong"
                ELSE IF b \in Separate THEN "verified" ELSE "touching")
  /\ UNCHANGED <<key, held, asked, signer, answered, dropped>>

\* A public key that cannot be read, or a removal that fails: the first service
\* tries (again) to remove the challenge, the second leaves it.
RespondThrow(b) ==
  /\ step[b] = "checking"
  /\ StepsTo(b, IF b \in Separate THEN "errored" ELSE "removing")
  /\ UNCHANGED <<key, challenge, held, asked, signer, answered, dropped>>

RespondRemove(b) ==
  /\ step[b] = "removing"
  /\ challenge' = [challenge EXCEPT ![asked[b]] = "none"]
  /\ StepsTo(b, "wrong")
  /\ UNCHANGED <<key, held, asked, signer, answered, dropped>>

\* lastUsed is saved with the row as it was read, public key included.
RespondTouch(b) ==
  /\ step[b] = "touching"
  /\ SaveHeld(b, "verified")
  /\ UNCHANGED <<challenge, held, asked, signer, answered, dropped>>

-----------------------------------------------------------------------------

BioWaiting == {"saving", "inserting", "finding", "checking", "removing", "touching"}

AbortBio(c) ==
  /\ step[c] \in BioWaiting
  /\ StepsTo(c, "aborted")
  /\ UNCHANGED <<key, challenge, held, asked, signer, answered, dropped>>

BioNext ==
  \/ \E k \in KeyRegs : RegisterRead(k) \/ RegisterSave(k)
  \/ \E x \in Removals : RemoveKeys(x)
  \/ \E h \in Challenges : ChallengeRead(h) \/ ChallengeInsert(h)
  \/ \E b \in Responses :
       \/ \E h \in Challenges, k \in KeyRegs : RespondRead(b, h, k)
       \/ RespondFind(b) \/ RespondJudge(b) \/ RespondThrow(b)
       \/ RespondRemove(b) \/ RespondTouch(b)
  \/ \E c \in BioCalls : AbortBio(c)

-----------------------------------------------------------------------------
(* Properties                                                              *)

\* Rows, handlers and copies have their types.
BioTypeOK ==
  LET Row == [row : KeyRegs \cup {NoKey}, public : KeyRegs \cup {NoKey}] IN
  /\ key \in [Devices -> Row]
  /\ challenge \in [Challenges -> {"none", "open"}]
  /\ step \in [BioCalls -> BioWaiting \cup {"unused", "idle", "done", "refused",
                             "wrong", "verified", "errored", "aborted"}]
  /\ held \in [KeyRegs \cup Responses -> Row]
  /\ asked \in [Responses -> Challenges \cup {NoKey}]
  /\ signer \in [Responses -> KeyRegs \cup {NoKey}]
  /\ answered \in [Responses -> SUBSET Responses]
  /\ dropped \subseteq KeyRegs

\* A key exists only as long as its user does.
KeysHaveUsers == \A d \in Devices : key[d] # NoRow => Owner[d] \in stored

\* A challenge is answered once: a response that begins after another one to it
\* was judged, right or wrong, is refused. Only responses that overlap are
\* judged against the same challenge.
ChallengeAnsweredOnce ==
  \A b \in Responses :
    answered[b] # {} => step[b] \in {"finding", "refused", "aborted"}

\* A key that was removed while no handler held its row does not come back; a
\* registration or a verification that overlaps the removal inserts it again.
RemovedKeysStayRemoved == \A d \in Devices : key[d].row \notin dropped
=============================================================================

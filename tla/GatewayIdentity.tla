---------------------------- MODULE GatewayIdentity ----------------------------
(***************************************************************************)
(* The users of the gateway with what hangs on them: sessions and one-time *)
(* codes (GatewayAuth) and the keys of their devices (Biometrics). Both    *)
(* meet in the table of users: requests about keys are authenticated, and  *)
(* the removal of a user takes the tokens and the keys along.              *)
(***************************************************************************)
EXTENDS GatewayAuth

CONSTANTS
  Devices, Owner, KeyRegs, Challenges, Responses, Removals, DeviceOf, Separate,
  Mixes   \* sets of requests; a behaviour makes those of one of them

ASSUME IdentityAssumption ==
  /\ \A d \in Devices : Owner[d] \in Creators
  /\ \A c \in KeyRegs \cup Challenges \cup Responses \cup Removals :
       DeviceOf[c] \in Devices
  /\ Separate \subseteq Responses
  /\ Nobody \notin KeyRegs

VARIABLES key, challenge, step, held, asked, signer, answered, dropped

Bio == INSTANCE Biometrics WITH NoKey <- Nobody, stored <- Stored

bio == <<key, challenge, step, held, asked, signer, answered, dropped>>
vars == <<authVars, bio>>

Init == \E mix \in Mixes : AuthInit(mix) /\ Bio!BioInit(mix)

RemoveUser(c) == DeleteRemove(c) /\ Bio!Cascade(subject[c])

Next ==
  \/ AuthNext /\ UNCHANGED bio
  \/ Bio!BioNext /\ UNCHANGED authVars
  \/ \E c \in Deletes : RemoveUser(c)

Spec == Init /\ [][Next]_vars

-----------------------------------------------------------------------------

\* No row outlives what it belongs to, and no two users share an email or phone,
\* whatever registrations, logins, updates and deletions overlap.
RowsHaveOwners ==
  /\ AuthTypeOK /\ Bio!BioTypeOK
  /\ UsersAreUnique
  /\ TokensHaveUsers
  /\ Bio!KeysHaveUsers

\* Users and keys that were removed while no handler held a copy stay removed.
RemovedForGood == DeletedForGood /\ Bio!RemovedKeysStayRemoved

\* Challenges are answered once, unless the responses overlap.
ChallengeAnsweredOnce == Bio!ChallengeAnsweredOnce
=============================================================================

--------------------------- MODULE MCGatewayIdentity ---------------------------
(* An instance of GatewayIdentity for TLC.                                  *)
EXTENDS GatewayIdentity, TLC

CONSTANTS r1, r2, o1, l1, f1, f2, f3, q1, e1, e2, x1, g1, g2, v1, v2, v3,
          d1, d2, k1, k2, k3, h1, b1, b2, b3, z1, mail1, mail2, phone1

MCRegistrations == {r1, r2}
MCOAuths        == {o1}
MCLogins        == {l1}
MCRefreshes     == {f1, f2, f3}
MCLogouts       == {q1}
MCUpdates       == {e1, e2}
MCDeletes       == {x1}
MCGenerations   == {g1, g2}
MCVerifies      == {v1, v2, v3}
MCDevices       == {d1, d2}
MCKeyRegs       == {k1, k2, k3}
MCChallenges    == {h1}
MCResponses     == {b1, b2, b3}
MCRemovals      == {z1}

\* Two registrations with one phone, the first with the email of the rest; one
\* update takes the email of the second, the other the phone of both.
MCEmailOf == r1 :> mail1 @@ r2 :> mail2 @@ o1 :> mail1 @@ l1 :> mail1
               @@ e1 :> mail2 @@ e2 :> Nobody
MCPhoneOf == [c \in MCRegistrations \cup MCGenerations \cup MCVerifies |-> phone1]
               @@ e1 :> Nobody @@ e2 :> phone1

\* Two devices of the first user.
MCOwner    == [d \in MCDevices |-> r1]
MCDeviceOf == [c \in MCKeyRegs \cup MCChallenges \cup MCResponses \cup MCRemovals |->
                 IF c = k3 THEN d2 ELSE d1]
MCSeparate == {b2}

\* Accounts; sessions; first logins and codes; codes; removed and new keys;
\* challenges.
MCMixes == {
  {r1, r2, o1, e1, e2, x1},
  {r1, l1, f1, f2, f3, q1, x1},
  {r2, o1, g1, v1, v2, x1},
  {g1, g2, v1, v2, v3},
  {r1, x1, e1, k1, k2, k3, z1},
  {r1, k1, k2, h1, b1, b2, z1},
  {r1, k1, h1, b1, b3, z1}}
=============================================================================

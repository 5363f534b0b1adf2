-------------------------- MODULE MCHubTransactions --------------------------
(* Instances of HubTransactions for TLC.                                   *)
EXTENDS HubTransactions, TLC

CONSTANTS r1, r2, v1, v2, ref

\* Two requests race for one reference number.
MCRequests      == {r1, r2}
MCReferences    == {ref}
MCReferenceOf   == [r \in MCRequests |-> ref]
MCVerifications == {v1, v2}

\* One request, to leave room for more attempts and concurrent verifications.
OneRequest    == {r1}
OneReference  == [r \in OneRequest |-> ref]

Symmetry == Permutations(MCRequests) \cup Permutations(MCVerifications)
=============================================================================

--------------------------- MODULE MCBankTransfers ---------------------------
(* Instance of BankTransfers for TLC.                                      *)
EXTENDS BankTransfers

CONSTANTS r1, c1, a1, a2, k1, u1, u2, n1, n2

\* One message of each kind, two requests to add an account and one to
\* verify it, two users, an account that is valid and one that is not.
MCReceives == {r1}
MCCredits  == {c1}
MCAdds     == {a1, a2}
MCVerifies == {k1}
MCUsers    == {u1, u2}
MCAccounts == {n1, n2}
MCValid    == {n1}
MCAmount   == [m \in {r1, c1} |-> IF m = r1 THEN 2 ELSE 3]
=============================================================================

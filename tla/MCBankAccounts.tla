--------------------------- MODULE MCBankAccounts ----------------------------
(* Instance of BankAccounts for TLC.                                       *)
EXTENDS BankAccounts, TLC

CONSTANTS d1, d2, f1, z1, s1, l1, l2, a1, u0, u1, u2, n1, n2, x1

\* Two debits and a freeze of which the deposit pays any two but not all,
\* one message of each other kind and two that link one number. Both debits
\* carry the same external id.
MCDebits    == {d1, d2}
MCFreezes   == {f1}
MCUnfreezes == {z1}
MCSettles   == {s1}
MCLinks     == {l1, l2}
MCOpened    == {a1}
MCUser      == [a \in {l1, l2, a1} |-> CASE a = l1 -> u1 [] a = l2 -> u2 [] a = a1 -> u0]
MCNumber    == [a \in {l1, l2, a1} |-> IF a = a1 THEN n1 ELSE n2]
MCAmount    == [m \in {d1, d2, f1} |-> CASE m = d1 -> 4 [] m = d2 -> 3 [] m = f1 -> 5]
MCExternalId == [d \in {d1, d2} |-> x1]

\* The two links, each of a user who has no other account, can change places.
Symmetry == Permutations(MCLinks)
=============================================================================
